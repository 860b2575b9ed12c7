---------------------------- MODULE SyncClientProofs ----------------------------
(***************************************************************************)
(* The numbers SyncClient works with are those of versions there are,      *)
(* whatever fails and whoever commits (NumInv).  Where no other device     *)
(* commits during an update, its list of files stays true whatever fails   *)
(* (ListInv), and the window says the truth where nothing fails but the    *)
(* connection and a restored file's checksum (CleanInv).  With a commit of *)
(* another device in between the second is false (sync_stale_base.cfg);    *)
(* with a torn list, a lost removal, a file of length 0 or an emptied      *)
(* directory the last (sync_torn_list.cfg, sync_lost_removal.cfg,          *)
(* sync_empty_file.cfg, sync_emptied.cfg).  If besides a single version    *)
(* comes from elsewhere, what the user wrote is kept (KeptInv).            *)
(***************************************************************************)
EXTENDS SyncClient, TLAPS

------------------------------------------------------------------------------
(* The dialogue.                                                           *)

Rows == [place : Places, sum : Contents, ver : Nat, toRemove : BOOLEAN]

WithPlace == {"add", "remove", "ack", "nack", "begin", "file"}
WithContent == {"add", "begin", "file"}
Messages ==
  [to : {"server", "client"}, place : Places \cup {NoPlace}, content : Nat,
   kind : {"version", "start", "stop", "restore", "ok", "error"} \cup WithPlace]

AsksAt ==
  {<<"version", "version">>, <<"restore", "restore">>, <<"receive", "ack">>,
   <<"receive", "nack">>, <<"start", "start">>, <<"added", "add">>,
   <<"removed", "remove">>, <<"stop", "stop">>}
AnswersAt ==
  {<<"version", "version">>, <<"restore", "begin">>, <<"receive", "file">>,
   <<"receive", "stop">>}
    \cup {"start", "added", "removed", "stop"} \X {"ok"}
    \cup {"version", "restore", "receive", "start", "added", "removed", "stop"} \X {"error"}

\* Only what the client waits for is on its way.
WireInv ==
  wire # NoMessage =>
    /\ wire \in Messages
    /\ wire.to = "server" => <<pc, wire.kind>> \in AsksAt
    /\ wire.to = "client" => <<pc, wire.kind>> \in AnswersAt
    /\ wire.kind \in WithPlace \/ pc = "added" => wire.place \in Places
    /\ wire.kind \in WithContent \/ (pc = "added" /\ wire.kind = "ok") => wire.content \in Contents

Sending == {"send", "added", "remove", "removed"}
Receiving == {"restore", "receive"}

\* The numbers the client works with are those of the server until it commits.
NumbersInv ==
  /\ Answered("version", "version") => wire.content = Len(hist)
  /\ pc \in {"aside"} \cup Receiving => lastServer = Len(hist) /\ Restoring
  /\ pc = "restore" /\ wire.to = "server" /\ wire.kind = "restore" => wire.content = lastServer
  /\ pc \in {"start"} \cup Sending => lastServer = Len(hist) /\ lastLocal = lastServer
  /\ pc = "stop" => lastLocal = lastServer
  /\ Asked("stop") \/ (Answered("stop", "ok") /\ wire.content = 0) => lastServer = Len(hist)
  /\ Answered("stop", "ok") /\ wire.content > 0 =>
       wire.content = Len(hist) /\ Len(hist) = lastServer + 1
  /\ pc \in {"clear", "insert"} =>
       /\ version = Len(hist)
       /\ IF Restoring THEN lastServer = version
                       ELSE lastServer = lastLocal /\ version = lastServer + 1

------------------------------------------------------------------------------
(* The list.                                                               *)

RowIsTrue(r) ==
  /\ r.ver \in DOMAIN hist
  /\ r.place \in DOMAIN hist[r.ver]
  /\ hist[r.ver][r.place] = r.sum

\* A row is of the version the update began with, or of the one it makes.
RowFits(r) ==
  IF r.toRemove THEN r.ver = lastLocal /\ RowIsTrue(r)
  ELSE /\ r.ver = lastServer + 1
       /\ r.place \in DOMAIN draft
       /\ draft[r.place] = r.sum

\* What is still to restore is of the version asked for.
RestoreInv ==
  /\ pc \in Receiving => \A r \in fl : RowIsTrue(r) /\ r.ver = lastServer
  /\ pc \in Receiving /\ wire # NoMessage /\ wire.kind \in {"begin", "file", "ack", "nack"} =>
       /\ session = "restore"
       /\ wire.place \in DOMAIN draft
       /\ \A p \in DOMAIN draft : p \in DOMAIN hist[lastServer] /\ draft[p] = hist[lastServer][p]
       /\ wire.kind \in {"begin", "file"} => wire.content = draft[wire.place]
  /\ pc = "aside" => fl = {}
  /\ pc = "putback" => \A p \in todo : p[2] > 0

\* The rows of an update are in the draft, each file once.
UpdateInv ==
  /\ Answered("start", "ok") => session = "update" /\ draft = LastOf(hist)
  /\ pc \in Sending \/ Asked("stop") =>
       /\ session = "update"
       /\ \A r \in fl : RowFits(r)
       /\ \A r, s \in fl : r.place = s.place => r = s
  /\ pc \in {"send", "added"} =>
       \A r \in fl : r.toRemove => r.place \in DOMAIN draft /\ draft[r.place] = r.sum
  /\ pc = "added" /\ wire # NoMessage =>
       /\ wire.place \notin todo
       /\ \A r \in fl : r.place # wire.place
       /\ Answered("added", "ok") =>
            wire.place \in DOMAIN draft /\ draft[wire.place] = wire.content
  /\ pc \in Sending => \A r \in fl : r.place \in todo => r.toRemove
  /\ Asked("remove") => \A r \in fl : r.place = wire.place => r.toRemove

\* What is written to the database is true.
CommittedInv ==
  pc \in {"clear", "insert"} \/ (Answered("stop", "ok") /\ wire.content > 0) =>
    \A r \in fl : RowIsTrue(r)

\* The list in the database has a last version.
LastInv == local = {} \/ \E r \in local : \A s \in local : s.ver <= r.ver

ListInv ==
  /\ TypeOK
  /\ hist \in Seq(Listings)
  /\ local \cup fl \subseteq Rows
  /\ WireInv
  /\ NumbersInv
  /\ RestoreInv
  /\ UpdateInv
  /\ LastInv
  /\ ListIsTrue
  /\ CommittedInv

------------------------------------------------------------------------------
(* Where nothing fails, but for a message that is lost or a file that is   *)
(* garbled: after these the client waits for ever.                         *)

Calm == ~ OthersMeanwhile /\ CanBeEmpty = {} /\ Faults \subseteq {"ahead", "lose", "garble"}

\* No file has length 0.
NonEmptyFiles(l) == \A p \in DOMAIN l : l[p] # 0

\* Of a version no row is missing.
Covers(rows, l) == \A p \in DOMAIN l : \E r \in rows : r.place = p

Kept == {r \in fl : ~ r.toRemove}
\* The rows that stay are the files of the directory.
KeptInFolder == \A r \in Kept : r.place \in DOMAIN folder /\ folder[r.place] = r.sum

CompleteInv ==
  /\ pc \notin {"clear", "insert"} /\ local # {} => Covers(RowsOf(LocalVersion), hist[LocalVersion])
  /\ pc = "start" => lastLocal = LocalVersion
  /\ pc = "clear" => Covers({r \in fl : r.ver = version}, hist[version])
  /\ pc = "insert" => Covers({r \in local \cup fl : r.ver = version}, hist[version])
  /\ Answered("stop", "ok") /\ wire.content > 0 =>
       Covers({r \in fl : r.ver = wire.content}, hist[wire.content])

SentInv ==
  /\ session = "update" /\ ~ changed => draft = LastOf(hist)
  /\ pc \in Sending \ {"added"} \/ Asked("stop") => Covers(fl, draft)
  /\ pc = "added" /\ wire # NoMessage =>
       \A p \in DOMAIN draft : p = wire.place \/ \E r \in fl : r.place = p
  /\ pc = "remove" \/ (pc = "removed" /\ wire # NoMessage) \/ Asked("stop") =>
       \A r \in fl : r.toRemove =>
         \/ r.place \notin DOMAIN draft
         \/ (pc \in {"remove", "removed"} /\ r.place \in todo)
         \/ (Asked("remove") /\ r.place = wire.place)

GotInv ==
  /\ Asked("restore") => fl = {}
  /\ Answered("restore", "begin") \/ Answered("receive", "file") \/ Asked("nack") =>
       \A p \in DOMAIN hist[lastServer] : p \in DOMAIN draft \/ \E r \in fl : r.place = p
  /\ Asked("ack") =>
       \A p \in DOMAIN hist[lastServer] :
         p \in DOMAIN draft \ {wire.place} \/ \E r \in fl : r.place = p
  /\ Answered("receive", "stop") => Covers(fl, hist[lastServer])

\* While the user leaves the directory alone.
AloneInv ==
  ~ edited =>
    /\ pc = "aside" => \A p \in DOMAIN folder : p[2] = 0 => p \in todo
    /\ pc \in Receiving =>
         \A p \in DOMAIN folder : p[2] = 0 => \E r \in fl : r.place = p
    /\ pc \in Receiving => \A r \in fl : r.place \in DOMAIN folder /\ folder[r.place] = r.sum
    /\ pc \in Sending \/ Asked("stop") => KeptInFolder
    /\ pc = "send" =>
         \A p \in DOMAIN folder : p \in todo \/ \E r \in Kept : r.place = p
    /\ pc = "added" /\ wire # NoMessage =>
         /\ \A p \in DOMAIN folder :
              p \in todo \/ p = wire.place \/ \E r \in Kept : r.place = p
         /\ wire.place \in DOMAIN folder /\ folder[wire.place] = wire.content
    /\ pc \in {"remove", "removed"} \/ Asked("stop") => Covers(Kept, folder)
    /\ Answered("stop", "ok") =>
         IF wire.content > 0 THEN folder = hist[wire.content]
         ELSE folder = <<>> \/ folder = LastOf(hist)
    /\ pc \in {"clear", "insert"} => Root(folder) = Root(hist[version])

ContentsInv ==
  /\ NonEmptyFiles(folder) /\ NonEmptyFiles(draft)
  /\ \A i \in DOMAIN hist : hist[i] # <<>> /\ NonEmptyFiles(hist[i])

\* No request of an update is refused, and the window says nothing meanwhile.
DialogueInv ==
  /\ pc = "added" /\ wire # NoMessage => wire.kind # "error" /\ wire.content # 0
  /\ pc \in {"removed", "stop"} /\ wire.to = "client" => wire.kind = "ok"
  /\ pc # "idle" => claimed = 0

CleanInv ==
  /\ ContentsInv
  /\ DialogueInv
  /\ InSyncUnlessEmptied
  /\ CompleteInv
  /\ SentInv
  /\ GotInv
  /\ AloneInv

------------------------------------------------------------------------------
(* Contents by place.                                                      *)

LEMMA PutType ==
  ASSUME NEW l \in Listings, NEW p \in Places, NEW c \in Contents
  PROVE  Put(l, p, c) \in Listings
<1>1. PICK S \in SUBSET Places : l \in [S -> Contents]
  BY DEF Listings
<1>2. Put(l, p, c) \in [S \cup {p} -> Contents]
  BY <1>1 DEF Put
<1> QED BY <1>2 DEF Listings

LEMMA DropType ==
  ASSUME NEW l \in Listings, NEW p
  PROVE  Drop(l, p) \in Listings
<1>1. PICK S \in SUBSET Places : l \in [S -> Contents]
  BY DEF Listings
<1>2. Drop(l, p) \in [S \ {p} -> Contents]
  BY <1>1 DEF Drop
<1> QED BY <1>2 DEF Listings

LEMMA ListingType ==
  ASSUME NEW l \in Listings
  PROVE  DOMAIN l \subseteq Places /\ \A p \in DOMAIN l : l[p] \in Contents
BY DEF Listings

LEMMA NatContents == Contents \subseteq Nat /\ 0 \in Contents
BY SyncAssumption DEF Contents

LEMMA EmptyType == <<>> \in Listings /\ DOMAIN <<>> = {}
<1>1. <<>> \in [{} -> Contents]
  OBVIOUS
<1> QED BY <1>1 DEF Listings

LEMMA NoPlaces ==
  ASSUME NEW l \in Listings, DOMAIN l = {}
  PROVE  l = <<>>
<1>1. l \in [{} -> Contents] /\ <<>> \in [{} -> Contents]
  BY DEF Listings
<1> QED BY <1>1

\* A version is appended to the others.
LEMMA Appended ==
  ASSUME hist \in Seq(Listings), NEW l \in Listings, hist' = Append(hist, l)
  PROVE  /\ hist' \in Seq(Listings) /\ Len(hist) \in Nat /\ Len(hist') = Len(hist) + 1
         /\ DOMAIN hist = 1..Len(hist) /\ DOMAIN hist' = 1..Len(hist')
         /\ \A i \in DOMAIN hist : hist'[i] = hist[i]
         /\ hist'[Len(hist')] = l
OBVIOUS

LEMMA HistType ==
  ASSUME ListInv
  PROVE  /\ hist \in Seq(Listings) /\ Len(hist) \in Nat /\ DOMAIN hist = 1..Len(hist)
         /\ \A i \in DOMAIN hist : hist[i] \in Listings
         /\ LastOf(hist) \in Listings
         /\ Len(hist) > 0 => LastOf(hist) = hist[Len(hist)] /\ Len(hist) \in DOMAIN hist
         /\ Len(hist) = 0 => LastOf(hist) = <<>> /\ hist = <<>>
<1>1. hist \in Seq(Listings) /\ Len(hist) \in Nat /\ DOMAIN hist = 1..Len(hist)
  BY DEF ListInv
<1>2. \A i \in DOMAIN hist : hist[i] \in Listings
  BY <1>1
<1>3. Len(hist) = 0 <=> hist = <<>>
  BY <1>1
<1> QED BY <1>1, <1>2, <1>3, EmptyType DEF LastOf

\* The history is what it was, or longer.
Grows == \A i \in DOMAIN hist : i \in DOMAIN hist' /\ hist'[i] = hist[i]

LEMMA TrueRowsStay ==
  ASSUME Grows
  PROVE  \A r : RowIsTrue(r) => RowIsTrue(r)'
BY DEF Grows, RowIsTrue

\* What a step of the server leaves alone.
LEMMA ServerKeeps ==
  ASSUME ListInv, UNCHANGED <<pc, folder, dirs, local, client, claimed, user>>,
         faults' \in 0..MaxFaults,
         \/ hist' = hist
         \/ \E l \in Listings : hist' = Append(hist, l),
         wire'.to \in {"nobody", "server", "client"},
         session' \in {"none", "update", "restore"}, draft' \in Listings,
         session' = "none" => draft' = <<>> /\ ~ changed'
  PROVE  /\ TypeOK' /\ hist' \in Seq(Listings) /\ (local \cup fl \subseteq Rows)'
         /\ LastInv' /\ ListIsTrue' /\ Grows
<1>1. /\ hist' \in Seq(Listings) /\ Len(hist) \in Nat /\ Len(hist') \in Nat
      /\ Len(hist') >= Len(hist) /\ Grows
  BY HistType, Appended DEF Grows
<1>2. \A i \in DOMAIN hist' : hist'[i] \in Listings
  BY <1>1
<1>3. ListIsTrue'
  BY <1>1, TrueRowsStay DEF ListInv, ListIsTrue, RowIsTrue
<1>4. TypeOK'
  BY <1>1, <1>2 DEF ListInv, TypeOK, client, user
<1>5. (local \cup fl \subseteq Rows)' /\ LastInv'
  BY DEF ListInv, LastInv, client
<1> QED BY <1>1, <1>3, <1>4, <1>5

------------------------------------------------------------------------------
(* The server's steps.                                                     *)

LEMMA GetLastVersionKeepsList ==
  ASSUME ListInv, GetLastVersion
  PROVE  ListInv'
<1>1. /\ UNCHANGED <<pc, folder, dirs, local, client, server, claimed, user, faults>>
      /\ wire.to = "server" /\ wire.kind = "version" /\ wire # NoMessage
      /\ wire' = [to |-> "client", kind |-> "version", place |-> NoPlace, content |-> Len(hist)]
  BY DEF GetLastVersion, ServerOnly, Asked, Answer, NoMessage
<1>2. pc = "version"
  BY <1>1 DEF ListInv, WireInv, AsksAt
<1>3. /\ TypeOK' /\ hist' \in Seq(Listings) /\ (local \cup fl \subseteq Rows)'
      /\ LastInv' /\ ListIsTrue' /\ Grows
  BY <1>1, ServerKeeps DEF ListInv, TypeOK, server
<1>4. WireInv'
  BY <1>1, <1>2, HistType DEF WireInv, Messages, WithPlace, WithContent, AnswersAt
<1>5. NumbersInv'
  BY <1>1, <1>2 DEF NumbersInv, server, client, Answered, Asked, Sending, Receiving
<1>6. RestoreInv' /\ UpdateInv'
  BY <1>1, <1>2 DEF RestoreInv, UpdateInv, Answered, Asked, Sending, Receiving
<1>7. CommittedInv'
  BY <1>1, <1>2 DEF CommittedInv, Answered
<1> QED BY <1>3, <1>4, <1>5, <1>6, <1>7 DEF ListInv

LEMMA UpdateStartKeepsList ==
  ASSUME ListInv, UpdateStart
  PROVE  ListInv'
<1>1. /\ UNCHANGED <<pc, folder, dirs, local, client, hist, claimed, user, faults>>
      /\ wire.to = "server" /\ wire.kind = "start" /\ wire # NoMessage
      /\ \/ /\ session' = "update" /\ draft' = LastOf(hist)
            /\ wire' = [to |-> "client", kind |-> "ok", place |-> NoPlace, content |-> 0]
         \/ /\ UNCHANGED <<session, draft, changed>>
            /\ wire' = [to |-> "client", kind |-> "error", place |-> NoPlace, content |-> 0]
  BY DEF UpdateStart, ServerOnly, Asked, Answer, NoMessage, OpenSession
<1>2. pc = "start"
  BY <1>1 DEF ListInv, WireInv, AsksAt
<1>3. /\ TypeOK' /\ hist' \in Seq(Listings) /\ (local \cup fl \subseteq Rows)'
      /\ LastInv' /\ ListIsTrue' /\ Grows
  BY <1>1, ServerKeeps, HistType DEF ListInv, TypeOK
<1>4. WireInv'
  BY <1>1, <1>2 DEF WireInv, Messages, WithPlace, WithContent, AnswersAt
<1>5. NumbersInv'
  BY <1>1, <1>2 DEF ListInv, NumbersInv, client, Answered, Asked, Sending, Receiving
<1>6. RestoreInv' /\ UpdateInv'
  BY <1>1, <1>2 DEF RestoreInv, UpdateInv, Answered, Asked, Sending, Receiving
<1>7. CommittedInv'
  BY <1>1, <1>2 DEF CommittedInv, Answered
<1> QED BY <1>3, <1>4, <1>5, <1>6, <1>7 DEF ListInv

LEMMA AddNewFileKeepsList ==
  ASSUME ListInv, AddNewFile
  PROVE  ListInv'
<1>1. /\ UNCHANGED <<pc, folder, dirs, local, client, hist, session, claimed, user, faults>>
      /\ wire.to = "server" /\ wire.kind = "add" /\ wire # NoMessage
      /\ draft' = Put(draft, wire.place, wire.content)
      /\ wire' = [to |-> "client", kind |-> "ok", place |-> wire.place, content |-> wire.content]
  BY DEF AddNewFile, ServerOnly, Asked, Answer, NoMessage
<1>2. /\ pc = "added" /\ session = "update" /\ wire.place \in Places /\ wire.content \in Contents
      /\ wire.place \notin todo /\ \A r \in fl : r.place \in todo => r.toRemove
      /\ \A r \in fl : RowFits(r) /\ r.place # wire.place
      /\ \A r \in fl : r.toRemove => r.place \in DOMAIN draft /\ draft[r.place] = r.sum
      /\ \A r, s \in fl : r.place = s.place => r = s
  BY <1>1 DEF ListInv, WireInv, AsksAt, UpdateInv, Sending, WithPlace, WithContent
<1> draft \in Listings
  BY DEF ListInv, TypeOK
<1>3. /\ draft' \in Listings /\ DOMAIN draft' = DOMAIN draft \cup {wire.place}
      /\ draft'[wire.place] = wire.content
      /\ \A q \in DOMAIN draft \ {wire.place} : draft'[q] = draft[q]
  <2>1. draft' \in Listings
    BY <1>1, <1>2, PutType
  <2> QED BY <1>1, <2>1 DEF Put
<1>4. /\ TypeOK' /\ hist' \in Seq(Listings) /\ (local \cup fl \subseteq Rows)'
      /\ LastInv' /\ ListIsTrue' /\ Grows
  BY <1>1, <1>2, <1>3, ServerKeeps DEF ListInv, TypeOK
<1>5. WireInv'
  BY <1>1, <1>2, NatContents DEF WireInv, Messages, WithPlace, WithContent, AnswersAt
<1>6. NumbersInv'
  BY <1>1, <1>2 DEF ListInv, NumbersInv, client, Answered, Asked, Sending, Receiving
<1>7. RestoreInv'
  BY <1>1, <1>2 DEF RestoreInv, Receiving
<1>8. \A r \in fl' : RowFits(r)'
  BY <1>1, <1>2, <1>3 DEF RowFits, RowIsTrue, client
<1>9. UpdateInv'
  BY <1>1, <1>2, <1>3, <1>8 DEF UpdateInv, Answered, Asked, Sending, client
<1>10. CommittedInv'
  BY <1>1, <1>2 DEF CommittedInv, Answered
<1> QED BY <1>4, <1>5, <1>6, <1>7, <1>9, <1>10 DEF ListInv

LEMMA RemoveFileKeepsList ==
  ASSUME ListInv, RemoveFile
  PROVE  ListInv'
<1>1. /\ UNCHANGED <<pc, folder, dirs, local, client, hist, session, claimed, user, faults>>
      /\ wire.to = "server" /\ wire.kind = "remove" /\ wire # NoMessage
      /\ draft' = Drop(draft, wire.place)
      /\ wire' = [to |-> "client", kind |-> "ok", place |-> wire.place, content |-> 0]
  BY DEF RemoveFile, ServerOnly, Asked, Answer, NoMessage
<1>2. /\ pc = "removed" /\ session = "update" /\ wire.place \in Places
      /\ \A r \in fl : RowFits(r) /\ (r.place = wire.place => r.toRemove)
      /\ \A r \in fl : r.place \in todo => r.toRemove
      /\ \A r, s \in fl : r.place = s.place => r = s
  BY <1>1 DEF ListInv, WireInv, AsksAt, UpdateInv, Sending, WithPlace, Asked
<1>3. draft \in Listings /\ draft' \in Listings
  BY <1>1, DropType DEF ListInv, TypeOK
<1>4. \A q \in DOMAIN draft \ {wire.place} : q \in DOMAIN draft' /\ draft'[q] = draft[q]
  BY <1>1 DEF Drop
<1>5. /\ TypeOK' /\ hist' \in Seq(Listings) /\ (local \cup fl \subseteq Rows)'
      /\ LastInv' /\ ListIsTrue' /\ Grows
  BY <1>1, <1>2, <1>3, ServerKeeps DEF ListInv, TypeOK
<1>6. WireInv'
  BY <1>1, <1>2 DEF WireInv, Messages, WithPlace, WithContent, AnswersAt
<1>7. NumbersInv'
  BY <1>1, <1>2 DEF ListInv, NumbersInv, client, Answered, Asked, Sending, Receiving
<1>8. RestoreInv'
  BY <1>1, <1>2 DEF RestoreInv, Receiving
<1>9. \A r \in fl' : RowFits(r)'
  BY <1>1, <1>2, <1>4 DEF RowFits, RowIsTrue, client
<1>10. UpdateInv'
  BY <1>1, <1>2, <1>9 DEF UpdateInv, Answered, Asked, Sending, client
<1>11. CommittedInv'
  BY <1>1, <1>2 DEF CommittedInv, Answered
<1> QED BY <1>5, <1>6, <1>7, <1>8, <1>10, <1>11 DEF ListInv

\* The rows of an update become those of the version it commits.
LEMMA UpdateStopKeepsList ==
  ASSUME ListInv, UpdateStop
  PROVE  ListInv'
<1>1. /\ UNCHANGED <<pc, folder, dirs, local, client, claimed, user, faults>>
      /\ wire.to = "server" /\ wire.kind = "stop" /\ wire # NoMessage
      /\ session' = "none" /\ draft' = <<>> /\ changed' = FALSE
      /\ \/ /\ hist' = Append(hist, draft)
            /\ wire' = [to |-> "client", kind |-> "ok", place |-> NoPlace,
                        content |-> Len(hist) + 1]
         \/ /\ hist' = hist
            /\ wire' = [to |-> "client", kind |-> "ok", place |-> NoPlace, content |-> 0]
  BY DEF UpdateStop, ServerOnly, Asked, Answer, NoMessage, CloseSession
<1>2. /\ pc = "stop" /\ \A r \in fl : RowFits(r)
      /\ lastServer = Len(hist) /\ lastLocal = lastServer
  BY <1>1 DEF ListInv, WireInv, AsksAt, UpdateInv, NumbersInv, Asked, Receiving
<1>3. draft \in Listings
  BY DEF ListInv, TypeOK
<1>4. /\ TypeOK' /\ hist' \in Seq(Listings) /\ (local \cup fl \subseteq Rows)'
      /\ LastInv' /\ ListIsTrue' /\ Grows
  BY <1>1, <1>3, EmptyType, ServerKeeps DEF ListInv, TypeOK
<1>5. WireInv'
  BY <1>1, <1>2, HistType DEF WireInv, Messages, WithPlace, WithContent, AnswersAt
<1>6. ASSUME hist' = Append(hist, draft), wire'.content = Len(hist) + 1
      PROVE  NumbersInv' /\ CommittedInv'
  <2>1. /\ Len(hist) \in Nat /\ Len(hist') = Len(hist) + 1
        /\ Len(hist') \in DOMAIN hist' /\ hist'[Len(hist')] = draft
    BY <1>3, <1>6, HistType, Appended
  <2>2. \A r \in fl : RowIsTrue(r)'
    <3> SUFFICES ASSUME NEW r \in fl PROVE RowIsTrue(r)'
      OBVIOUS
    <3>1. CASE r.toRemove
      BY <1>2, <1>4, <3>1, TrueRowsStay DEF RowFits
    <3>2. CASE ~ r.toRemove
      BY <1>2, <2>1, <3>2 DEF RowFits, RowIsTrue
    <3> QED BY <3>1, <3>2
  <2>3. NumbersInv'
    BY <1>1, <1>2, <1>6, <2>1 DEF NumbersInv, client, Answered, Asked, Sending, Receiving
  <2>4. CommittedInv'
    BY <1>1, <2>2 DEF CommittedInv, client
  <2> QED BY <2>3, <2>4
<1>7. ASSUME hist' = hist, wire'.content = 0
      PROVE  NumbersInv' /\ CommittedInv'
  BY <1>1, <1>2, <1>7 DEF NumbersInv, CommittedInv, client, Answered, Asked, Sending, Receiving
<1>8. RestoreInv' /\ UpdateInv'
  BY <1>1, <1>2 DEF RestoreInv, UpdateInv, Answered, Asked, Sending, Receiving
<1> QED BY <1>1, <1>4, <1>5, <1>6, <1>7, <1>8 DEF ListInv

LEMMA RestoreVersionKeepsList ==
  ASSUME ListInv, RestoreVersion
  PROVE  ListInv'
<1>1. /\ UNCHANGED <<pc, folder, dirs, local, client, hist, claimed, user, faults>>
      /\ wire.to = "server" /\ wire.kind = "restore" /\ wire # NoMessage
      /\ \/ /\ session' = "restore" /\ draft' = hist[wire.content]
            /\ \E p \in DOMAIN draft' :
                 wire' = [to |-> "client", kind |-> "begin", place |-> p, content |-> draft'[p]]
         \/ /\ UNCHANGED <<session, draft, changed>>
            /\ wire' = [to |-> "client", kind |-> "error", place |-> NoPlace, content |-> 0]
  BY DEF RestoreVersion, ServerOnly, Asked, Answer, NoMessage, OpenSession, Offer
<1>2. /\ pc = "restore" /\ wire.content = lastServer /\ lastServer = Len(hist) /\ Restoring
      /\ \A r \in fl : RowIsTrue(r) /\ r.ver = lastServer
  BY <1>1 DEF ListInv, WireInv, AsksAt, NumbersInv, RestoreInv, Receiving
<1>3. lastServer \in DOMAIN hist /\ hist[lastServer] \in Listings
  BY <1>2, HistType DEF ListInv, TypeOK, Restoring
<1>4. draft' \in Listings
  BY <1>1, <1>2, <1>3 DEF ListInv, TypeOK
<1>5. /\ TypeOK' /\ hist' \in Seq(Listings) /\ (local \cup fl \subseteq Rows)'
      /\ LastInv' /\ ListIsTrue' /\ Grows
  BY <1>1, <1>4, ServerKeeps DEF ListInv, TypeOK
<1>6. WireInv'
  <2>1. \A p \in DOMAIN draft' : p \in Places /\ draft'[p] \in Contents /\ draft'[p] \in Nat
    BY <1>4, ListingType, NatContents
  <2> QED BY <1>1, <1>2, <2>1 DEF WireInv, Messages, WithPlace, WithContent, AnswersAt
<1>7. NumbersInv'
  BY <1>1, <1>2 DEF NumbersInv, client, Answered, Asked, Sending, Restoring, Receiving
<1>8. RestoreInv'
  BY <1>1, <1>2 DEF RestoreInv, client, RowIsTrue, Receiving
<1>9. UpdateInv' /\ CommittedInv'
  BY <1>1, <1>2 DEF UpdateInv, CommittedInv, Answered, Asked, Sending
<1> QED BY <1>5, <1>6, <1>7, <1>8, <1>9 DEF ListInv

\* The next file is one of those that are left.
LEMMA RestoreFileAckKeepsList ==
  ASSUME ListInv, RestoreFileAck
  PROVE  ListInv'
<1>1. /\ UNCHANGED <<pc, folder, dirs, local, client, hist, claimed, user, faults>>
      /\ wire.to = "server" /\ wire.kind \in {"ack", "nack"} /\ wire # NoMessage
      /\ \/ /\ UNCHANGED <<session, draft, changed>>
            /\ wire' = [to |-> "client", kind |-> "file", place |-> wire.place,
                        content |-> draft[wire.place]]
         \/ /\ session' = "none" /\ draft' = <<>> /\ changed' = FALSE
            /\ wire' = [to |-> "client", kind |-> "stop", place |-> NoPlace, content |-> 0]
         \/ /\ session' = session /\ draft' = Drop(draft, wire.place) /\ changed' = changed
            /\ \E p \in DOMAIN draft' :
                 wire' = [to |-> "client", kind |-> "file", place |-> p, content |-> draft'[p]]
  BY DEF RestoreFileAck, ServerOnly, Asked, Answer, NoMessage, CloseSession, Offer
<1>2. /\ pc = "receive" /\ session = "restore" /\ wire.place \in DOMAIN draft
      /\ \A r \in fl : RowIsTrue(r) /\ r.ver = lastServer
      /\ \A p \in DOMAIN draft : p \in DOMAIN hist[lastServer] /\ draft[p] = hist[lastServer][p]
  BY <1>1 DEF ListInv, WireInv, AsksAt, RestoreInv, Receiving
<1>3. draft \in Listings /\ draft' \in Listings
  BY <1>1, DropType, EmptyType DEF ListInv, TypeOK
<1>4. /\ TypeOK' /\ hist' \in Seq(Listings) /\ (local \cup fl \subseteq Rows)'
      /\ LastInv' /\ ListIsTrue' /\ Grows
  BY <1>1, <1>2, <1>3, ServerKeeps DEF ListInv, TypeOK
<1>5. WireInv'
  <2>1. /\ \A p \in DOMAIN draft : p \in Places /\ draft[p] \in Contents /\ draft[p] \in Nat
        /\ \A p \in DOMAIN draft' : p \in Places /\ draft'[p] \in Contents /\ draft'[p] \in Nat
    BY <1>3, ListingType, NatContents
  <2> QED BY <1>1, <1>2, <2>1 DEF WireInv, Messages, WithPlace, WithContent, AnswersAt
<1>6. NumbersInv'
  BY <1>1, <1>2 DEF ListInv, NumbersInv, client, Answered, Asked, Sending, Restoring, Receiving
<1>7. \A p \in DOMAIN draft' : p \in DOMAIN draft /\ draft'[p] = draft[p]
  BY <1>1, EmptyType DEF Drop
<1>8. RestoreInv'
  BY <1>1, <1>2, <1>7 DEF RestoreInv, client, RowIsTrue, Receiving
<1>9. UpdateInv' /\ CommittedInv'
  BY <1>1, <1>2 DEF UpdateInv, CommittedInv, Answered, Asked, Sending
<1> QED BY <1>4, <1>5, <1>6, <1>8, <1>9 DEF ListInv

\* The cleaner takes no session the client works in.
LEMMA SessionExpiresKeepsList ==
  ASSUME ListInv, SessionExpires
  PROVE  ListInv'
<1>1. /\ UNCHANGED <<pc, wire, folder, dirs, local, client, hist, claimed, user, faults>>
      /\ pc \in {"idle", "version", "aside", "dead"}
      /\ session' = "none" /\ draft' = <<>> /\ changed' = FALSE
  BY DEF SessionExpires, ServerOnly, CloseSession
<1>2. wire.to = "server" => wire.kind = "version"
  BY <1>1 DEF ListInv, WireInv, AsksAt, NoMessage
<1>3. /\ TypeOK' /\ hist' \in Seq(Listings) /\ (local \cup fl \subseteq Rows)'
      /\ LastInv' /\ ListIsTrue' /\ Grows
  BY <1>1, EmptyType, ServerKeeps DEF ListInv, TypeOK
<1>4. WireInv' /\ NumbersInv'
  BY <1>1 DEF ListInv, WireInv, NumbersInv, client, Answered, Asked, Restoring, Receiving
<1>5. RestoreInv'
  BY <1>1, <1>2 DEF ListInv, RestoreInv, client, Receiving
<1>6. UpdateInv' /\ CommittedInv'
  BY <1>1, <1>2 DEF UpdateInv, CommittedInv, client, Answered, Asked, Sending, NoMessage
<1> QED BY <1>3, <1>4, <1>5, <1>6 DEF ListInv

------------------------------------------------------------------------------
(* The client's steps.                                                     *)

\* What a step of the client leaves alone.
LEMMA ClientKeeps ==
  ASSUME ListInv, UNCHANGED <<server, written, edits, others>>, faults' \in 0..MaxFaults,
         pc' \in Working \cup {"idle", "silent", "dead"},
         wire'.to \in {"nobody", "server", "client"},
         folder' \in Listings, dirs' \subseteq Directories, todo' \subseteq Places,
         (local \cup fl \subseteq Rows)', \A r \in local' : RowIsTrue(r),
         {lastServer', lastLocal', version', claimed'} \subseteq 0..Len(hist)
  PROVE  TypeOK' /\ hist' \in Seq(Listings) /\ ListIsTrue'
<1>1. ListIsTrue'
  BY DEF ListIsTrue, RowIsTrue, server
<1>2. \A r \in local' : r.ver \in 1..Len(hist) + 1
  BY HistType DEF RowIsTrue
<1>3. \A r \in (local \cup fl)' : r.place \in Places /\ r.sum \in Contents
  BY DEF Rows
<1>4. /\ hist' = hist /\ session' = session /\ draft' = draft /\ changed' = changed
      /\ written' = written /\ edits' = edits /\ others' = others
  BY DEF server
<1>5. TypeOK
  BY DEF ListInv
<1>6. TypeOK'
  BY <1>2, <1>3, <1>4, <1>5 DEF TypeOK
<1>7. hist' \in Seq(Listings)
  BY <1>4 DEF ListInv
<1> QED BY <1>1, <1>6, <1>7

\* Only the client's own steps of an update or restore have a message or a row
\* in hand: at the other places of the program there is nothing to keep.
LEMMA AtRest ==
  ASSUME ListInv, UNCHANGED <<server, local, written, edits, others>>,
         faults' \in 0..MaxFaults, fl' \subseteq fl,
         pc' \in {"idle", "silent", "dead", "putback"}, wire' = NoMessage,
         folder' \in Listings, dirs' \subseteq Directories, todo' \subseteq Places,
         pc' = "putback" => \A p \in todo' : p[2] > 0,
         {lastServer', lastLocal', version', claimed'} \subseteq 0..Len(hist)
  PROVE  ListInv'
<1>1. wire'.to = "nobody" /\ pc' \in Working \cup {"idle", "silent", "dead"}
  BY DEF NoMessage, Working
<1>2. (local \cup fl \subseteq Rows)' /\ \A r \in local' : RowIsTrue(r)
  BY DEF ListInv, ListIsTrue, RowIsTrue
<1>3. TypeOK' /\ hist' \in Seq(Listings) /\ ListIsTrue'
  BY <1>1, <1>2, ClientKeeps
<1>4. WireInv' /\ NumbersInv' /\ RestoreInv' /\ UpdateInv' /\ CommittedInv'
  BY <1>1 DEF WireInv, NumbersInv, RestoreInv, UpdateInv, CommittedInv, Answered, Asked, Sending,
              Receiving
<1>5. LastInv'
  BY DEF ListInv, LastInv
<1> QED BY <1>2, <1>3, <1>4, <1>5 DEF ListInv

\* Nothing is on its way where the client waits for no answer.
LEMMA Quiet ==
  ASSUME ListInv, pc \notin {"version", "restore", "receive", "start", "added", "removed", "stop"}
  PROVE  wire = NoMessage
BY DEF ListInv, WireInv, Messages, AsksAt, AnswersAt

LEMMA Types ==
  ASSUME ListInv
  PROVE  /\ folder \in Listings /\ dirs \subseteq Directories /\ todo \subseteq Places
         /\ faults \in 0..MaxFaults
         /\ pc \in Working \cup {"idle", "silent", "dead"}
         /\ wire.to \in {"nobody", "server", "client"}
         /\ lastServer \in 0..Len(hist) /\ lastLocal \in 0..Len(hist)
         /\ version \in 0..Len(hist) /\ claimed \in 0..Len(hist) /\ Len(hist) \in Nat
         /\ local \subseteq Rows /\ fl \subseteq Rows
         /\ \A r \in local : RowIsTrue(r)
         /\ LastInv
BY HistType DEF ListInv, TypeOK, ListIsTrue, RowIsTrue

\* The files of a directory that are moved, removed or replaced.
LEMMA MoveType ==
  ASSUME NEW l \in Listings, NEW p \in Places, NEW depth \in 0..MaxDepth, NEW l2,
         l2 = IF p \in DOMAIN l THEN Put(Drop(l, p), <<p[1], depth>>, l[p]) ELSE l
  PROVE  l2 \in Listings
<1>1. Drop(l, p) \in Listings
  BY DropType
<1>2. <<p[1], depth>> \in Places
  BY DEF Places
<1>3. p \in DOMAIN l => l[p] \in Contents
  BY ListingType
<1> QED BY <1>1, <1>2, <1>3, PutType

LEMMA MakeDirType ==
  ASSUME dirs \subseteq Directories, NEW depth, MakeDir(depth)
  PROVE  dirs' \subseteq Directories
BY DEF MakeDir, Directories

LEMMA Moved ==
  ASSUME dirs \subseteq Directories, NEW p, NEW depth, Move(p, depth)
  PROVE  /\ folder' = IF p \in DOMAIN folder
                       THEN Put(Drop(folder, p), <<p[1], depth>>, folder[p]) ELSE folder
         /\ dirs' \subseteq Directories
         /\ todo' = todo \ {p}
BY MakeDirType DEF Move

LEMMA RootType ==
  ASSUME NEW l \in Listings
  PROVE  Root(l) \in Listings
<1>1. PICK S \in SUBSET Places : l \in [S -> Contents]
  BY DEF Listings
<1>2. Root(l) \in [{p \in S : p[2] = 0} -> Contents]
  BY <1>1 DEF Root
<1> QED BY <1>2 DEF Listings

LEMMA UpdateCurrentVersionKeepsList ==
  ASSUME ListInv, UpdateCurrentVersion
  PROVE  ListInv'
<1>1. /\ pc = "idle" /\ pc' = "version" /\ claimed' = 0
      /\ wire' = [to |-> "server", kind |-> "version", place |-> NoPlace, content |-> 0]
      /\ UNCHANGED <<server, written, edits, others, faults, folder, dirs, local>>
      /\ UNCHANGED <<lastServer, lastLocal, version, fl, todo>>
  BY DEF UpdateCurrentVersion, Ask, client
<1>2. (local \cup fl \subseteq Rows)' /\ \A r \in local' : RowIsTrue(r)
  BY <1>1, Types
<1>3. TypeOK' /\ hist' \in Seq(Listings) /\ ListIsTrue'
  BY <1>1, <1>2, ClientKeeps, Types DEF Working
<1>4. WireInv'
  BY <1>1 DEF WireInv, Messages, WithPlace, WithContent, AsksAt
<1>5. NumbersInv' /\ RestoreInv' /\ UpdateInv' /\ CommittedInv'
  BY <1>1 DEF NumbersInv, RestoreInv, UpdateInv, CommittedInv, Answered, Asked, Sending, Receiving
<1>6. LastInv'
  BY <1>1 DEF ListInv, LastInv
<1> QED BY <1>2, <1>3, <1>4, <1>5, <1>6 DEF ListInv

\* The last version of the list is one of the server's.
LEMMA LocalVersionType ==
  ASSUME ListInv
  PROVE  LocalVersion \in 0..Len(hist)
<1>1. CASE local = {}
  BY <1>1, HistType DEF LocalVersion
<1>2. CASE local # {}
  <2>1. \E r \in local : \A s \in local : s.ver <= r.ver
    BY <1>2, Types DEF LastInv
  <2>2. PICK r \in local : LocalVersion = r.ver
    BY <1>2, <2>1 DEF LocalVersion
  <2>3. r.ver \in 1..Len(hist)
    BY Types, HistType DEF RowIsTrue
  <2> QED BY <2>2, <2>3, HistType
<1> QED BY <1>1, <1>2

LEMMA ReadLastVersionKeepsList ==
  ASSUME ListInv, ReadLastVersion
  PROVE  ListInv'
<1>1. /\ UNCHANGED <<server, local, written, edits, others, faults, folder, dirs, version, claimed>>
      /\ pc = "version" /\ wire.to = "client" /\ wire.kind = "version"
      /\ lastServer' = wire.content /\ fl' = {} /\ todo' = DOMAIN folder
      /\ lastLocal' = IF wire.content = 0 THEN 0 ELSE LocalVersion
      /\ \/ /\ lastServer' > lastLocal' /\ pc' = "aside" /\ wire' = NoMessage
         \/ /\ pc' = "idle" /\ wire' = NoMessage
         \/ /\ lastServer' <= lastLocal' /\ pc' = "start"
            /\ wire' = [to |-> "server", kind |-> "start", place |-> NoPlace, content |-> 0]
  BY DEF ReadLastVersion, Answered, GoOn, Ask, ClientOnly, user
<1>2. lastServer' = Len(hist) /\ lastLocal' \in 0..Len(hist) /\ Len(hist) \in Nat
  BY <1>1, LocalVersionType, HistType DEF ListInv, NumbersInv, Answered, Receiving
<1>3. todo' \subseteq Places
  BY <1>1, Types, ListingType
<1>4. (local \cup fl \subseteq Rows)' /\ \A r \in local' : RowIsTrue(r)
  BY <1>1, Types
<1>5. TypeOK' /\ hist' \in Seq(Listings) /\ ListIsTrue'
  BY <1>1, <1>2, <1>3, <1>4, ClientKeeps, Types DEF Working, NoMessage
<1>6. WireInv'
  BY <1>1 DEF WireInv, Messages, WithPlace, WithContent, AsksAt, NoMessage
<1>7. NumbersInv'
  BY <1>1, <1>2 DEF NumbersInv, Answered, Asked, Sending, Restoring, NoMessage, server, Receiving
<1>8. RestoreInv' /\ UpdateInv' /\ CommittedInv'
  BY <1>1 DEF RestoreInv, UpdateInv, CommittedInv, Answered, Asked, Sending, NoMessage, Receiving
<1>9. LastInv'
  BY <1>1 DEF ListInv, LastInv
<1> QED BY <1>4, <1>5, <1>6, <1>7, <1>8, <1>9 DEF ListInv

LEMMA SetAsideKeepsList ==
  ASSUME ListInv, SetAside
  PROVE  ListInv'
<1>1. /\ UNCHANGED <<server, local, written, edits, others, faults, claimed>>
      /\ UNCHANGED <<lastServer, lastLocal, version, fl>>
      /\ pc = "aside"
      /\ \/ /\ pc' = "aside" /\ wire' = wire
            /\ \E p \in todo : p[2] < MaxDepth /\ Move(p, p[2] + 1)
         \/ /\ pc' = "restore" /\ UNCHANGED <<folder, dirs, todo>>
            /\ wire' = [to |-> "server", kind |-> "restore", place |-> NoPlace,
                        content |-> lastServer]
  BY DEF SetAside, Ask, ClientOnly, user
<1>2. lastServer = Len(hist) /\ Restoring /\ fl = {} /\ wire = NoMessage /\ Len(hist) \in Nat
  BY <1>1, Quiet, HistType DEF ListInv, NumbersInv, RestoreInv, Receiving
<1>3. folder' \in Listings /\ dirs' \subseteq Directories /\ todo' \subseteq Places
  <2>1. CASE UNCHANGED <<folder, dirs, todo>>
    BY <2>1, Types
  <2>2. ASSUME NEW p \in todo, p[2] < MaxDepth, Move(p, p[2] + 1)
        PROVE  folder' \in Listings /\ dirs' \subseteq Directories /\ todo' \subseteq Places
    <3>1. p \in Places /\ p[2] + 1 \in 0..MaxDepth
      BY <2>2, Types DEF Places, MaxDepth
    <3> QED BY <2>2, <3>1, MoveType, Moved, Types
  <2> QED BY <1>1, <2>1, <2>2
<1>4. (local \cup fl \subseteq Rows)' /\ \A r \in local' : RowIsTrue(r)
  BY <1>1, Types
<1>5. TypeOK' /\ hist' \in Seq(Listings) /\ ListIsTrue'
  BY <1>1, <1>2, <1>3, <1>4, ClientKeeps, Types DEF Working, NoMessage
<1>6. WireInv'
  BY <1>1, <1>2 DEF WireInv, Messages, WithPlace, WithContent, AsksAt, NoMessage
<1>7. NumbersInv'
  BY <1>1, <1>2 DEF NumbersInv, Answered, Asked, Sending, Restoring, NoMessage, server, Receiving
<1>8. RestoreInv' /\ UpdateInv' /\ CommittedInv'
  BY <1>1, <1>2 DEF RestoreInv, UpdateInv, CommittedInv, Answered, Asked, Sending, NoMessage,
                    Receiving
<1>9. LastInv'
  BY <1>1 DEF ListInv, LastInv
<1> QED BY <1>4, <1>5, <1>6, <1>7, <1>8, <1>9 DEF ListInv

\* The file behind the reply is the next message.
LEMMA RestoreBeginsKeepsList ==
  ASSUME ListInv, RestoreBegins
  PROVE  ListInv'
<1>1. /\ UNCHANGED <<server, local, written, edits, others, faults, claimed, folder, dirs>>
      /\ UNCHANGED <<lastServer, lastLocal, version, fl, todo>>
      /\ pc = "restore" /\ wire.to = "client" /\ wire.kind = "begin" /\ wire # NoMessage
      /\ pc' = "receive"
      /\ wire' = [to |-> "client", kind |-> "file", place |-> wire.place,
                  content |-> wire.content]
  BY DEF RestoreBegins, Answered, Answer, ClientOnly, user, client, NoMessage
<1>2. /\ wire.place \in Places /\ wire.content \in Contents /\ wire.content \in Nat
      /\ lastServer = Len(hist) /\ Restoring
      /\ session = "restore" /\ wire.place \in DOMAIN draft
      /\ \A p \in DOMAIN draft : p \in DOMAIN hist[lastServer] /\ draft[p] = hist[lastServer][p]
      /\ wire.content = draft[wire.place]
      /\ \A r \in fl : RowIsTrue(r) /\ r.ver = lastServer
  BY <1>1, NatContents DEF ListInv, WireInv, WithPlace, WithContent, NumbersInv, RestoreInv,
                           Receiving
<1>3. (local \cup fl \subseteq Rows)' /\ \A r \in local' : RowIsTrue(r)
  BY <1>1, Types
<1>4. TypeOK' /\ hist' \in Seq(Listings) /\ ListIsTrue'
  BY <1>1, <1>3, ClientKeeps, Types DEF Working
<1>5. WireInv'
  BY <1>1, <1>2 DEF WireInv, Messages, WithPlace, WithContent, AnswersAt
<1>6. NumbersInv'
  BY <1>1, <1>2 DEF NumbersInv, Answered, Asked, Sending, Receiving, Restoring, server
<1>7. RestoreInv'
  BY <1>1, <1>2 DEF RestoreInv, RowIsTrue, server, Receiving
<1>8. UpdateInv' /\ CommittedInv'
  BY <1>1, <1>2 DEF UpdateInv, CommittedInv, Answered, Asked, Sending
<1>9. LastInv'
  BY <1>1 DEF ListInv, LastInv
<1> QED BY <1>3, <1>4, <1>5, <1>6, <1>7, <1>8, <1>9 DEF ListInv

\* A restored file gets the row of the version asked for.
LEMMA StoreFileKeepsList ==
  ASSUME ListInv, StoreFile
  PROVE  ListInv'
<1>1. /\ UNCHANGED <<server, local, written, edits, others, faults, claimed>>
      /\ UNCHANGED <<pc, lastServer, lastLocal, version, todo>>
      /\ pc = "receive" /\ wire.to = "client" /\ wire.kind = "file" /\ wire # NoMessage
      /\ folder' = Put(folder, wire.place, wire.content) /\ MakeDir(wire.place[2])
      /\ fl' = fl \cup {Row(wire.place, wire.content, lastServer, FALSE)}
      /\ wire' = [to |-> "server", kind |-> "ack", place |-> wire.place, content |-> 0]
  BY DEF StoreFile, Answered, Ask, ClientOnly, user, NoMessage
<1>2. /\ wire.place \in Places /\ wire.content \in Contents
      /\ lastServer = Len(hist) /\ Restoring /\ Len(hist) \in Nat
      /\ session = "restore" /\ wire.place \in DOMAIN draft
      /\ \A p \in DOMAIN draft : p \in DOMAIN hist[lastServer] /\ draft[p] = hist[lastServer][p]
      /\ wire.content = draft[wire.place]
      /\ \A r \in fl : RowIsTrue(r) /\ r.ver = lastServer
  BY <1>1, HistType DEF ListInv, WireInv, WithPlace, WithContent, NumbersInv, RestoreInv, Receiving
<1>3. folder' \in Listings /\ dirs' \subseteq Directories
  BY <1>1, <1>2, PutType, MakeDirType, Types
<1>4. lastServer \in DOMAIN hist
  BY <1>2, Types, HistType DEF Restoring
<1>5. \A r \in fl' : r \in Rows /\ RowIsTrue(r) /\ r.ver = lastServer
  <2> DEFINE row == Row(wire.place, wire.content, lastServer, FALSE)
  <2>1. row \in Rows /\ row.ver = lastServer
    BY <1>2, Types DEF Row, Rows
  <2>2. RowIsTrue(row)
    BY <1>2, <1>4 DEF Row, RowIsTrue
  <2>3. \A r \in fl : r \in Rows /\ RowIsTrue(r) /\ r.ver = lastServer
    BY <1>2, Types
  <2> QED BY <1>1, <2>1, <2>2, <2>3
<1>6. (local \cup fl \subseteq Rows)' /\ \A r \in local' : RowIsTrue(r)
  BY <1>1, <1>5, Types
<1>7. TypeOK' /\ hist' \in Seq(Listings) /\ ListIsTrue'
  BY <1>1, <1>3, <1>6, ClientKeeps, Types
<1>8. WireInv'
  BY <1>1, <1>2 DEF WireInv, Messages, WithPlace, WithContent, AsksAt, NoMessage
<1>9. NumbersInv'
  BY <1>1, <1>2 DEF NumbersInv, Answered, Asked, Sending, Restoring, server, Receiving
<1>10. RestoreInv'
  BY <1>1, <1>2, <1>5 DEF RestoreInv, RowIsTrue, server, Receiving
<1>11. UpdateInv' /\ CommittedInv'
  BY <1>1, <1>2 DEF UpdateInv, CommittedInv, Answered, Asked, Sending
<1>12. LastInv'
  BY <1>1 DEF ListInv, LastInv
<1> QED BY <1>6, <1>7, <1>8, <1>9, <1>10, <1>11, <1>12 DEF ListInv

LEMMA RejectFileKeepsList ==
  ASSUME ListInv, RejectFile
  PROVE  ListInv'
<1>1. /\ UNCHANGED <<server, local, written, edits, others, claimed, folder, dirs>>
      /\ UNCHANGED <<pc, lastServer, lastLocal, version, fl, todo>>
      /\ faults' \in 0..MaxFaults
      /\ pc = "receive" /\ wire.to = "client" /\ wire.kind = "file" /\ wire # NoMessage
      /\ \/ wire' = NoMessage
         \/ wire' = [to |-> "server", kind |-> "nack", place |-> wire.place, content |-> 0]
  <2>1. faults < MaxFaults /\ faults' = faults + 1 => faults' \in 0..MaxFaults
    BY SyncAssumption, Types
  <2> QED BY <2>1 DEF RejectFile, MayFail, Answered, Ask, user, client, NoMessage
<1>2. /\ wire.place \in Places
      /\ lastServer = Len(hist) /\ Restoring
      /\ session = "restore" /\ wire.place \in DOMAIN draft
      /\ \A p \in DOMAIN draft : p \in DOMAIN hist[lastServer] /\ draft[p] = hist[lastServer][p]
      /\ \A r \in fl : RowIsTrue(r) /\ r.ver = lastServer
  BY <1>1 DEF ListInv, WireInv, WithPlace, NumbersInv, RestoreInv, Receiving
<1>3. (local \cup fl \subseteq Rows)' /\ \A r \in local' : RowIsTrue(r)
  BY <1>1, Types
<1>4. TypeOK' /\ hist' \in Seq(Listings) /\ ListIsTrue'
  BY <1>1, <1>3, ClientKeeps, Types DEF NoMessage
<1>5. WireInv'
  BY <1>1, <1>2 DEF WireInv, Messages, WithPlace, WithContent, AsksAt, NoMessage
<1>6. NumbersInv'
  BY <1>1, <1>2 DEF NumbersInv, Answered, Asked, Sending, Restoring, server, NoMessage, Receiving
<1>7. RestoreInv'
  BY <1>1, <1>2 DEF RestoreInv, RowIsTrue, server, Receiving
<1>8. UpdateInv' /\ CommittedInv'
  BY <1>1, <1>2 DEF UpdateInv, CommittedInv, Answered, Asked, Sending, NoMessage
<1>9. LastInv'
  BY <1>1 DEF ListInv, LastInv
<1> QED BY <1>3, <1>4, <1>5, <1>6, <1>7, <1>8, <1>9 DEF ListInv

LEMMA RestoreStopKeepsList ==
  ASSUME ListInv, RestoreStop
  PROVE  ListInv'
<1>1. /\ UNCHANGED <<server, local, written, edits, others, faults, claimed, folder, dirs>>
      /\ UNCHANGED <<lastServer, lastLocal, fl, todo>>
      /\ pc = "receive" /\ pc' = "clear" /\ wire' = NoMessage /\ version' = lastServer
  BY DEF RestoreStop, Answered, GoOn, ClientOnly, user
<1>2. lastServer = Len(hist) /\ Restoring /\ \A r \in fl : RowIsTrue(r)
  BY <1>1 DEF ListInv, NumbersInv, RestoreInv, Receiving
<1>3. (local \cup fl \subseteq Rows)' /\ \A r \in local' : RowIsTrue(r)
  BY <1>1, Types
<1>4. TypeOK' /\ hist' \in Seq(Listings) /\ ListIsTrue'
  BY <1>1, <1>3, ClientKeeps, Types DEF NoMessage, Working
<1>5. WireInv'
  BY <1>1 DEF WireInv
<1>6. NumbersInv'
  BY <1>1, <1>2 DEF NumbersInv, Answered, Asked, Sending, Restoring, server, NoMessage, Receiving
<1>7. RestoreInv' /\ UpdateInv'
  BY <1>1 DEF RestoreInv, UpdateInv, Answered, Asked, Sending, NoMessage, Receiving
<1>8. CommittedInv'
  BY <1>1, <1>2 DEF CommittedInv, RowIsTrue, server
<1>9. LastInv'
  BY <1>1 DEF ListInv, LastInv
<1> QED BY <1>3, <1>4, <1>5, <1>6, <1>7, <1>8, <1>9 DEF ListInv

LEMMA RestoreErrorKeepsList ==
  ASSUME ListInv, RestoreError
  PROVE  ListInv'
<1>1. /\ UNCHANGED <<server, local, written, edits, others, faults, claimed, folder, dirs>>
      /\ UNCHANGED <<lastServer, lastLocal, version, fl>>
      /\ pc' = "putback" /\ wire' = NoMessage
      /\ todo' = {p \in DOMAIN folder : p[2] > 0}
  BY DEF RestoreError, LeaveRestore, GoOn, ClientOnly, user
<1>2. todo' \subseteq Places
  BY <1>1, Types, ListingType
<1> QED BY <1>1, <1>2, AtRest, Types

LEMMA PutBackKeepsList ==
  ASSUME ListInv, PutBack
  PROVE  ListInv'
<1>1. /\ UNCHANGED <<server, local, written, edits, others, faults, claimed>>
      /\ UNCHANGED <<lastServer, lastLocal, version, fl>>
      /\ pc = "putback"
      /\ \/ /\ pc' = "putback" /\ wire' = wire
            /\ \E p \in todo : Move(p, p[2] - 1)
         \/ pc' = "idle" /\ wire' = NoMessage /\ folder' = Root(folder) /\ todo' = todo
            /\ dirs' = dirs \ {"LOCAL_NO_SYNCH"}
  BY DEF PutBack, Fails, GoOn, ClientOnly, user
<1>2. wire' = NoMessage
  BY <1>1, Quiet
<1>3. \A p \in todo : p[2] > 0
  BY <1>1 DEF ListInv, RestoreInv, Receiving
<1>4. folder' \in Listings /\ dirs' \subseteq Directories /\ todo' \subseteq todo
  <2>1. CASE folder' = Root(folder) /\ todo' = todo /\ dirs' = dirs \ {"LOCAL_NO_SYNCH"}
    BY <2>1, RootType, Types
  <2>2. ASSUME NEW p \in todo, Move(p, p[2] - 1)
        PROVE  folder' \in Listings /\ dirs' \subseteq Directories /\ todo' \subseteq todo
    <3>1. p \in Places /\ p[2] - 1 \in 0..MaxDepth
      BY <1>3, <2>2, Types DEF Places, MaxDepth
    <3> QED BY <2>2, <3>1, MoveType, Moved, Types
  <2> QED BY <1>1, <2>1, <2>2
<1> QED BY <1>1, <1>2, <1>3, <1>4, AtRest, Types

LEMMA Marked ==
  ASSUME NEW r \in Rows, NEW b \in BOOLEAN
  PROVE  [r EXCEPT !.toRemove = b] = Row(r.place, r.sum, r.ver, b)
<1>1. r = [place |-> r.place, sum |-> r.sum, ver |-> r.ver, toRemove |-> r.toRemove]
  BY DEF Rows
<1> QED BY <1>1 DEF Row

\* The rows of the version the update begins with, each to be removed until its
\* file is found.
LEMMA UpdateStartedKeepsList ==
  ASSUME ListInv, UpdateStarted
  PROVE  ListInv'
<1>1. /\ UNCHANGED <<server, local, written, edits, others, faults, claimed, folder, dirs>>
      /\ UNCHANGED <<lastServer, lastLocal, version>>
      /\ pc = "start" /\ wire.to = "client" /\ wire.kind = "ok"
      /\ pc' = "send" /\ wire' = NoMessage /\ todo' = DOMAIN folder
      /\ fl' = {[r EXCEPT !.toRemove = TRUE] : r \in RowsOf(lastLocal)}
  BY DEF UpdateStarted, Answered, GoOn, ClientOnly, user
<1>2. /\ lastServer = Len(hist) /\ lastLocal = lastServer
      /\ session = "update" /\ draft = LastOf(hist)
  BY <1>1 DEF ListInv, NumbersInv, UpdateInv, Answered, Receiving
<1>3. \A r \in fl' : \E x \in local :
        /\ x.ver = lastLocal /\ RowIsTrue(x) /\ r = Row(x.place, x.sum, lastLocal, TRUE)
  BY <1>1, Marked, Types DEF RowsOf
<1>4. \A r \in fl' : r \in Rows /\ r.toRemove /\ r.ver = lastLocal /\ RowIsTrue(r)
  <2> SUFFICES ASSUME NEW r \in fl'
               PROVE  r \in Rows /\ r.toRemove /\ r.ver = lastLocal /\ RowIsTrue(r)
    OBVIOUS
  <2>1. PICK x \in local :
          x.ver = lastLocal /\ RowIsTrue(x) /\ r = Row(x.place, x.sum, lastLocal, TRUE)
    BY <1>3
  <2>2. x \in Rows
    BY Types
  <2>3. r.place = x.place /\ r.sum = x.sum /\ r.ver = x.ver /\ r.toRemove = TRUE
    BY <2>1 DEF Row
  <2>4. r \in Rows
    BY <2>1, <2>2 DEF Row, Rows
  <2> QED BY <2>1, <2>3, <2>4 DEF RowIsTrue
<1>5. \A r \in fl' : r = Row(r.place, hist[lastLocal][r.place], lastLocal, TRUE)
  BY <1>3 DEF Row, RowIsTrue
<1>6. \A r, s \in fl' : r.place = s.place => r = s
  BY <1>5
<1>7. \A r \in fl' : r.place \in DOMAIN draft /\ draft[r.place] = r.sum
  BY <1>2, <1>4, HistType DEF RowIsTrue
<1>8. todo' \subseteq Places
  BY <1>1, Types, ListingType
<1>9. (local \cup fl \subseteq Rows)' /\ \A r \in local' : RowIsTrue(r)
  BY <1>1, <1>4, Types
<1>10. TypeOK' /\ hist' \in Seq(Listings) /\ ListIsTrue'
  BY <1>1, <1>8, <1>9, ClientKeeps, Types DEF NoMessage, Working
<1>11. WireInv'
  BY <1>1 DEF WireInv
<1>12. NumbersInv'
  BY <1>1, <1>2 DEF NumbersInv, Answered, Asked, Sending, server, NoMessage, Receiving
<1>13. RestoreInv' /\ CommittedInv'
  BY <1>1 DEF RestoreInv, CommittedInv, Answered, NoMessage, Receiving
<1>14. UpdateInv'
  <2>1. \A r \in fl' : RowFits(r)'
    BY <1>1, <1>4 DEF RowFits, RowIsTrue, server
  <2> QED BY <1>1, <1>2, <1>4, <1>6, <1>7, <2>1
          DEF UpdateInv, Answered, Asked, Sending, server, NoMessage
<1>15. LastInv'
  BY <1>1 DEF ListInv, LastInv
<1> QED BY <1>9, <1>10, <1>11, <1>12, <1>13, <1>14, <1>15 DEF ListInv

LEMMA UpdateRefusedKeepsList ==
  ASSUME ListInv, UpdateRefused
  PROVE  ListInv'
<1>1. /\ UNCHANGED <<server, local, written, edits, others, faults, claimed, folder, dirs>>
      /\ UNCHANGED <<lastServer, lastLocal, version, fl, todo>>
      /\ pc' = "idle" /\ wire' = NoMessage
  BY DEF UpdateRefused, Fails, GoOn, ClientOnly, user, client
<1> QED BY <1>1, AtRest, Types

\* What the client sends of a file is one row: the file is in the draft with it.
LEMMA ProcessFileKeepsList ==
  ASSUME ListInv, ProcessFile
  PROVE  ListInv'
<1>1. /\ UNCHANGED <<server, local, written, edits, others, faults, claimed, folder, dirs>>
      /\ UNCHANGED <<lastServer, lastLocal, version>>
      /\ pc = "send"
  BY DEF ProcessFile, ClientOnly, user
<1>2. /\ wire = NoMessage /\ lastServer = Len(hist) /\ lastLocal = lastServer
      /\ Len(hist) \in Nat
      /\ session = "update"
      /\ \A r \in fl : r \in Rows /\ RowFits(r)
      /\ \A r, s \in fl : r.place = s.place => r = s
      /\ \A r \in fl : r.toRemove => r.place \in DOMAIN draft /\ draft[r.place] = r.sum
      /\ \A r \in fl : r.place \in todo => r.toRemove
  BY <1>1, Quiet, HistType DEF ListInv, NumbersInv, UpdateInv, Sending, Receiving
<1>3. PICK p \in todo :
        /\ todo' = todo \ {p}
        /\ LET rows == {r \in fl : r.place = p} IN
           \/ UNCHANGED <<pc, wire, fl>>
           \/ /\ fl' = (fl \ rows) \cup {Row(p, r.sum, r.ver + 1, FALSE) : r \in rows}
              /\ UNCHANGED <<pc, wire>>
           \/ /\ p \in DOMAIN folder /\ fl' = fl \ rows /\ pc' = "added"
              /\ wire' = [to |-> "server", kind |-> "add", place |-> p, content |-> folder[p]]
  BY DEF ProcessFile, Ask
<1>4. \/ pc' = "send" /\ wire' = NoMessage
      \/ /\ p \in DOMAIN folder /\ pc' = "added"
         /\ wire' = [to |-> "server", kind |-> "add", place |-> p, content |-> folder[p]]
  BY <1>1, <1>2, <1>3
<1>5. p \in Places /\ (p \in DOMAIN folder => folder[p] \in Contents /\ folder[p] \in Nat)
  BY <1>3, Types, ListingType, NatContents
<1>6. \A r \in fl' :
        \/ r \in fl /\ (r.place = p => pc' = "send" /\ fl' = fl)
        \/ /\ r = Row(p, draft[p], lastServer + 1, FALSE) /\ p \in DOMAIN draft
           /\ pc' = "send" /\ draft[p] \in Contents
  <2>1. \A r \in fl : r.place = p =>
          /\ r.toRemove /\ r.ver = lastServer /\ p \in DOMAIN draft /\ draft[p] = r.sum
          /\ draft[p] \in Contents
    BY <1>2, <1>3 DEF RowFits, Rows
  <2> QED BY <1>1, <1>3, <2>1
<1>7. \A r \in fl' :
        /\ r \in Rows /\ RowFits(r)
        /\ r.toRemove => r.place \in DOMAIN draft /\ draft[r.place] = r.sum
        /\ r.place \in todo' => r.toRemove
  <2> DEFINE row == Row(p, draft[p], lastServer + 1, FALSE)
  <2>1. ASSUME p \in DOMAIN draft, draft[p] \in Contents
        PROVE  row \in Rows /\ RowFits(row) /\ ~ row.toRemove /\ row.place \notin todo'
    BY <1>2, <1>3, <1>5, <2>1 DEF Row, Rows, RowFits
  <2> QED BY <1>2, <1>3, <1>6, <2>1
<1>8. \A r, s \in fl' : r.place = s.place => r = s
  <2> DEFINE rows == {r \in fl : r.place = p}
  <2>1. CASE fl' \subseteq fl
    BY <1>2, <2>1
  <2>2. CASE fl' = (fl \ rows) \cup {Row(p, r.sum, r.ver + 1, FALSE) : r \in rows}
    <3>1. \A r, s \in rows : r = s
      BY <1>2
    <3>2. \A r \in {Row(p, r.sum, r.ver + 1, FALSE) : r \in rows} : r.place = p
      BY DEF Row
    <3>3. \A r, s \in {Row(p, r.sum, r.ver + 1, FALSE) : r \in rows} : r = s
      BY <3>1
    <3>4. \A r \in fl \ rows : r.place # p
      OBVIOUS
    <3> QED BY <1>2, <2>2, <3>2, <3>3, <3>4
  <2> QED BY <1>3, <2>1, <2>2
<1>9. todo' \subseteq Places
  BY <1>3, Types
<1>10. (local \cup fl \subseteq Rows)' /\ \A r \in local' : RowIsTrue(r)
  BY <1>1, <1>7, Types
<1>11. TypeOK' /\ hist' \in Seq(Listings) /\ ListIsTrue'
  BY <1>1, <1>4, <1>9, <1>10, ClientKeeps, Types DEF NoMessage, Working
<1>12. WireInv'
  BY <1>4, <1>5 DEF WireInv, Messages, WithPlace, WithContent, AsksAt
<1>13. NumbersInv'
  BY <1>1, <1>2, <1>4 DEF NumbersInv, Answered, Asked, Sending, server, NoMessage, Receiving
<1>14. RestoreInv' /\ CommittedInv'
  BY <1>4 DEF RestoreInv, CommittedInv, Answered, NoMessage, Receiving
<1>15. UpdateInv'
  <2>1. \A r \in fl' : RowFits(r)'
    BY <1>1, <1>7 DEF RowFits, RowIsTrue, server
  <2>2. pc' = "added" => \A r \in fl' : r.place # p
    BY <1>6
  <2>3. /\ pc' \in {"send", "added"} /\ session' = "update" /\ draft' = draft
        /\ wire'.to # "client"
        /\ pc' = "added" => wire'.place = p /\ p \notin todo'
        /\ ~ Asked("stop")' /\ ~ Asked("remove")'
    BY <1>1, <1>2, <1>3, <1>4 DEF Asked, server, NoMessage
  <2> QED BY <1>7, <1>8, <2>1, <2>2, <2>3 DEF UpdateInv, Answered, Sending
<1>16. LastInv'
  BY <1>1 DEF ListInv, LastInv
<1> QED BY <1>10, <1>11, <1>12, <1>13, <1>14, <1>15, <1>16 DEF ListInv

LEMMA FileAddedKeepsList ==
  ASSUME ListInv, FileAdded
  PROVE  ListInv'
<1> DEFINE row == Row(wire.place, wire.content, NextVersion, FALSE)
<1>1. /\ UNCHANGED <<server, local, written, edits, others, faults, claimed, folder, dirs>>
      /\ UNCHANGED <<lastServer, lastLocal, version, todo>>
      /\ pc = "added" /\ wire.to = "client" /\ wire.kind = "ok" /\ wire # NoMessage
      /\ pc' = "send" /\ wire' = NoMessage /\ fl' = fl \cup {row}
  BY DEF FileAdded, Answered, GoOn, ClientOnly, user, NoMessage
<1>2. /\ lastServer = Len(hist) /\ lastLocal = lastServer /\ Len(hist) \in Nat
      /\ session = "update" /\ wire.place \in Places /\ wire.content \in Contents
      /\ wire.place \in DOMAIN draft /\ draft[wire.place] = wire.content
      /\ wire.place \notin todo
      /\ \A r \in fl : r \in Rows /\ RowFits(r) /\ r.place # wire.place
      /\ \A r, s \in fl : r.place = s.place => r = s
      /\ \A r \in fl : r.toRemove => r.place \in DOMAIN draft /\ draft[r.place] = r.sum
      /\ \A r \in fl : r.place \in todo => r.toRemove
  BY <1>1, HistType DEF ListInv, WireInv, NumbersInv, UpdateInv, Answered, Sending, Receiving
<1>3. row \in Rows /\ row.place = wire.place /\ ~ row.toRemove /\ RowFits(row)
  <2>1. row \in Rows
    BY <1>2 DEF Row, Rows, NextVersion
  <2> QED BY <1>2, <2>1 DEF Row, RowFits, NextVersion
<1>4. /\ \A r \in fl' : r \in Rows /\ RowFits(r)
      /\ \A r, s \in fl' : r.place = s.place => r = s
      /\ \A r \in fl' : r.toRemove => r.place \in DOMAIN draft /\ draft[r.place] = r.sum
      /\ \A r \in fl' : r.place \in todo => r.toRemove
  <2> HIDE DEF row
  <2> QED BY <1>1, <1>2, <1>3
<1>5. (local \cup fl \subseteq Rows)' /\ \A r \in local' : RowIsTrue(r)
  BY <1>1, <1>4, Types
<1>6. TypeOK' /\ hist' \in Seq(Listings) /\ ListIsTrue'
  BY <1>1, <1>5, ClientKeeps, Types DEF NoMessage, Working
<1>7. WireInv'
  BY <1>1 DEF WireInv
<1>8. NumbersInv'
  BY <1>1, <1>2 DEF NumbersInv, Answered, Asked, Sending, server, NoMessage, Receiving
<1>9. RestoreInv' /\ CommittedInv'
  BY <1>1 DEF RestoreInv, CommittedInv, Answered, NoMessage, Receiving
<1>10. UpdateInv'
  <2>1. \A r \in fl' : RowFits(r)'
    BY <1>1, <1>4 DEF RowFits, RowIsTrue, server
  <2> QED BY <1>1, <1>2, <1>4, <2>1 DEF UpdateInv, Answered, Asked, Sending, server, NoMessage
<1>11. LastInv'
  BY <1>1 DEF ListInv, LastInv
<1> QED BY <1>5, <1>6, <1>7, <1>8, <1>9, <1>10, <1>11 DEF ListInv

LEMMA FileRefusedKeepsList ==
  ASSUME ListInv, FileRefused
  PROVE  ListInv'
<1>1. /\ UNCHANGED <<server, local, written, edits, others, faults, claimed, folder, dirs>>
      /\ UNCHANGED <<lastServer, lastLocal, version, fl, todo>>
      /\ pc' \in {"idle", "dead"} /\ wire' = NoMessage
  BY DEF FileRefused, Fails, GoOn, ClientOnly, user, client
<1> QED BY <1>1, AtRest, Types

LEMMA StartRemovingKeepsList ==
  ASSUME ListInv, StartRemoving
  PROVE  ListInv'
<1>1. /\ UNCHANGED <<server, local, written, edits, others, faults, claimed, folder, dirs>>
      /\ UNCHANGED <<lastServer, lastLocal, version, fl>>
      /\ pc = "send" /\ pc' \in {"dead", "remove"} /\ wire' = NoMessage
      /\ todo' = {r.place : r \in {x \in fl : x.toRemove}}
  BY DEF StartRemoving, GoOn, ClientOnly, user
<1>2. /\ lastServer = Len(hist) /\ lastLocal = lastServer /\ session = "update"
      /\ \A r \in fl : RowFits(r)
      /\ \A r, s \in fl : r.place = s.place => r = s
  BY <1>1 DEF ListInv, NumbersInv, UpdateInv, Sending, Receiving
<1>3. todo' \subseteq Places /\ \A r \in fl : r.place \in todo' => r.toRemove
  BY <1>1, <1>2, Types DEF Rows
<1>4. (local \cup fl \subseteq Rows)' /\ \A r \in local' : RowIsTrue(r)
  BY <1>1, Types
<1>5. TypeOK' /\ hist' \in Seq(Listings) /\ ListIsTrue'
  BY <1>1, <1>3, <1>4, ClientKeeps, Types DEF NoMessage, Working
<1>6. WireInv'
  BY <1>1 DEF WireInv
<1>7. NumbersInv'
  BY <1>1, <1>2 DEF NumbersInv, Answered, Asked, Sending, server, NoMessage, Receiving
<1>8. RestoreInv' /\ CommittedInv'
  BY <1>1 DEF RestoreInv, CommittedInv, Answered, NoMessage, Receiving
<1>9. UpdateInv'
  <2>1. \A r \in fl' : RowFits(r)'
    BY <1>1, <1>2 DEF RowFits, RowIsTrue, server
  <2> QED BY <1>1, <1>2, <1>3, <2>1 DEF UpdateInv, Answered, Asked, Sending, server, NoMessage
<1>10. LastInv'
  BY <1>1 DEF ListInv, LastInv
<1> QED BY <1>4, <1>5, <1>6, <1>7, <1>8, <1>9, <1>10 DEF ListInv

\* Asking for removals: the rows and the draft are what they were.
LEMMA Removing ==
  ASSUME ListInv, pc \in {"remove", "removed"},
         UNCHANGED <<server, local, written, edits, others, faults, claimed, folder, dirs>>,
         UNCHANGED <<lastServer, lastLocal, version, fl>>,
         todo' \subseteq todo,
         \/ pc' = "remove" /\ wire' = NoMessage
         \/ \E p \in todo :
              /\ pc' = "removed"
              /\ wire' = [to |-> "server", kind |-> "remove", place |-> p, content |-> 0]
         \/ /\ pc' = "stop"
            /\ wire' = [to |-> "server", kind |-> "stop", place |-> NoPlace, content |-> 0]
  PROVE  ListInv'
<1>1. /\ lastServer = Len(hist) /\ lastLocal = lastServer /\ session = "update"
      /\ \A r \in fl : RowFits(r)
      /\ \A r, s \in fl : r.place = s.place => r = s
      /\ \A r \in fl : r.place \in todo => r.toRemove
  BY DEF ListInv, NumbersInv, UpdateInv, Sending, Receiving
<1>2. \A p \in todo : p \in Places
  BY Types
<1>3. (local \cup fl \subseteq Rows)' /\ \A r \in local' : RowIsTrue(r)
  BY Types
<1>4. TypeOK' /\ hist' \in Seq(Listings) /\ ListIsTrue'
  BY <1>2, <1>3, ClientKeeps, Types DEF NoMessage, Working
<1>5. WireInv'
  BY <1>2 DEF WireInv, Messages, WithPlace, WithContent, AsksAt
<1>6. NumbersInv'
  BY <1>1 DEF NumbersInv, Answered, Asked, Sending, server, NoMessage, Receiving
<1>7. RestoreInv' /\ CommittedInv'
  BY DEF RestoreInv, CommittedInv, Answered, NoMessage, Receiving
<1>8. UpdateInv'
  <2>1. \A r \in fl' : RowFits(r)'
    BY <1>1 DEF RowFits, RowIsTrue, server
  <2> QED BY <1>1, <2>1 DEF UpdateInv, Answered, Asked, Sending, server, NoMessage
<1>9. LastInv'
  BY DEF ListInv, LastInv
<1> QED BY <1>3, <1>4, <1>5, <1>6, <1>7, <1>8, <1>9 DEF ListInv

LEMMA RemovalsKeepList ==
  ASSUME ListInv, RemoveNext \/ FileRemoved \/ StopUpdate
  PROVE  ListInv'
<1>1. CASE RemoveNext
  <2>1. /\ UNCHANGED <<server, local, written, edits, others, faults, claimed, folder, dirs>>
        /\ UNCHANGED <<lastServer, lastLocal, version, fl>>
        /\ pc = "remove" /\ pc' = "removed" /\ todo' \subseteq todo
        /\ \E p \in todo :
             wire' = [to |-> "server", kind |-> "remove", place |-> p, content |-> 0]
    BY <1>1 DEF RemoveNext, Ask, ClientOnly, user
  <2> QED BY <2>1, Removing
<1>2. CASE FileRemoved
  <2>1. /\ UNCHANGED <<server, local, written, edits, others, faults, claimed, folder, dirs>>
        /\ UNCHANGED <<lastServer, lastLocal, version, fl>>
        /\ pc = "removed" /\ pc' = "remove" /\ wire' = NoMessage /\ todo' \subseteq todo
    BY <1>2 DEF FileRemoved, Answered, GoOn, ClientOnly, user
  <2> QED BY <2>1, Removing
<1>3. CASE StopUpdate
  <2>1. /\ UNCHANGED <<server, local, written, edits, others, faults, claimed, folder, dirs>>
        /\ UNCHANGED <<lastServer, lastLocal, version, fl, todo>>
        /\ pc = "remove" /\ pc' = "stop"
        /\ wire' = [to |-> "server", kind |-> "stop", place |-> NoPlace, content |-> 0]
    BY <1>3 DEF StopUpdate, Ask, ClientOnly, user, client
  <2> QED BY <2>1, Removing
<1> QED BY <1>1, <1>2, <1>3

LEMMA UpdateStoppedKeepsList ==
  ASSUME ListInv, UpdateStopped
  PROVE  ListInv'
<1>1. /\ UNCHANGED <<server, local, written, edits, others, faults, folder, dirs>>
      /\ UNCHANGED <<lastServer, lastLocal, fl, todo>>
      /\ pc = "stop" /\ wire.to = "client" /\ wire' = NoMessage
      /\ \/ /\ wire.kind = "ok" /\ wire.content > 0 /\ version' = wire.content
            /\ pc' = "clear" /\ claimed' = claimed
         \/ pc' = "idle" /\ claimed' \in {0, lastServer} /\ version' = version
         \/ pc' \in {"silent", "idle"} /\ claimed' = claimed /\ version' = version
  BY DEF UpdateStopped, Answered, GoOn, Success, ClientOnly, user
<1>2. CASE pc' \in {"silent", "idle"} /\ claimed' \in {0, lastServer, claimed} /\ version' = version
  BY <1>1, <1>2, AtRest, Types
<1>3. CASE /\ wire.kind = "ok" /\ wire.content > 0 /\ version' = wire.content
           /\ pc' = "clear" /\ claimed' = claimed
  <2>1. /\ lastLocal = lastServer /\ wire.content = Len(hist) /\ Len(hist) = lastServer + 1
        /\ \A r \in fl : RowIsTrue(r)
    BY <1>1, <1>3 DEF ListInv, NumbersInv, CommittedInv, Answered, Receiving
  <2>2. (local \cup fl \subseteq Rows)' /\ \A r \in local' : RowIsTrue(r)
    BY <1>1, Types
  <2>3. TypeOK' /\ hist' \in Seq(Listings) /\ ListIsTrue'
    BY <1>1, <1>3, <2>1, <2>2, ClientKeeps, Types DEF NoMessage, Working
  <2>4. WireInv'
    BY <1>1 DEF WireInv
  <2>5. NumbersInv'
    BY <1>1, <1>3, <2>1, Types
       DEF NumbersInv, Answered, Asked, Sending, Restoring, server, NoMessage, Receiving
  <2>6. RestoreInv' /\ UpdateInv'
    BY <1>1, <1>3 DEF RestoreInv, UpdateInv, Answered, Asked, Sending, NoMessage, Receiving
  <2>7. CommittedInv'
    BY <1>1, <2>1 DEF CommittedInv, RowIsTrue, server
  <2>8. LastInv'
    BY <1>1 DEF ListInv, LastInv
  <2> QED BY <2>2, <2>3, <2>4, <2>5, <2>6, <2>7, <2>8 DEF ListInv
<1> QED BY <1>1, <1>2, <1>3

\* Replacing the list: the rows that go and the rows that come.
LEMMA Replacing ==
  ASSUME ListInv, pc \in {"clear", "insert"},
         UNCHANGED <<server, written, edits, others, faults, claimed, folder, dirs>>,
         UNCHANGED <<lastServer, lastLocal, version, todo>>,
         pc' = "insert", wire' = NoMessage, fl' \subseteq fl,
         (local \subseteq Rows)', \A r \in local' : RowIsTrue(r), LastInv'
  PROVE  ListInv'
<1>1. /\ version = Len(hist) /\ \A r \in fl : RowIsTrue(r)
      /\ IF Restoring THEN lastServer = version
                      ELSE lastServer = lastLocal /\ version = lastServer + 1
  BY DEF ListInv, NumbersInv, CommittedInv, Receiving
<1>2. (local \cup fl \subseteq Rows)'
  BY Types
<1>3. TypeOK' /\ hist' \in Seq(Listings) /\ ListIsTrue'
  BY <1>2, ClientKeeps, Types DEF NoMessage, Working
<1>4. WireInv'
  BY DEF WireInv
<1>5. NumbersInv'
  BY <1>1 DEF NumbersInv, Answered, Asked, Sending, Restoring, server, NoMessage, Receiving
<1>6. RestoreInv' /\ UpdateInv'
  BY DEF RestoreInv, UpdateInv, Answered, Asked, Sending, NoMessage, Receiving
<1>7. CommittedInv'
  BY <1>1 DEF CommittedInv, RowIsTrue, server
<1> QED BY <1>2, <1>3, <1>4, <1>5, <1>6, <1>7 DEF ListInv

LEMMA RemoveFileListKeepsList ==
  ASSUME ListInv, RemoveFileList
  PROVE  ListInv'
<1>1. /\ UNCHANGED <<server, written, edits, others, faults, claimed, folder, dirs>>
      /\ UNCHANGED <<lastServer, lastLocal, version, fl, todo>>
      /\ pc = "clear" /\ pc' = "insert" /\ wire' = NoMessage /\ local' = {}
  BY DEF RemoveFileList, GoOn, ClientOnly, user, client
<1>2. (local \subseteq Rows)' /\ (\A r \in local' : RowIsTrue(r)) /\ LastInv'
  BY <1>1 DEF LastInv
<1> QED BY <1>1, <1>2, Replacing

LEMMA InsertFileListKeepsList ==
  ASSUME ListInv, InsertFileList
  PROVE  ListInv'
<1>1. /\ UNCHANGED <<server, written, edits, others, faults, folder, dirs>>
      /\ UNCHANGED <<lastServer, lastLocal, version, todo>>
      /\ pc = "insert"
      /\ \/ /\ \E r \in fl : local' = local \cup {[r EXCEPT !.toRemove = FALSE]}
            /\ fl' \subseteq fl /\ UNCHANGED <<pc, wire, claimed>>
         \/ /\ pc' = "idle" /\ wire' = NoMessage /\ claimed' \in {0, version}
            /\ UNCHANGED <<local, fl>>
  BY DEF InsertFileList, Success, GoOn, ClientOnly, user
<1>2. CASE pc' = "idle" /\ wire' = NoMessage /\ claimed' \in {0, version} /\ UNCHANGED <<local, fl>>
  BY <1>1, <1>2, AtRest, Types
<1>3. ASSUME NEW r \in fl, local' = local \cup {[r EXCEPT !.toRemove = FALSE]},
             fl' \subseteq fl, UNCHANGED <<pc, wire, claimed>>
      PROVE  ListInv'
  <2> DEFINE row == Row(r.place, r.sum, r.ver, FALSE)
  <2>1. r \in Rows /\ RowIsTrue(r) /\ wire = NoMessage
    BY <1>1, Types, Quiet DEF ListInv, CommittedInv
  <2>2. local' = local \cup {row}
    BY <1>3, <2>1, Marked
  <2>3. row \in Rows /\ RowIsTrue(row) /\ row.ver \in Nat
    BY <2>1 DEF Rows, Row, RowIsTrue
  <2> HIDE DEF row
  <2>4. (local \subseteq Rows)' /\ \A s \in local' : RowIsTrue(s)
    BY <2>2, <2>3, Types
  <2>5. LastInv'
    <3>1. CASE local = {}
      BY <2>2, <2>3, <3>1 DEF LastInv
    <3>2. CASE local # {}
      <4>1. PICK last \in local : \A s \in local : s.ver <= last.ver
        BY <3>2, Types DEF LastInv
      <4>2. \A s \in local : s.ver \in Nat
        BY Types DEF Rows
      <4>3. CASE row.ver <= last.ver
        BY <2>2, <4>1, <4>3 DEF LastInv
      <4>4. CASE ~ row.ver <= last.ver
        <5>1. \A s \in local' : s.ver <= row.ver
          BY <2>2, <2>3, <4>1, <4>2, <4>4
        <5> QED BY <2>2, <5>1 DEF LastInv
      <4> QED BY <4>3, <4>4
    <3> QED BY <3>1, <3>2
  <2> QED BY <1>1, <1>3, <2>1, <2>4, <2>5, Replacing
<1> QED BY <1>1, <1>2, <1>3

\* One fault more.
LEMMA FaultType ==
  ASSUME ListInv, NEW kind, MayFail(kind)
  PROVE  faults' \in 0..MaxFaults
BY SyncAssumption, Types DEF MayFail

LEMMA LocalErrorKeepsList ==
  ASSUME ListInv, LocalError
  PROVE  ListInv'
<1>1. /\ UNCHANGED <<server, local, written, edits, others, folder, dirs>>
      /\ UNCHANGED <<lastServer, lastLocal, version, fl>>
      /\ wire' = NoMessage /\ claimed' \in {0, claimed, version}
      /\ \/ pc' = "putback" /\ todo' = {p \in DOMAIN folder : p[2] > 0}
         \/ pc' = "idle" /\ todo' = todo
  BY DEF LocalError, LeaveRestore, Success, Fails, GoOn, user
<1>2. faults' \in 0..MaxFaults
  BY FaultType DEF LocalError
<1>3. todo' \subseteq Places
  BY <1>1, Types, ListingType
<1> QED BY <1>1, <1>2, <1>3, AtRest, Types

LEMMA CrashKeepsList ==
  ASSUME ListInv, Crash \/ Restart
  PROVE  ListInv'
<1>1. /\ UNCHANGED <<server, local, written, edits, others, folder, dirs>>
      /\ UNCHANGED <<lastServer, lastLocal, version, fl, todo>>
      /\ pc' \in {"idle", "dead"} /\ wire' = NoMessage /\ claimed' \in {0, claimed}
  BY DEF Crash, Restart, GoOn, user, client
<1>2. faults' \in 0..MaxFaults
  BY FaultType, Types DEF Crash, Restart
<1> QED BY <1>1, <1>2, AtRest, Types

LEMMA LoseKeepsList ==
  ASSUME ListInv, Lose \/ ReadAhead
  PROVE  ListInv'
<1>1. /\ UNCHANGED <<server, local, written, edits, others, claimed, folder, dirs>>
      /\ UNCHANGED <<pc, lastServer, lastLocal, version, fl, todo>>
      /\ wire' = NoMessage
  BY DEF Lose, ReadAhead, ServerFault, user, client, server
<1>2. faults' \in 0..MaxFaults
  BY FaultType DEF Lose, ReadAhead
<1>3. (local \cup fl \subseteq Rows)' /\ \A r \in local' : RowIsTrue(r)
  BY <1>1, Types
<1>4. TypeOK' /\ hist' \in Seq(Listings) /\ ListIsTrue'
  BY <1>1, <1>2, <1>3, ClientKeeps, Types DEF NoMessage
<1>5. WireInv'
  BY <1>1 DEF WireInv
<1>6. NumbersInv'
  BY <1>1 DEF ListInv, NumbersInv, Answered, Asked, server, NoMessage, Restoring, Receiving
<1>7. RestoreInv'
  BY <1>1 DEF ListInv, RestoreInv, RowIsTrue, server, Receiving
<1>8. UpdateInv'
  <2>1. pc \in Sending => \A r \in fl' : RowFits(r)'
    BY <1>1 DEF ListInv, UpdateInv, RowFits, RowIsTrue, server
  <2>2. /\ ~ Asked("stop")' /\ ~ Asked("remove")'
        /\ ~ Answered("start", "ok")' /\ ~ Answered("added", "ok")'
    BY <1>1 DEF Asked, Answered, NoMessage
  <2> QED BY <1>1, <2>1, <2>2 DEF ListInv, UpdateInv, server
<1>9. CommittedInv'
  BY <1>1 DEF ListInv, CommittedInv, Answered, RowIsTrue, server, NoMessage
<1>10. LastInv'
  BY <1>1 DEF ListInv, LastInv
<1> QED BY <1>3, <1>4, <1>5, <1>6, <1>7, <1>8, <1>9, <1>10 DEF ListInv

\* An error answers the request; a version that could not be made ends the
\* session.
LEMMA RequestFailsKeepsList ==
  ASSUME ListInv, RequestFails
  PROVE  ListInv'
<1>1. /\ UNCHANGED <<hist, local, folder, dirs, pc, claimed, user>>
      /\ UNCHANGED client
      /\ wire.to = "server" /\ wire # NoMessage
      /\ wire' = [to |-> "client", kind |-> "error", place |-> wire.place, content |-> 0]
      /\ \/ UNCHANGED <<session, draft, changed>>
         \/ pc = "stop" /\ session' = "none" /\ draft' = <<>> /\ changed' = FALSE
  <2>1. wire.to = "server" /\ wire # NoMessage
    BY DEF RequestFails, NoMessage
  <2>2. Asked("stop") => pc = "stop"
    BY <2>1 DEF ListInv, WireInv, AsksAt, Asked
  <2> QED BY <2>1, <2>2 DEF RequestFails, Answer, ServerFault, CloseSession
<1>2. faults' \in 0..MaxFaults
  BY FaultType DEF RequestFails
<1>3. /\ TypeOK' /\ hist' \in Seq(Listings) /\ (local \cup fl \subseteq Rows)'
      /\ LastInv' /\ ListIsTrue'
  BY <1>1, <1>2, EmptyType, ServerKeeps DEF ListInv, TypeOK
<1>4. WireInv'
  BY <1>1 DEF ListInv, WireInv, Messages, WithPlace, WithContent, AsksAt, AnswersAt
<1>5. NumbersInv'
  BY <1>1 DEF ListInv, NumbersInv, Answered, Asked, client, Restoring, Receiving
<1>6. RestoreInv'
  BY <1>1 DEF ListInv, RestoreInv, RowIsTrue, client, Receiving
<1>7. UpdateInv'
  <2>1. pc \in Sending => \A r \in fl' : RowFits(r)'
    BY <1>1 DEF ListInv, UpdateInv, RowFits, RowIsTrue, client, Sending
  <2>2. /\ ~ Asked("stop")' /\ ~ Asked("remove")'
        /\ ~ Answered("start", "ok")' /\ ~ Answered("added", "ok")'
    BY <1>1 DEF Asked, Answered
  <2>3. pc = "stop" => pc \notin Sending
    BY DEF Sending
  <2> QED BY <1>1, <2>1, <2>2, <2>3 DEF ListInv, UpdateInv, client, Sending
<1>8. CommittedInv'
  BY <1>1 DEF ListInv, CommittedInv, Answered, RowIsTrue, client
<1> QED BY <1>3, <1>4, <1>5, <1>6, <1>7, <1>8 DEF ListInv

------------------------------------------------------------------------------
(* The user and the other devices.                                         *)

LEMMA FreshType ==
  ASSUME ListInv, edits < MaxEdits \/ others < MaxOthers
  PROVE  Fresh \in Contents
<1>1. edits \in 0..MaxEdits /\ others \in 0..MaxOthers /\ MaxEdits \in Nat /\ MaxOthers \in Nat
  BY SyncAssumption DEF ListInv, TypeOK
<1> QED BY <1>1 DEF Fresh, Contents

LEMMA WrittenType ==
  ASSUME NEW l \in UNION {[S -> Contents] : S \in SUBSET Files}, NEW f \in Files,
         NEW c \in Contents
  PROVE  /\ Put(l, f, c) \in UNION {[S -> Contents] : S \in SUBSET Files}
         /\ Drop(l, f) \in UNION {[S -> Contents] : S \in SUBSET Files}
<1>1. PICK S \in SUBSET Files : l \in [S -> Contents]
  OBVIOUS
<1>2. Put(l, f, c) \in [S \cup {f} -> Contents] /\ Drop(l, f) \in [S \ {f} -> Contents]
  BY <1>1 DEF Put, Drop
<1> QED BY <1>2

LEMMA UserEditsKeepList ==
  ASSUME ListInv, UserEdits
  PROVE  ListInv'
<1>1. /\ UNCHANGED <<pc, wire, dirs, local, client, server, others, faults>>
      /\ edits < MaxEdits /\ edits' = edits + 1 /\ claimed' = 0
      /\ \E f \in Files : UserWrites(f) \/ UserDeletes(f)
  BY DEF UserEdits
<1>2. /\ folder' \in Listings
      /\ written' \in UNION {[S -> Contents] : S \in SUBSET Files}
  <2>1. PICK f \in Files : UserWrites(f) \/ UserDeletes(f)
    BY <1>1
  <2>2. /\ folder \in Listings /\ <<f, 0>> \in Places
        /\ written \in UNION {[S -> Contents] : S \in SUBSET Files}
    BY <2>1 DEF ListInv, TypeOK, Places, MaxDepth
  <2>3. CASE UserWrites(f)
    <3>1. PICK c \in {Fresh, 0} :
            /\ folder' = Put(folder, <<f, 0>>, c)
            /\ written' \in {Drop(written, f), Put(written, f, c)}
      BY <2>3 DEF UserWrites
    <3>2. c \in Contents
      BY <1>1, FreshType, NatContents
    <3> QED BY <2>1, <2>2, <3>1, <3>2, PutType, WrittenType
  <2>4. CASE UserDeletes(f)
    BY <2>1, <2>2, <2>4, DropType, WrittenType, NatContents DEF UserDeletes
  <2> QED BY <2>1, <2>3, <2>4
<1>3. edits' \in 0..MaxEdits
  BY <1>1, SyncAssumption DEF ListInv, TypeOK
<1>4. TypeOK'
  BY <1>1, <1>2, <1>3, HistType DEF ListInv, TypeOK, client, server
<1>5. /\ hist' \in Seq(Listings) /\ (local \cup fl \subseteq Rows)'
      /\ WireInv' /\ LastInv' /\ ListIsTrue' /\ CommittedInv'
  BY <1>1 DEF ListInv, WireInv, LastInv, ListIsTrue, CommittedInv, Answered, RowIsTrue,
              client, server
<1>6. NumbersInv' /\ RestoreInv'
  BY <1>1 DEF ListInv, NumbersInv, RestoreInv, Answered, Asked, RowIsTrue, Restoring,
              client, server, Receiving
<1>7. UpdateInv'
  BY <1>1 DEF ListInv, UpdateInv, Answered, Asked, RowIsTrue, RowFits, client, server
<1> QED BY <1>4, <1>5, <1>6, <1>7 DEF ListInv

\* Directories without files are in no list.
LEMMA UserDirectoriesKeepList ==
  ASSUME ListInv, UserChangesDirectories
  PROVE  ListInv'
<1>1. /\ UNCHANGED <<pc, wire, folder, local, client, server, claimed, user, faults>>
      /\ dirs' \subseteq Directories
  BY Types DEF UserChangesDirectories
<1>2. TypeOK' /\ hist' \in Seq(Listings)
  BY <1>1 DEF ListInv, TypeOK, client, server, user
<1>3. /\ (local \cup fl \subseteq Rows)'
      /\ WireInv' /\ LastInv' /\ ListIsTrue' /\ CommittedInv'
  BY <1>1 DEF ListInv, WireInv, LastInv, ListIsTrue, CommittedInv, Answered, RowIsTrue,
              client, server
<1>4. NumbersInv' /\ RestoreInv'
  BY <1>1 DEF ListInv, NumbersInv, RestoreInv, Answered, Asked, RowIsTrue, Restoring,
              client, server
<1>5. UpdateInv'
  BY <1>1 DEF ListInv, UpdateInv, Answered, Asked, RowIsTrue, RowFits, client, server
<1> QED BY <1>2, <1>3, <1>4, <1>5 DEF ListInv

\* Another device commits while this one does nothing.
LEMMA OtherDeviceKeepsList ==
  ASSUME ListInv, ~ OthersMeanwhile, OtherDeviceCommits
  PROVE  ListInv'
<1>1. /\ UNCHANGED <<pc, wire, folder, dirs, local, client, session, draft, changed, claimed,
                     written, edits, faults>>
      /\ pc \in {"idle", "dead"} /\ others < MaxOthers /\ others' = others + 1
      /\ \E f \in Files : hist' = Append(hist, Put(LastOf(hist), <<f, 0>>, Fresh))
  BY DEF OtherDeviceCommits
<1>2. wire = NoMessage
  BY <1>1, Quiet
<1>3. PICK l \in Listings : hist' = Append(hist, l)
  <2>1. \A f \in Files : <<f, 0>> \in Places
    BY DEF Places, MaxDepth
  <2>2. \A f \in Files : Put(LastOf(hist), <<f, 0>>, Fresh) \in Listings
    BY <1>1, <2>1, HistType, FreshType, PutType
  <2> QED BY <1>1, <2>2
<1>4. /\ hist' \in Seq(Listings) /\ Len(hist') = Len(hist) + 1 /\ Len(hist) \in Nat /\ Grows
      /\ \A i \in DOMAIN hist' : hist'[i] \in Listings
  <2>1. /\ hist' \in Seq(Listings) /\ Len(hist') = Len(hist) + 1 /\ Len(hist) \in Nat /\ Grows
    BY <1>3, HistType, Appended DEF Grows
  <2> QED BY <2>1
<1>5. others' \in 0..MaxOthers
  BY <1>1, SyncAssumption DEF ListInv, TypeOK
<1>6. TypeOK'
  BY <1>1, <1>4, <1>5 DEF ListInv, TypeOK, client
<1>7. /\ (local \cup fl \subseteq Rows)' /\ LastInv'
  BY <1>1 DEF ListInv, LastInv, client
<1>8. ListIsTrue'
  BY <1>1, <1>4, TrueRowsStay DEF ListInv, ListIsTrue, RowIsTrue
<1>9. WireInv' /\ NumbersInv' /\ RestoreInv' /\ UpdateInv' /\ CommittedInv'
  BY <1>1, <1>2 DEF WireInv, NumbersInv, RestoreInv, UpdateInv, CommittedInv, Answered, Asked,
                    Sending, NoMessage, Receiving
<1> QED BY <1>4, <1>6, <1>7, <1>8, <1>9 DEF ListInv

------------------------------------------------------------------------------
(* The list is true.                                                       *)

LEMMA OneVersion ==
  ASSUME NEW l \in Listings
  PROVE  <<l>> \in Seq(Listings)
OBVIOUS

LEMMA ListInitially ==
  ASSUME Init
  PROVE  ListInv
<1>1. /\ pc = "idle" /\ wire = NoMessage /\ folder = <<>> /\ dirs = {} /\ local = {} /\ fl = {}
      /\ todo = {} /\ lastServer = 0 /\ lastLocal = 0 /\ version = 0 /\ claimed = 0
      /\ session = "none" /\ draft = <<>> /\ changed = FALSE /\ written = <<>>
      /\ edits = 0 /\ others = 0 /\ faults = 0
  BY DEF Init
<1>2. hist \in Seq(Listings)
  <2>1. ASSUME NEW f \in Files
        PROVE  <<Put(<<>>, <<f, 0>>, 1)>> \in Seq(Listings)
    <3>1. <<f, 0>> \in Places /\ 1 \in Contents
      BY SyncAssumption DEF Places, MaxDepth, Contents
    <3>2. Put(<<>>, <<f, 0>>, 1) \in Listings
      BY <3>1, EmptyType, PutType
    <3> QED BY <3>2, OneVersion, Zenon
  <2>2. hist \in IF Earlier = 0 THEN {<<>>} ELSE {<<Put(<<>>, <<f, 0>>, 1)>> : f \in Files}
    BY DEF Init
  <2>3. hist = <<>> \/ \E f \in Files : hist = <<Put(<<>>, <<f, 0>>, 1)>>
    BY <2>2, Zenon
  <2>4. <<>> \in Seq(Listings)
    OBVIOUS
  <2> QED BY <2>1, <2>3, <2>4, Zenon
<1>3. Len(hist) \in Nat /\ \A i \in DOMAIN hist : hist[i] \in Listings
  BY <1>2
<1>4. written \in UNION {[S -> Contents] : S \in SUBSET Files}
  <2>1. <<>> \in [{} -> Contents]
    OBVIOUS
  <2> QED BY <1>1, <2>1
<1>5. TypeOK
  <2>1. 0 \in 0..MaxEdits /\ 0 \in 0..MaxOthers /\ 0 \in 0..MaxFaults
    BY SyncAssumption
  <2>2. /\ pc \in Working \cup {"idle", "silent", "dead"}
        /\ wire.to \in {"nobody", "server", "client"}
    BY <1>1 DEF NoMessage
  <2> QED BY <1>1, <1>3, <1>4, <2>1, <2>2, EmptyType DEF TypeOK
<1>6. WireInv /\ NumbersInv /\ RestoreInv /\ UpdateInv /\ CommittedInv
  BY <1>1 DEF WireInv, NumbersInv, RestoreInv, UpdateInv, CommittedInv, Answered, Asked,
              Sending, NoMessage, Receiving
<1> QED BY <1>1, <1>2, <1>5, <1>6 DEF ListInv, LastInv, ListIsTrue

LEMMA StepKeepsList ==
  ASSUME ListInv, ~ OthersMeanwhile, [Next]_vars
  PROVE  ListInv'
<1>1. CASE Client
  BY <1>1, UpdateCurrentVersionKeepsList, ReadLastVersionKeepsList, SetAsideKeepsList,
     RestoreBeginsKeepsList, StoreFileKeepsList, RestoreStopKeepsList, RestoreErrorKeepsList,
     PutBackKeepsList, UpdateStartedKeepsList, UpdateRefusedKeepsList, ProcessFileKeepsList,
     FileAddedKeepsList, FileRefusedKeepsList, StartRemovingKeepsList, RemovalsKeepList,
     UpdateStoppedKeepsList, RemoveFileListKeepsList, InsertFileListKeepsList
     DEF Client
<1>2. CASE Server
  BY <1>2, GetLastVersionKeepsList, UpdateStartKeepsList, AddNewFileKeepsList,
     RemoveFileKeepsList, UpdateStopKeepsList, RestoreVersionKeepsList,
     RestoreFileAckKeepsList
     DEF Server
<1>3. CASE Environment
  BY <1>3, UserEditsKeepList, UserDirectoriesKeepList, OtherDeviceKeepsList, RejectFileKeepsList,
     LocalErrorKeepsList, LoseKeepsList, RequestFailsKeepsList, CrashKeepsList
     DEF Environment
<1>4. CASE SessionExpires \/ Restart
  BY <1>4, SessionExpiresKeepsList, CrashKeepsList
<1>5. CASE UNCHANGED vars
  <2>1. /\ UNCHANGED <<pc, wire, folder, dirs, local, claimed, faults, edited, written>>
        /\ UNCHANGED <<edits, others>>
        /\ UNCHANGED <<lastServer, lastLocal, version, fl, todo, hist, session, draft, changed>>
    BY <1>5 DEF vars, client, server, user
  <2>2. /\ TypeOK' /\ hist' \in Seq(Listings) /\ (local \cup fl \subseteq Rows)'
        /\ WireInv' /\ LastInv' /\ ListIsTrue' /\ CommittedInv'
    BY <2>1 DEF ListInv, TypeOK, WireInv, LastInv, ListIsTrue, CommittedInv, Answered,
                RowIsTrue
  <2>3. NumbersInv' /\ RestoreInv'
    BY <2>1 DEF ListInv, NumbersInv, RestoreInv, Answered, Asked, RowIsTrue, Restoring, Receiving
  <2>4. UpdateInv'
    BY <2>1 DEF ListInv, UpdateInv, Answered, Asked, RowIsTrue, RowFits
  <2> QED BY <2>2, <2>3, <2>4 DEF ListInv
<1> QED BY <1>1, <1>2, <1>3, <1>4, <1>5 DEF Next

LEMMA ListInvariant == ASSUME ~ OthersMeanwhile PROVE Spec => []ListInv
<1>1. Init => ListInv
  BY ListInitially
<1>2. ListInv /\ [Next]_vars => ListInv'
  BY StepKeepsList
<1> QED BY <1>1, <1>2, PTL DEF Spec

\* A row of t_files is in the version it names, with its checksum: what
\* processFile takes for unchanged is on the server, whatever is lost, refused or
\* cut off by a crash while the list is replaced.
THEOREM ListStaysTrue == ~ OthersMeanwhile => (Spec => []ListIsTrue)
<1> SUFFICES ASSUME ~ OthersMeanwhile PROVE Spec => []ListIsTrue
  OBVIOUS
<1>1. ListInv => ListIsTrue
  BY DEF ListInv
<1> QED BY <1>1, ListInvariant, PTL

------------------------------------------------------------------------------
(* The numbers of versions, whatever the other devices do meanwhile.       *)

\* The client works with versions there are, and its rows with those or with the
\* one it is making.
VersionsInv ==
  /\ \A r \in local \cup fl : r.ver >= 1
  /\ \A r \in local : r.ver <= Len(hist)
  /\ Answered("version", "version") =>
       /\ wire.content <= Len(hist)
       /\ \A r \in local : r.ver <= wire.content
  /\ pc \in {"aside"} \cup Receiving => lastServer > 0
  /\ Asked("restore") => wire.content = lastServer
  /\ pc = "aside" => fl = {}
  /\ pc \in Receiving => \A r \in fl : r.ver <= lastServer
  /\ pc \in {"start", "stop"} \cup Sending => lastLocal <= lastServer
  /\ pc \in {"stop"} \cup Sending =>
       \A r \in fl : r.ver <= IF r.toRemove THEN lastServer ELSE lastServer + 1
  /\ Answered("stop", "ok") /\ wire.content > 0 =>
       wire.content \in lastServer + 1..Len(hist)
  /\ pc \in {"clear", "insert"} => \A r \in fl : r.ver <= Len(hist)

\* The session is there while the client works in it, and a file that is still to
\* send has no new row yet.
InSessionInv ==
  /\ Answered("start", "ok") \/ pc \in Sending \/ Asked("stop") => session = "update"
  /\ pc \in Receiving /\ wire # NoMessage /\ wire.kind \in {"begin", "file", "ack", "nack"} =>
       session = "restore" /\ wire.place \in DOMAIN draft
  /\ pc = "putback" => \A p \in todo : p[2] > 0
  /\ pc \in {"send", "added"} => \A r \in fl : r.place \in todo => r.toRemove
  /\ pc = "added" /\ wire # NoMessage => wire.place \notin todo

NumInv ==
  /\ TypeOK
  /\ hist \in Seq(Listings)
  /\ local \cup fl \subseteq Rows
  /\ LastInv
  /\ WireInv
  /\ VersionsInv
  /\ InSessionInv

LEMMA Num ==
  ASSUME NumInv
  PROVE  /\ hist \in Seq(Listings) /\ Len(hist) \in Nat /\ DOMAIN hist = 1..Len(hist)
         /\ \A i \in DOMAIN hist : hist[i] \in Listings
         /\ LastOf(hist) \in Listings
         /\ folder \in Listings /\ draft \in Listings /\ todo \subseteq Places
         /\ dirs \subseteq Directories
         /\ pc \in Working \cup {"idle", "silent", "dead"}
         /\ wire.to \in {"nobody", "server", "client"}
         /\ session \in {"none", "update", "restore"}
         /\ session = "none" => draft = <<>> /\ ~ changed
         /\ lastServer \in 0..Len(hist) /\ lastLocal \in 0..Len(hist)
         /\ version \in 0..Len(hist) /\ claimed \in 0..Len(hist)
         /\ faults \in 0..MaxFaults
         /\ local \subseteq Rows /\ fl \subseteq Rows
<1>1. hist \in Seq(Listings) /\ Len(hist) \in Nat /\ DOMAIN hist = 1..Len(hist)
  BY DEF NumInv
<1>2. \A i \in DOMAIN hist : hist[i] \in Listings
  BY <1>1
<1>3. LastOf(hist) \in Listings
  BY <1>1, <1>2, EmptyType DEF LastOf
<1> QED BY <1>1, <1>2, <1>3 DEF NumInv, TypeOK

\* What a step of the server leaves alone.
LEMMA ServerNum ==
  ASSUME NumInv, UNCHANGED <<pc, folder, dirs, local, client, claimed, user>>,
         faults' \in 0..MaxFaults,
         \/ hist' = hist
         \/ \E l \in Listings : hist' = Append(hist, l),
         wire'.to \in {"nobody", "server", "client"},
         session' \in {"none", "update", "restore"}, draft' \in Listings,
         session' = "none" => draft' = <<>> /\ ~ changed'
  PROVE  /\ TypeOK' /\ hist' \in Seq(Listings) /\ (local \cup fl \subseteq Rows)' /\ LastInv'
         /\ Len(hist') \in Nat /\ Len(hist') >= Len(hist)
<1>1. hist' \in Seq(Listings) /\ Len(hist') \in Nat /\ Len(hist') >= Len(hist)
  BY Num, Appended
<1>2. \A i \in DOMAIN hist' : hist'[i] \in Listings
  BY <1>1
<1>3. Len(hist) \in Nat
  BY Num
<1>4. TypeOK'
  BY <1>1, <1>2, <1>3 DEF NumInv, TypeOK, client, user
<1>5. (local \cup fl \subseteq Rows)' /\ LastInv'
  BY DEF NumInv, LastInv, client
<1> QED BY <1>1, <1>4, <1>5

\* The numbers stay those of versions there are when there are more of them.
LEMMA VersionsStay ==
  ASSUME NumInv, UNCHANGED <<pc, local, client>>,
         Len(hist') \in Nat, Len(hist') >= Len(hist),
         ~ Answered("version", "version")', ~ Asked("restore")', ~ Answered("stop", "ok")'
  PROVE  VersionsInv'
<1>1. \A r \in local \cup fl : r.ver \in Nat
  BY Num DEF Rows
<1> QED BY <1>1, Num DEF NumInv, VersionsInv, client, Receiving

LEMMA GetLastVersionNum ==
  ASSUME NumInv, GetLastVersion
  PROVE  NumInv'
<1>1. /\ UNCHANGED <<pc, folder, dirs, local, client, server, claimed, user, faults>>
      /\ wire.to = "server" /\ wire.kind = "version" /\ wire # NoMessage
      /\ wire' = [to |-> "client", kind |-> "version", place |-> NoPlace, content |-> Len(hist)]
  BY DEF GetLastVersion, ServerOnly, Asked, Answer, NoMessage
<1>2. pc = "version"
  BY <1>1 DEF NumInv, WireInv, AsksAt
<1>3. TypeOK' /\ hist' \in Seq(Listings) /\ (local \cup fl \subseteq Rows)' /\ LastInv'
  BY <1>1, ServerNum, Num DEF server
<1>4. WireInv'
  BY <1>1, <1>2, Num DEF WireInv, Messages, WithPlace, WithContent, AnswersAt
<1>5. VersionsInv'
  BY <1>1, <1>2, Num DEF NumInv, VersionsInv, server, client, Answered, Asked, Sending, Receiving
<1>6. InSessionInv'
  BY <1>1, <1>2 DEF InSessionInv, Answered, Asked, Sending, Receiving
<1> QED BY <1>3, <1>4, <1>5, <1>6 DEF NumInv

LEMMA UpdateStartNum ==
  ASSUME NumInv, UpdateStart
  PROVE  NumInv'
<1>1. /\ UNCHANGED <<pc, folder, dirs, local, client, hist, claimed, user, faults>>
      /\ wire.to = "server" /\ wire.kind = "start" /\ wire # NoMessage
      /\ \/ /\ wire' = [to |-> "client", kind |-> "ok", place |-> NoPlace, content |-> 0]
            /\ session' = "update" /\ draft' = LastOf(hist)
         \/ /\ wire' = [to |-> "client", kind |-> "error", place |-> NoPlace, content |-> 0]
            /\ UNCHANGED <<session, draft, changed>>
  BY DEF UpdateStart, ServerOnly, Asked, Answer, OpenSession, NoMessage
<1>2. pc = "start"
  BY <1>1 DEF NumInv, WireInv, AsksAt
<1>3. wire'.to = "client" /\ wire'.kind \in {"ok", "error"}
  BY <1>1
<1>4. /\ TypeOK' /\ hist' \in Seq(Listings) /\ (local \cup fl \subseteq Rows)' /\ LastInv'
      /\ Len(hist') \in Nat /\ Len(hist') >= Len(hist)
  BY <1>1, <1>3, ServerNum, Num
<1>5. WireInv'
  BY <1>1, <1>2 DEF WireInv, Messages, WithPlace, WithContent, AnswersAt
<1>6. VersionsInv'
  BY <1>1, <1>2, <1>3, <1>4, VersionsStay DEF Answered, Asked
<1>7. InSessionInv'
  BY <1>1, <1>2 DEF InSessionInv, Answered, Asked, Sending, Receiving
<1> QED BY <1>4, <1>5, <1>6, <1>7 DEF NumInv

\* A file is added to the draft or removed from it.
LEMMA DraftChangesNum ==
  ASSUME NumInv, AddNewFile \/ RemoveFile
  PROVE  NumInv'
<1>1. /\ UNCHANGED <<pc, folder, dirs, local, client, hist, session, claimed, user, faults>>
      /\ wire.to = "server" /\ wire # NoMessage
      /\ \/ wire.kind = "add" /\ draft' = Put(draft, wire.place, wire.content)
         \/ wire.kind = "remove" /\ draft' = Drop(draft, wire.place)
      /\ \/ /\ wire.kind = "add"
            /\ wire' = [to |-> "client", kind |-> "ok", place |-> wire.place,
                        content |-> wire.content]
         \/ /\ wire.kind = "remove"
            /\ wire' = [to |-> "client", kind |-> "ok", place |-> wire.place, content |-> 0]
  BY DEF AddNewFile, RemoveFile, ServerOnly, Asked, Answer, NoMessage
<1>2. /\ wire.kind = "add" => pc = "added" /\ wire.content \in Contents
      /\ wire.kind = "remove" => pc = "removed"
      /\ wire.place \in Places
  BY <1>1 DEF NumInv, WireInv, AsksAt, WithPlace, WithContent
<1>3. pc \in Sending /\ session = "update"
  BY <1>1, <1>2 DEF NumInv, InSessionInv, Sending, Receiving
<1>4. draft' \in Listings
  BY <1>1, <1>2, Num, PutType, DropType
<1>5. wire'.to = "client" /\ wire'.kind = "ok"
  BY <1>1
<1>6. /\ TypeOK' /\ hist' \in Seq(Listings) /\ (local \cup fl \subseteq Rows)' /\ LastInv'
      /\ Len(hist') \in Nat /\ Len(hist') >= Len(hist)
  BY <1>1, <1>3, <1>4, <1>5, ServerNum, Num
<1>7. WireInv'
  BY <1>1, <1>2, NatContents DEF WireInv, Messages, WithPlace, WithContent, AnswersAt
<1>8. VersionsInv'
  BY <1>1, <1>2, <1>5, <1>6, VersionsStay DEF Answered, Asked
<1>9. InSessionInv'
  <2>1. pc = "added" => /\ wire.place \notin todo
                        /\ \A r \in fl : r.place \in todo => r.toRemove
    BY <1>1 DEF NumInv, InSessionInv, Receiving
  <2> QED BY <1>1, <1>2, <1>3, <2>1 DEF InSessionInv, Answered, Asked, Sending, client, Receiving
<1> QED BY <1>6, <1>7, <1>8, <1>9 DEF NumInv

LEMMA UpdateStopNum ==
  ASSUME NumInv, UpdateStop
  PROVE  NumInv'
<1>1. /\ UNCHANGED <<pc, folder, dirs, local, client, claimed, user, faults>>
      /\ wire.to = "server" /\ wire.kind = "stop" /\ wire # NoMessage
      /\ session' = "none" /\ draft' = <<>> /\ changed' = FALSE
      /\ \/ /\ hist' = Append(hist, draft)
            /\ wire' = [to |-> "client", kind |-> "ok", place |-> NoPlace,
                        content |-> Len(hist) + 1]
         \/ /\ hist' = hist
            /\ wire' = [to |-> "client", kind |-> "ok", place |-> NoPlace, content |-> 0]
  BY DEF UpdateStop, ServerOnly, CloseSession, Asked, Answer, NoMessage
<1>2. pc = "stop"
  BY <1>1 DEF NumInv, WireInv, AsksAt
<1>3. wire'.to = "client" /\ wire'.kind = "ok"
  BY <1>1
<1>4. /\ TypeOK' /\ hist' \in Seq(Listings) /\ (local \cup fl \subseteq Rows)' /\ LastInv'
      /\ Len(hist') \in Nat /\ Len(hist') >= Len(hist)
  BY <1>1, <1>3, EmptyType, ServerNum, Num
<1>5. WireInv'
  BY <1>1, <1>2, Num DEF WireInv, Messages, WithPlace, WithContent, AnswersAt
<1>6. VersionsInv'
  <2>1. wire'.content > 0 => wire'.content = Len(hist) + 1 /\ Len(hist') = Len(hist) + 1
    BY <1>1, Num, Appended
  <2>2. \A r \in local \cup fl : r.ver \in Nat
    BY Num DEF Rows
  <2> QED BY <1>1, <1>2, <1>4, <2>1, <2>2, Num
          DEF NumInv, VersionsInv, client, Answered, Asked, Sending, Receiving
<1>7. InSessionInv'
  BY <1>1, <1>2 DEF InSessionInv, Answered, Asked, Sending, Receiving
<1> QED BY <1>4, <1>5, <1>6, <1>7 DEF NumInv

LEMMA RestoreVersionNum ==
  ASSUME NumInv, RestoreVersion
  PROVE  NumInv'
<1>1. /\ UNCHANGED <<pc, folder, dirs, local, client, hist, claimed, user, faults>>
      /\ wire.to = "server" /\ wire.kind = "restore" /\ wire # NoMessage
      /\ \/ /\ session' = "restore" /\ draft' = hist[wire.content]
            /\ \E p \in DOMAIN hist[wire.content] :
                 wire' = [to |-> "client", kind |-> "begin", place |-> p,
                          content |-> hist[wire.content][p]]
         \/ /\ wire' = [to |-> "client", kind |-> "error", place |-> NoPlace, content |-> 0]
            /\ UNCHANGED <<session, draft, changed>>
  BY DEF RestoreVersion, ServerOnly, Asked, Answer, Offer, OpenSession, NoMessage
<1>2. pc = "restore" /\ wire.content \in DOMAIN hist /\ hist[wire.content] \in Listings
  <2>1. pc = "restore"
    BY <1>1 DEF NumInv, WireInv, AsksAt
  <2> QED BY <1>1, <2>1, Num DEF NumInv, VersionsInv, Asked, Receiving
<1>3. wire'.to = "client" /\ wire'.kind \in {"begin", "error"}
  BY <1>1
<1>4. /\ TypeOK' /\ hist' \in Seq(Listings) /\ (local \cup fl \subseteq Rows)' /\ LastInv'
      /\ Len(hist') \in Nat /\ Len(hist') >= Len(hist)
  BY <1>1, <1>2, <1>3, ServerNum, Num
<1>5. WireInv'
  <2>1. wire'.kind = "begin" =>
          wire'.place \in Places /\ wire'.content \in Contents /\ wire'.content \in Nat
    <3>1. \A p \in DOMAIN hist[wire.content] :
            p \in Places /\ hist[wire.content][p] \in Contents /\ hist[wire.content][p] \in Nat
      BY <1>2, ListingType, NatContents
    <3> QED BY <1>1, <3>1
  <2>2. /\ wire'.kind = "error" => wire'.place = NoPlace /\ wire'.content = 0
        /\ wire' = [to |-> "client", kind |-> wire'.kind, place |-> wire'.place,
                    content |-> wire'.content]
    BY <1>1
  <2> QED BY <1>1, <1>2, <1>3, <2>1, <2>2
          DEF WireInv, Messages, WithPlace, WithContent, AnswersAt
<1>6. VersionsInv'
  BY <1>1, <1>2, <1>3, <1>4, VersionsStay DEF Answered, Asked
<1>7. InSessionInv'
  BY <1>1, <1>2 DEF InSessionInv, Answered, Asked, Sending, Receiving
<1> QED BY <1>4, <1>5, <1>6, <1>7 DEF NumInv

LEMMA RestoreFileAckNum ==
  ASSUME NumInv, RestoreFileAck
  PROVE  NumInv'
<1>1. /\ UNCHANGED <<pc, folder, dirs, local, client, hist, claimed, user, faults>>
      /\ wire.to = "server" /\ wire.kind \in {"ack", "nack"} /\ wire # NoMessage
      /\ \/ /\ UNCHANGED <<session, draft, changed>>
            /\ wire' = [to |-> "client", kind |-> "file", place |-> wire.place,
                        content |-> draft[wire.place]]
         \/ /\ session' = "none" /\ draft' = <<>> /\ changed' = FALSE
            /\ wire' = [to |-> "client", kind |-> "stop", place |-> NoPlace, content |-> 0]
         \/ /\ UNCHANGED <<session, changed>> /\ draft' = Drop(draft, wire.place)
            /\ \E p \in DOMAIN draft' :
                 wire' = [to |-> "client", kind |-> "file", place |-> p, content |-> draft'[p]]
  BY DEF RestoreFileAck, ServerOnly, CloseSession, Asked, Answer, Offer, NoMessage
<1>2. pc = "receive"
  BY <1>1 DEF NumInv, WireInv, AsksAt
<1>3. session = "restore" /\ wire.place \in DOMAIN draft
  BY <1>1, <1>2 DEF NumInv, InSessionInv, Receiving
<1>4. draft' \in Listings
  BY <1>1, EmptyType, DropType, Num
<1>5. wire'.to = "client" /\ wire'.kind \in {"file", "stop"}
  BY <1>1
<1>6. wire'.kind = "file" =>
        wire'.place \in DOMAIN draft' /\ wire'.place \in Places /\ wire'.content \in Contents
  BY <1>1, <1>3, <1>4, Num, ListingType
<1>7. /\ TypeOK' /\ hist' \in Seq(Listings) /\ (local \cup fl \subseteq Rows)' /\ LastInv'
      /\ Len(hist') \in Nat /\ Len(hist') >= Len(hist)
  BY <1>1, <1>3, <1>4, <1>5, ServerNum, Num
<1>8. WireInv'
  BY <1>1, <1>2, <1>6, NatContents DEF WireInv, Messages, WithPlace, WithContent, AnswersAt
<1>9. VersionsInv'
  BY <1>1, <1>2, <1>5, <1>7, VersionsStay DEF Answered, Asked
<1>10. InSessionInv'
  BY <1>1, <1>2, <1>3, <1>6 DEF InSessionInv, Answered, Asked, Sending, Receiving
<1> QED BY <1>7, <1>8, <1>9, <1>10 DEF NumInv

LEMMA SessionExpiresNum ==
  ASSUME NumInv, SessionExpires
  PROVE  NumInv'
<1>1. /\ UNCHANGED <<pc, wire, folder, dirs, local, client, hist, claimed, user, faults>>
      /\ pc \in {"idle", "version", "aside", "dead"}
      /\ session' = "none" /\ draft' = <<>> /\ changed' = FALSE
  BY DEF SessionExpires, ServerOnly, CloseSession
<1>2. TypeOK' /\ hist' \in Seq(Listings) /\ (local \cup fl \subseteq Rows)' /\ LastInv'
  BY <1>1, EmptyType, ServerNum, Num
<1>3. WireInv' /\ VersionsInv'
  BY <1>1 DEF NumInv, WireInv, VersionsInv, client, Answered, Asked, Receiving
<1>4. ~ Asked("stop")
  BY <1>1 DEF NumInv, WireInv, AsksAt, Asked, NoMessage
<1>5. InSessionInv'
  BY <1>1, <1>4 DEF InSessionInv, Answered, Asked, Sending, Receiving
<1> QED BY <1>2, <1>3, <1>5 DEF NumInv

\* What a step of the client, and a fault on its side, leaves alone.
LEMMA ClientNum ==
  ASSUME NumInv, UNCHANGED <<server, written, edits, others>>, faults' \in 0..MaxFaults,
         pc' \in Working \cup {"idle", "silent", "dead"},
         wire'.to \in {"nobody", "server", "client"},
         folder' \in Listings, dirs' \subseteq Directories, todo' \subseteq Places,
         (local \cup fl \subseteq Rows)',
         \A r \in local' : r.ver \in 1..Len(hist),
         {lastServer', lastLocal', version', claimed'} \subseteq 0..Len(hist)
  PROVE  TypeOK' /\ hist' \in Seq(Listings)
<1>1. /\ hist' = hist /\ session' = session /\ draft' = draft /\ changed' = changed
      /\ written' = written /\ edits' = edits /\ others' = others
  BY DEF server
<1>2. \A r \in local' : r.ver \in 1..Len(hist) + 1
  BY Num
<1>3. \A r \in (local \cup fl)' : r.place \in Places /\ r.sum \in Contents
  BY DEF Rows
<1>4. TypeOK'
  BY <1>1, <1>2, <1>3 DEF NumInv, TypeOK
<1> QED BY <1>1, <1>4 DEF NumInv

\* The rows of the list are of versions there are.
LEMMA ListNum ==
  ASSUME NumInv
  PROVE  /\ \A r \in local : r.ver \in 1..Len(hist)
         /\ \A r \in local \cup fl : r \in Rows /\ r.ver \in Nat /\ r.ver >= 1
<1>1. \A r \in local \cup fl : r \in Rows /\ r.ver \in Nat /\ r.ver >= 1
  BY Num DEF NumInv, VersionsInv, Rows, Receiving
<1> QED BY <1>1, Num DEF NumInv, VersionsInv, Receiving

LEMMA QuietNum ==
  ASSUME NumInv, pc \notin {"version", "restore", "receive", "start", "added", "removed", "stop"}
  PROVE  wire = NoMessage
BY DEF NumInv, WireInv, Messages, AsksAt, AnswersAt

\* Where no request is under way the rows in hand no longer matter.
LEMMA RestNum ==
  ASSUME NumInv, UNCHANGED <<server, local, written, edits, others>>,
         faults' \in 0..MaxFaults, fl' \subseteq fl,
         pc' \in {"idle", "silent", "dead", "putback"}, wire' = NoMessage,
         folder' \in Listings, dirs' \subseteq Directories, todo' \subseteq Places,
         pc' = "putback" => \A p \in todo' : p[2] > 0,
         {lastServer', lastLocal', version', claimed'} \subseteq 0..Len(hist)
  PROVE  NumInv'
<1>1. wire'.to = "nobody" /\ pc' \in Working \cup {"idle", "silent", "dead"}
  BY DEF NoMessage, Working
<1>2. (local \cup fl \subseteq Rows)' /\ \A r \in local' : r.ver \in 1..Len(hist)
  BY ListNum, Num
<1>3. TypeOK' /\ hist' \in Seq(Listings)
  BY <1>1, <1>2, ClientNum
<1>4. WireInv' /\ InSessionInv'
  BY <1>1 DEF WireInv, InSessionInv, Answered, Asked, Sending, Receiving
<1>5. VersionsInv'
  BY <1>1, <1>2, ListNum DEF VersionsInv, Answered, Asked, Sending, server, Receiving
<1>6. LastInv'
  BY DEF NumInv, LastInv
<1> QED BY <1>2, <1>3, <1>4, <1>5, <1>6 DEF NumInv

LEMMA UpdateCurrentVersionNum ==
  ASSUME NumInv, UpdateCurrentVersion
  PROVE  NumInv'
<1>1. /\ pc = "idle" /\ pc' = "version" /\ claimed' = 0
      /\ wire' = [to |-> "server", kind |-> "version", place |-> NoPlace, content |-> 0]
      /\ UNCHANGED <<server, written, edits, others, faults, folder, dirs, local>>
      /\ UNCHANGED <<lastServer, lastLocal, version, fl, todo>>
  BY DEF UpdateCurrentVersion, Ask, client
<1>2. (local \cup fl \subseteq Rows)' /\ \A r \in local' : r.ver \in 1..Len(hist)
  BY <1>1, Num, ListNum
<1>3. TypeOK' /\ hist' \in Seq(Listings)
  BY <1>1, <1>2, ClientNum, Num DEF Working
<1>4. WireInv' /\ InSessionInv'
  BY <1>1 DEF WireInv, InSessionInv, Messages, WithPlace, WithContent, AsksAt, Answered,
              Asked, Sending, Receiving
<1>5. VersionsInv'
  BY <1>1, <1>2, ListNum DEF VersionsInv, Answered, Asked, Sending, server, Receiving
<1>6. LastInv'
  BY <1>1 DEF NumInv, LastInv
<1> QED BY <1>2, <1>3, <1>4, <1>5, <1>6 DEF NumInv

\* The last version of the list is not above what all its rows are below.
LEMMA LocalVersionBound ==
  ASSUME NumInv, NEW n \in Nat, \A r \in local : r.ver <= n
  PROVE  LocalVersion \in 0..n
<1>1. CASE local = {}
  BY <1>1 DEF LocalVersion
<1>2. CASE local # {}
  <2>1. \E r \in local : \A s \in local : s.ver <= r.ver
    BY <1>2 DEF NumInv, LastInv
  <2>2. PICK r \in local : LocalVersion = r.ver
    BY <1>2, <2>1 DEF LocalVersion
  <2> QED BY <2>2, ListNum
<1> QED BY <1>1, <1>2

LEMMA ReadLastVersionNum ==
  ASSUME NumInv, ReadLastVersion
  PROVE  NumInv'
<1>1. /\ UNCHANGED <<server, local, written, edits, others, faults, folder, dirs, version, claimed>>
      /\ pc = "version" /\ wire.to = "client" /\ wire.kind = "version" /\ wire # NoMessage
      /\ lastServer' = wire.content /\ fl' = {} /\ todo' = DOMAIN folder
      /\ lastLocal' = IF wire.content = 0 THEN 0 ELSE LocalVersion
      /\ \/ /\ lastServer' > lastLocal' /\ pc' = "aside" /\ wire' = NoMessage
         \/ /\ pc' = "idle" /\ wire' = NoMessage
         \/ /\ lastServer' <= lastLocal' /\ pc' = "start"
            /\ wire' = [to |-> "server", kind |-> "start", place |-> NoPlace, content |-> 0]
  BY DEF ReadLastVersion, Answered, GoOn, Ask, ClientOnly, user, NoMessage
<1>2. wire.content \in 0..Len(hist) /\ \A r \in local : r.ver <= wire.content
  <2>1. wire.content \in Nat
    BY <1>1 DEF NumInv, WireInv, Messages
  <2> QED BY <1>1, <2>1, Num DEF NumInv, VersionsInv, Answered, Receiving
<1>3. lastServer' \in 0..Len(hist) /\ lastLocal' \in 0..lastServer' /\ Len(hist) \in Nat
  BY <1>1, <1>2, LocalVersionBound, Num
<1>4. todo' \subseteq Places
  BY <1>1, Num, ListingType
<1>5. (local \cup fl \subseteq Rows)' /\ \A r \in local' : r.ver \in 1..Len(hist)
  BY <1>1, Num, ListNum
<1>6. TypeOK' /\ hist' \in Seq(Listings)
  BY <1>1, <1>3, <1>4, <1>5, ClientNum, Num DEF Working, NoMessage
<1>7. WireInv' /\ InSessionInv'
  BY <1>1 DEF WireInv, InSessionInv, Messages, WithPlace, WithContent, AsksAt, Answered,
              Asked, Sending, NoMessage, Receiving
<1>8. VersionsInv'
  BY <1>1, <1>3, <1>5, ListNum DEF VersionsInv, Answered, Asked, Sending, server, NoMessage,
                                   Receiving
<1>9. LastInv'
  BY <1>1 DEF NumInv, LastInv
<1> QED BY <1>5, <1>6, <1>7, <1>8, <1>9 DEF NumInv

LEMMA SetAsideNum ==
  ASSUME NumInv, SetAside
  PROVE  NumInv'
<1>1. /\ UNCHANGED <<server, local, written, edits, others, faults, claimed>>
      /\ UNCHANGED <<lastServer, lastLocal, version, fl>>
      /\ pc = "aside"
      /\ \/ /\ pc' = "aside" /\ wire' = wire
            /\ \E p \in todo : p[2] < MaxDepth /\ Move(p, p[2] + 1)
         \/ /\ pc' = "restore" /\ UNCHANGED <<folder, dirs, todo>>
            /\ wire' = [to |-> "server", kind |-> "restore", place |-> NoPlace,
                        content |-> lastServer]
  BY DEF SetAside, Ask, ClientOnly, user
<1>2. lastServer \in 1..Len(hist) /\ lastServer \in Nat /\ fl = {} /\ wire = NoMessage
  BY <1>1, QuietNum, Num DEF NumInv, VersionsInv, Receiving
<1>3. folder' \in Listings /\ dirs' \subseteq Directories /\ todo' \subseteq Places
  <2>1. CASE UNCHANGED <<folder, dirs, todo>>
    BY <2>1, Num
  <2>2. ASSUME NEW p \in todo, p[2] < MaxDepth, Move(p, p[2] + 1)
        PROVE  folder' \in Listings /\ dirs' \subseteq Directories /\ todo' \subseteq Places
    <3>1. p \in Places /\ p[2] + 1 \in 0..MaxDepth
      BY <2>2, Num DEF Places, MaxDepth
    <3> QED BY <2>2, <3>1, MoveType, Moved, Num
  <2> QED BY <1>1, <2>1, <2>2
<1>4. (local \cup fl \subseteq Rows)' /\ \A r \in local' : r.ver \in 1..Len(hist)
  BY <1>1, Num, ListNum
<1>5. TypeOK' /\ hist' \in Seq(Listings)
  BY <1>1, <1>2, <1>3, <1>4, ClientNum, Num DEF Working, NoMessage
<1>6. WireInv' /\ InSessionInv'
  BY <1>1, <1>2 DEF WireInv, InSessionInv, Messages, WithPlace, WithContent, AsksAt,
                    Answered, Asked, Sending, NoMessage, Receiving
<1>7. VersionsInv'
  BY <1>1, <1>2, <1>4, ListNum DEF VersionsInv, Answered, Asked, Sending, server, NoMessage,
                                   Receiving
<1>8. LastInv'
  BY <1>1 DEF NumInv, LastInv
<1> QED BY <1>4, <1>5, <1>6, <1>7, <1>8 DEF NumInv

\* The file behind the reply is the next message.
LEMMA RestoreBeginsNum ==
  ASSUME NumInv, RestoreBegins
  PROVE  NumInv'
<1>1. /\ UNCHANGED <<server, local, written, edits, others, faults, claimed, folder, dirs>>
      /\ UNCHANGED <<lastServer, lastLocal, version, fl, todo>>
      /\ pc = "restore" /\ wire.to = "client" /\ wire.kind = "begin" /\ wire # NoMessage
      /\ pc' = "receive"
      /\ wire' = [to |-> "client", kind |-> "file", place |-> wire.place,
                  content |-> wire.content]
  BY DEF RestoreBegins, Answered, Answer, ClientOnly, user, client, NoMessage
<1>2. /\ wire.place \in Places /\ wire.content \in Contents /\ wire.content \in Nat
      /\ lastServer > 0 /\ \A r \in fl : r.ver <= lastServer
      /\ session = "restore" /\ wire.place \in DOMAIN draft
  BY <1>1, NatContents DEF NumInv, WireInv, WithPlace, WithContent, VersionsInv, InSessionInv,
                           Receiving
<1>3. (local \cup fl \subseteq Rows)' /\ \A r \in local' : r.ver \in 1..Len(hist)
  BY <1>1, Num, ListNum
<1>4. TypeOK' /\ hist' \in Seq(Listings)
  BY <1>1, <1>3, ClientNum, Num DEF Working
<1>5. WireInv' /\ InSessionInv'
  BY <1>1, <1>2 DEF WireInv, InSessionInv, Messages, WithPlace, WithContent, AnswersAt,
                    Answered, Asked, Sending, Receiving, server
<1>6. VersionsInv'
  BY <1>1, <1>2, <1>3, ListNum DEF VersionsInv, Answered, Asked, Sending, Receiving, server
<1>7. LastInv'
  BY <1>1 DEF NumInv, LastInv
<1> QED BY <1>3, <1>4, <1>5, <1>6, <1>7 DEF NumInv

\* A file of a restore is stored, or refused.
LEMMA RestoringNum ==
  ASSUME NumInv, StoreFile \/ RejectFile
  PROVE  NumInv'
<1> DEFINE row == Row(wire.place, wire.content, lastServer, FALSE)
<1>1. /\ UNCHANGED <<server, local, written, edits, others, claimed>>
      /\ UNCHANGED <<pc, lastServer, lastLocal, version, todo>>
      /\ pc = "receive" /\ wire.to = "client" /\ wire.kind = "file" /\ wire # NoMessage
      /\ folder' \in {folder, Put(folder, wire.place, wire.content)}
      /\ dirs' = dirs \/ MakeDir(wire.place[2])
      /\ fl' \subseteq fl \cup {row}
      /\ \/ wire' = NoMessage
         \/ \E k \in {"ack", "nack"} :
              wire' = [to |-> "server", kind |-> k, place |-> wire.place, content |-> 0]
  <2> HIDE DEF row
  <2>1. CASE StoreFile
    BY <2>1 DEF StoreFile, Answered, Ask, ClientOnly, user, NoMessage, row
  <2>2. CASE RejectFile
    BY <2>2 DEF RejectFile, Answered, Ask, user, client, NoMessage
  <2> QED BY <2>1, <2>2
<1>2. faults' \in 0..MaxFaults
  <2>1. faults < MaxFaults /\ faults' = faults + 1 => faults' \in 0..MaxFaults
    BY SyncAssumption, Num
  <2> QED BY <2>1, Num DEF StoreFile, RejectFile, MayFail, ClientOnly
<1>3. /\ wire.place \in Places /\ wire.content \in Contents
      /\ lastServer \in 1..Len(hist) /\ lastServer \in Nat
      /\ session = "restore" /\ wire.place \in DOMAIN draft
      /\ \A r \in fl : r.ver <= lastServer
  BY <1>1, Num DEF NumInv, WireInv, WithPlace, WithContent, VersionsInv, InSessionInv, Receiving
<1>4. folder' \in Listings /\ dirs' \subseteq Directories
  BY <1>1, <1>3, PutType, MakeDirType, Num
<1>5. row \in Rows /\ row.ver = lastServer
  BY <1>3 DEF Row, Rows
<1> HIDE DEF row
<1>6. \A r \in fl' : r \in Rows /\ r.ver >= 1 /\ r.ver <= lastServer
  BY <1>1, <1>3, <1>5, ListNum
<1>7. (local \cup fl \subseteq Rows)' /\ \A r \in local' : r.ver \in 1..Len(hist)
  BY <1>1, <1>6, Num, ListNum
<1>8. TypeOK' /\ hist' \in Seq(Listings)
  BY <1>1, <1>2, <1>4, <1>7, ClientNum, Num DEF NoMessage
<1>9. WireInv'
  BY <1>1, <1>3 DEF WireInv, Messages, WithPlace, WithContent, AsksAt, NoMessage
<1>10. VersionsInv'
  BY <1>1, <1>3, <1>6, <1>7, ListNum DEF VersionsInv, Answered, Asked, Sending, server, NoMessage,
                                         Receiving
<1>11. InSessionInv'
  BY <1>1, <1>3 DEF InSessionInv, Answered, Asked, Sending, server, NoMessage, Receiving
<1>12. LastInv'
  BY <1>1 DEF NumInv, LastInv
<1> QED BY <1>7, <1>8, <1>9, <1>10, <1>11, <1>12 DEF NumInv

LEMMA RestoreStopNum ==
  ASSUME NumInv, RestoreStop
  PROVE  NumInv'
<1>1. /\ UNCHANGED <<server, local, written, edits, others, faults, claimed, folder, dirs>>
      /\ UNCHANGED <<lastServer, lastLocal, fl, todo>>
      /\ pc = "receive" /\ pc' = "clear" /\ wire' = NoMessage /\ version' = lastServer
  BY DEF RestoreStop, Answered, GoOn, ClientOnly, user
<1>2. lastServer \in 0..Len(hist) /\ Len(hist) \in Nat /\ \A r \in fl : r.ver <= lastServer
  BY <1>1, Num DEF NumInv, VersionsInv, Receiving
<1>3. (local \cup fl \subseteq Rows)' /\ \A r \in local' : r.ver \in 1..Len(hist)
  BY <1>1, Num, ListNum
<1>4. TypeOK' /\ hist' \in Seq(Listings)
  BY <1>1, <1>3, ClientNum, Num DEF NoMessage, Working
<1>5. WireInv' /\ InSessionInv'
  BY <1>1 DEF WireInv, InSessionInv, Answered, Asked, Sending, NoMessage, Receiving
<1>6. VersionsInv'
  <2>1. \A r \in fl : r.ver <= Len(hist)
    BY <1>2, ListNum
  <2> QED BY <1>1, <1>3, <2>1, ListNum DEF VersionsInv, Answered, Asked, Sending, server, NoMessage,
                                           Receiving
<1>7. LastInv'
  BY <1>1 DEF NumInv, LastInv
<1> QED BY <1>3, <1>4, <1>5, <1>6, <1>7 DEF NumInv

LEMMA RestoreErrorNum ==
  ASSUME NumInv, RestoreError
  PROVE  NumInv'
<1>1. /\ UNCHANGED <<server, local, written, edits, others, faults, claimed, folder, dirs>>
      /\ UNCHANGED <<lastServer, lastLocal, version, fl>>
      /\ pc' = "putback" /\ wire' = NoMessage
      /\ todo' = {p \in DOMAIN folder : p[2] > 0}
  BY DEF RestoreError, LeaveRestore, GoOn, ClientOnly, user
<1>2. todo' \subseteq Places
  BY <1>1, Num, ListingType
<1> QED BY <1>1, <1>2, RestNum, Num

LEMMA PutBackNum ==
  ASSUME NumInv, PutBack
  PROVE  NumInv'
<1>1. /\ UNCHANGED <<server, local, written, edits, others, faults, claimed>>
      /\ UNCHANGED <<lastServer, lastLocal, version, fl>>
      /\ pc = "putback"
      /\ \/ /\ pc' = "putback" /\ wire' = wire
            /\ \E p \in todo : Move(p, p[2] - 1)
         \/ pc' = "idle" /\ wire' = NoMessage /\ folder' = Root(folder) /\ todo' = todo
            /\ dirs' = dirs \ {"LOCAL_NO_SYNCH"}
  BY DEF PutBack, Fails, GoOn, ClientOnly, user
<1>2. wire' = NoMessage
  BY <1>1, QuietNum
<1>3. \A p \in todo : p[2] > 0
  BY <1>1 DEF NumInv, InSessionInv, Receiving
<1>4. folder' \in Listings /\ dirs' \subseteq Directories /\ todo' \subseteq todo
  <2>1. CASE folder' = Root(folder) /\ todo' = todo /\ dirs' = dirs \ {"LOCAL_NO_SYNCH"}
    BY <2>1, RootType, Num
  <2>2. ASSUME NEW p \in todo, Move(p, p[2] - 1)
        PROVE  folder' \in Listings /\ dirs' \subseteq Directories /\ todo' \subseteq todo
    <3>1. p \in Places /\ p[2] - 1 \in 0..MaxDepth
      BY <1>3, <2>2, Num DEF Places, MaxDepth
    <3> QED BY <2>2, <3>1, MoveType, Moved, Num
  <2> QED BY <1>1, <2>1, <2>2
<1> QED BY <1>1, <1>2, <1>3, <1>4, RestNum, Num


LEMMA UpdateStartedNum ==
  ASSUME NumInv, UpdateStarted
  PROVE  NumInv'
<1>1. /\ UNCHANGED <<server, local, written, edits, others, faults, claimed, folder, dirs>>
      /\ UNCHANGED <<lastServer, lastLocal, version>>
      /\ pc = "start" /\ wire.to = "client" /\ wire.kind = "ok"
      /\ pc' = "send" /\ wire' = NoMessage /\ todo' = DOMAIN folder
      /\ fl' = {[r EXCEPT !.toRemove = TRUE] : r \in RowsOf(lastLocal)}
  BY DEF UpdateStarted, Answered, GoOn, ClientOnly, user
<1>2. session = "update" /\ lastLocal <= lastServer
  BY <1>1 DEF NumInv, VersionsInv, InSessionInv, Answered, Receiving
<1>3. \A r \in fl' : r \in Rows /\ r.toRemove /\ r.ver >= 1 /\ r.ver <= lastServer
  <2>1. \A r \in fl' : \E x \in local :
          x.ver = lastLocal /\ r = Row(x.place, x.sum, lastLocal, TRUE)
    <3>1. \A x \in local : [x EXCEPT !.toRemove = TRUE] = Row(x.place, x.sum, x.ver, TRUE)
      BY Marked, ListNum
    <3> QED BY <1>1, <3>1 DEF RowsOf
  <2>2. ASSUME NEW r \in fl' PROVE r \in Rows /\ r.toRemove /\ r.ver >= 1 /\ r.ver <= lastServer
    <3>1. PICK x \in local : x.ver = lastLocal /\ r = Row(x.place, x.sum, lastLocal, TRUE)
      BY <2>1
    <3>2. x \in Rows /\ lastLocal >= 1 /\ lastLocal \in Nat
      BY <3>1, ListNum
    <3> QED BY <1>2, <3>1, <3>2 DEF Row, Rows
  <2> QED BY <2>2
<1>4. todo' \subseteq Places
  BY <1>1, Num, ListingType
<1>5. (local \cup fl \subseteq Rows)' /\ \A r \in local' : r.ver \in 1..Len(hist)
  BY <1>1, <1>3, Num, ListNum
<1>6. TypeOK' /\ hist' \in Seq(Listings)
  BY <1>1, <1>4, <1>5, ClientNum, Num DEF NoMessage, Working
<1>7. WireInv' /\ InSessionInv'
  BY <1>1, <1>2, <1>3 DEF WireInv, InSessionInv, Answered, Asked, Sending, server, NoMessage,
                          Receiving
<1>8. VersionsInv'
  BY <1>1, <1>2, <1>3, <1>5, ListNum DEF VersionsInv, Answered, Asked, Sending, server, NoMessage,
                                         Receiving
<1>9. LastInv'
  BY <1>1 DEF NumInv, LastInv
<1> QED BY <1>5, <1>6, <1>7, <1>8, <1>9 DEF NumInv

\* An update goes on: its rows are still of the version it began with and of the
\* one it makes.
LEMMA SendingNum ==
  ASSUME NumInv, pc \in Sending,
         UNCHANGED <<server, local, written, edits, others, faults, claimed, folder, dirs>>,
         UNCHANGED <<lastServer, lastLocal, version>>,
         pc' \in {"stop"} \cup Sending, todo' \subseteq Places,
         pc' \in {"send", "added"} => \A r \in fl' : r.place \in todo' => r.toRemove,
         pc' = "added" /\ wire' # NoMessage => wire'.place \notin todo',
         \A r \in fl' : /\ r \in Rows /\ r.ver >= 1
                        /\ r.ver <= IF r.toRemove THEN lastServer ELSE lastServer + 1,
         \/ wire' = NoMessage
         \/ \E p \in Places, c \in Contents :
              \/ /\ pc' = "added"
                 /\ wire' = [to |-> "server", kind |-> "add", place |-> p, content |-> c]
              \/ /\ pc' = "removed"
                 /\ wire' = [to |-> "server", kind |-> "remove", place |-> p, content |-> 0]
         \/ /\ pc' = "stop"
            /\ wire' = [to |-> "server", kind |-> "stop", place |-> NoPlace, content |-> 0]
  PROVE  NumInv'
<1>1. session' = "update" /\ lastLocal' <= lastServer'
  BY DEF NumInv, VersionsInv, InSessionInv, server, Receiving
<1>2. (local \cup fl \subseteq Rows)' /\ \A r \in local' : r.ver \in 1..Len(hist)
  BY Num, ListNum
<1>3. wire'.to \in {"nobody", "server"} /\ pc' \in Working
  BY DEF NoMessage, Working, Sending
<1>4. TypeOK' /\ hist' \in Seq(Listings)
  BY <1>2, <1>3, ClientNum, Num
<1>5. WireInv'
  BY NatContents DEF WireInv, Messages, WithPlace, WithContent, AsksAt
<1>6. wire' # NoMessage => wire'.to = "server" /\ wire'.kind \in {"add", "remove", "stop"}
  OBVIOUS
<1>7. VersionsInv'
  BY <1>1, <1>2, <1>3, <1>6, ListNum DEF VersionsInv, Answered, Asked, Sending, server, NoMessage,
                                         Receiving
<1>8. InSessionInv'
  BY <1>1, <1>3 DEF InSessionInv, Answered, Sending, Receiving
<1>9. LastInv'
  BY DEF NumInv, LastInv
<1> QED BY <1>2, <1>4, <1>5, <1>7, <1>8, <1>9 DEF NumInv

LEMMA RowsNum ==
  ASSUME NumInv, pc \in Sending
  PROVE  /\ lastServer \in Nat
         /\ \A r \in fl : /\ r \in Rows /\ r.ver >= 1 /\ r.ver \in Nat
                          /\ r.ver <= IF r.toRemove THEN lastServer ELSE lastServer + 1
BY Num, ListNum DEF NumInv, VersionsInv, Receiving

LEMMA ProcessFileNum ==
  ASSUME NumInv, ProcessFile
  PROVE  NumInv'
<1>1. /\ UNCHANGED <<server, local, written, edits, others, faults, claimed, folder, dirs>>
      /\ UNCHANGED <<lastServer, lastLocal, version>>
      /\ pc = "send" /\ pc \in Sending /\ wire = NoMessage
  BY QuietNum DEF ProcessFile, ClientOnly, user, Sending
<1>2. PICK p \in todo :
        /\ todo' = todo \ {p}
        /\ LET rows == {r \in fl : r.place = p} IN
           \/ UNCHANGED <<pc, wire, fl>>
           \/ /\ fl' = (fl \ rows) \cup {Row(p, r.sum, r.ver + 1, FALSE) : r \in rows}
              /\ UNCHANGED <<pc, wire>>
           \/ /\ p \in DOMAIN folder /\ fl' = fl \ rows /\ pc' = "added"
              /\ wire' = [to |-> "server", kind |-> "add", place |-> p, content |-> folder[p]]
  BY DEF ProcessFile, Ask
<1>3. p \in Places /\ todo' \subseteq Places /\ (p \in DOMAIN folder => folder[p] \in Contents)
  BY <1>2, Num, ListingType
<1>4. \A r \in fl : r.place = p => r.toRemove /\ r.ver <= lastServer
  BY <1>1, <1>2, RowsNum DEF NumInv, InSessionInv, Receiving
<1>5. \A r \in fl' :
        /\ r \in Rows /\ r.ver >= 1
        /\ r.ver <= IF r.toRemove THEN lastServer ELSE lastServer + 1
        /\ r.place \in todo' => r \in fl
  <2> SUFFICES ASSUME NEW r \in fl'
               PROVE  /\ r \in Rows /\ r.ver >= 1
                      /\ r.ver <= IF r.toRemove THEN lastServer ELSE lastServer + 1
                      /\ r.place \in todo' => r \in fl
    OBVIOUS
  <2>1. CASE r \in fl
    BY <1>1, <2>1, RowsNum
  <2>2. CASE r \notin fl
    <3>1. PICK x \in fl : x.place = p /\ r = Row(p, x.sum, x.ver + 1, FALSE)
      BY <1>2, <2>2
    <3>2. x \in Rows /\ x.ver >= 1 /\ x.ver \in Nat /\ x.ver <= lastServer /\ lastServer \in Nat
      BY <1>1, <1>4, <3>1, RowsNum
    <3>3. r \in Rows /\ r.ver = x.ver + 1 /\ ~ r.toRemove /\ r.place = p
      BY <1>3, <3>1, <3>2 DEF Row, Rows
    <3> QED BY <1>2, <3>2, <3>3
  <2> QED BY <2>1, <2>2
<1>6. \A r \in fl' : r.place \in todo' => r.toRemove
  BY <1>1, <1>2, <1>5 DEF NumInv, InSessionInv, Receiving
<1>7. \/ pc' = "send" /\ wire' = NoMessage
      \/ /\ pc' = "added" /\ folder[p] \in Contents
         /\ wire' = [to |-> "server", kind |-> "add", place |-> p, content |-> folder[p]]
  BY <1>1, <1>2, <1>3
<1>8. pc' = "added" => wire'.place \notin todo'
  BY <1>2, <1>7
<1>9. pc' \in {"stop"} \cup Sending
  BY <1>7 DEF Sending
<1> QED BY <1>1, <1>3, <1>5, <1>6, <1>7, <1>8, <1>9, SendingNum

LEMMA FileAddedNum ==
  ASSUME NumInv, FileAdded
  PROVE  NumInv'
<1> DEFINE row == Row(wire.place, wire.content, NextVersion, FALSE)
<1>1. /\ UNCHANGED <<server, local, written, edits, others, faults, claimed, folder, dirs>>
      /\ UNCHANGED <<lastServer, lastLocal, version, todo>>
      /\ pc = "added" /\ pc \in Sending
      /\ wire.to = "client" /\ wire.kind = "ok" /\ wire # NoMessage
      /\ pc' = "send" /\ wire' = NoMessage /\ fl' = fl \cup {row}
  BY DEF FileAdded, Answered, GoOn, ClientOnly, user, NoMessage, Sending
<1>2. wire.place \in Places /\ wire.content \in Contents /\ wire.place \notin todo
  BY <1>1 DEF NumInv, WireInv, InSessionInv, Receiving
<1>3. /\ row \in Rows /\ row.ver >= 1 /\ row.ver = lastServer + 1 /\ ~ row.toRemove
      /\ row.place \notin todo
  BY <1>1, <1>2, RowsNum DEF Row, Rows, NextVersion
<1> HIDE DEF row
<1>4. \A r \in fl' : /\ r \in Rows /\ r.ver >= 1
                     /\ r.ver <= IF r.toRemove THEN lastServer ELSE lastServer + 1
  BY <1>1, <1>3, RowsNum
<1>5. \A r \in fl' : r.place \in todo' => r.toRemove
  BY <1>1, <1>3 DEF NumInv, InSessionInv, Receiving
<1>6. pc' \in {"stop"} \cup Sending /\ todo' \subseteq Places
  BY <1>1, Num DEF Sending
<1> QED BY <1>1, <1>4, <1>5, <1>6, SendingNum

LEMMA StartRemovingNum ==
  ASSUME NumInv, StartRemoving
  PROVE  NumInv'
<1>1. /\ UNCHANGED <<server, local, written, edits, others, faults, claimed, folder, dirs>>
      /\ UNCHANGED <<lastServer, lastLocal, version, fl>>
      /\ pc = "send" /\ pc \in Sending /\ pc' \in {"dead", "remove"} /\ wire' = NoMessage
      /\ todo' = {r.place : r \in {x \in fl : x.toRemove}}
  BY DEF StartRemoving, GoOn, ClientOnly, user, Sending
<1>2. todo' \subseteq Places
  BY <1>1, Num DEF Rows
<1>3. CASE pc' = "dead"
  BY <1>1, <1>2, <1>3, RestNum, Num
<1>4. CASE pc' = "remove"
  <2>1. pc' \in {"stop"} \cup Sending
    BY <1>4 DEF Sending
  <2> QED BY <1>1, <1>2, <1>4, <2>1, RowsNum, SendingNum
<1> QED BY <1>1, <1>3, <1>4

LEMMA RemovalsNum ==
  ASSUME NumInv, RemoveNext \/ FileRemoved \/ StopUpdate
  PROVE  NumInv'
<1>1. /\ UNCHANGED <<server, local, written, edits, others, faults, claimed, folder, dirs>>
      /\ UNCHANGED <<lastServer, lastLocal, version, fl>>
      /\ pc \in {"remove", "removed"} /\ pc' \in {"remove", "removed", "stop"}
      /\ todo' \subseteq todo
      /\ \/ wire' = NoMessage
         \/ \E p \in todo :
              /\ pc' = "removed"
              /\ wire' = [to |-> "server", kind |-> "remove", place |-> p, content |-> 0]
         \/ /\ pc' = "stop"
            /\ wire' = [to |-> "server", kind |-> "stop", place |-> NoPlace, content |-> 0]
  <2>1. CASE RemoveNext
    BY <2>1 DEF RemoveNext, Ask, ClientOnly, user
  <2>2. CASE FileRemoved
    BY <2>2 DEF FileRemoved, Answered, GoOn, ClientOnly, user
  <2>3. CASE StopUpdate
    BY <2>3 DEF StopUpdate, Ask, ClientOnly, user, client
  <2> QED BY <2>1, <2>2, <2>3
<1>2. pc \in Sending /\ pc' \in {"stop"} \cup Sending
  BY <1>1 DEF Sending
<1>3. todo \subseteq Places /\ todo' \subseteq Places /\ 0 \in Contents
  BY <1>1, Num, NatContents
<1>4. pc' \notin {"send", "added"}
  BY <1>1
<1>5. \A r \in fl' : /\ r \in Rows /\ r.ver >= 1
                     /\ r.ver <= IF r.toRemove THEN lastServer ELSE lastServer + 1
  BY <1>1, <1>2, RowsNum
<1>6. \/ wire' = NoMessage
      \/ \E p \in Places, c \in Contents :
           \/ /\ pc' = "added"
              /\ wire' = [to |-> "server", kind |-> "add", place |-> p, content |-> c]
           \/ /\ pc' = "removed"
              /\ wire' = [to |-> "server", kind |-> "remove", place |-> p, content |-> 0]
      \/ /\ pc' = "stop"
         /\ wire' = [to |-> "server", kind |-> "stop", place |-> NoPlace, content |-> 0]
  BY <1>1, <1>3
<1> QED BY <1>1, <1>2, <1>3, <1>4, <1>5, <1>6, SendingNum

LEMMA RefusedNum ==
  ASSUME NumInv, UpdateRefused \/ FileRefused
  PROVE  NumInv'
<1>1. /\ UNCHANGED <<server, local, written, edits, others, faults, claimed, folder, dirs>>
      /\ UNCHANGED <<lastServer, lastLocal, version, fl, todo>>
      /\ pc' \in {"idle", "dead"} /\ wire' = NoMessage
  BY DEF UpdateRefused, FileRefused, Fails, GoOn, ClientOnly, user, client
<1> QED BY <1>1, RestNum, Num

LEMMA UpdateStoppedNum ==
  ASSUME NumInv, UpdateStopped
  PROVE  NumInv'
<1>1. /\ UNCHANGED <<server, local, written, edits, others, faults, folder, dirs>>
      /\ UNCHANGED <<lastServer, lastLocal, fl, todo>>
      /\ pc = "stop" /\ wire.to = "client" /\ wire' = NoMessage
      /\ \/ /\ wire.kind = "ok" /\ wire.content > 0 /\ version' = wire.content
            /\ pc' = "clear" /\ claimed' = claimed
         \/ pc' = "idle" /\ claimed' \in {0, lastServer} /\ version' = version
         \/ pc' \in {"silent", "idle"} /\ claimed' = claimed /\ version' = version
  BY DEF UpdateStopped, Answered, GoOn, Success, ClientOnly, user
<1>2. CASE pc' \in {"silent", "idle"} /\ claimed' \in {0, lastServer, claimed} /\ version' = version
  BY <1>1, <1>2, RestNum, Num
<1>3. CASE /\ wire.kind = "ok" /\ wire.content > 0 /\ version' = wire.content
           /\ pc' = "clear" /\ claimed' = claimed
  <2>1. wire.content \in lastServer + 1..Len(hist)
    BY <1>1, <1>3 DEF NumInv, VersionsInv, Answered, Receiving
  <2>2. \A r \in fl : r.ver <= lastServer + 1
    BY <1>1, Num, ListNum DEF NumInv, VersionsInv, Receiving
  <2>3. wire.content \in 0..Len(hist) /\ \A r \in fl : r.ver <= Len(hist)
    BY <2>1, <2>2, Num, ListNum
  <2>4. (local \cup fl \subseteq Rows)' /\ \A r \in local' : r.ver \in 1..Len(hist)
    BY <1>1, Num, ListNum
  <2>5. TypeOK' /\ hist' \in Seq(Listings)
    BY <1>1, <1>3, <2>3, <2>4, ClientNum, Num DEF NoMessage, Working
  <2>6. WireInv' /\ InSessionInv'
    BY <1>1, <1>3 DEF WireInv, InSessionInv, Answered, Asked, Sending, NoMessage, Receiving
  <2>7. VersionsInv'
    BY <1>1, <1>3, <2>3, <2>4, ListNum DEF VersionsInv, Answered, Asked, Sending, server, NoMessage,
                                           Receiving
  <2>8. LastInv'
    BY <1>1 DEF NumInv, LastInv
  <2> QED BY <2>4, <2>5, <2>6, <2>7, <2>8 DEF NumInv
<1> QED BY <1>1, <1>2, <1>3

\* Replacing the list: the rows that go and the rows that come.
LEMMA ReplacingNum ==
  ASSUME NumInv, pc \in {"clear", "insert"},
         UNCHANGED <<server, written, edits, others, faults, claimed, folder, dirs>>,
         UNCHANGED <<lastServer, lastLocal, version, todo>>,
         pc' = "insert", wire' = NoMessage, fl' \subseteq fl,
         \A r \in local' : r \in Rows /\ r.ver \in 1..Len(hist),
         LastInv'
  PROVE  NumInv'
<1>1. \A r \in fl : r.ver <= Len(hist) /\ r.ver >= 1
  BY ListNum DEF NumInv, VersionsInv, Receiving
<1>2. (local \cup fl \subseteq Rows)' /\ \A r \in local' : r.ver \in 1..Len(hist)
  BY Num
<1>3. TypeOK' /\ hist' \in Seq(Listings)
  BY <1>2, ClientNum, Num DEF NoMessage, Working
<1>4. WireInv' /\ InSessionInv'
  BY DEF WireInv, InSessionInv, Answered, Asked, Sending, NoMessage, Receiving
<1>5. VersionsInv'
  BY <1>1, <1>2, Num DEF VersionsInv, Answered, Asked, Sending, server, NoMessage, Receiving
<1> QED BY <1>2, <1>3, <1>4, <1>5 DEF NumInv

LEMMA RemoveFileListNum ==
  ASSUME NumInv, RemoveFileList
  PROVE  NumInv'
<1>1. /\ UNCHANGED <<server, written, edits, others, faults, claimed, folder, dirs>>
      /\ UNCHANGED <<lastServer, lastLocal, version, fl, todo>>
      /\ pc = "clear" /\ pc' = "insert" /\ wire' = NoMessage /\ local' = {}
  BY DEF RemoveFileList, GoOn, ClientOnly, user, client
<1>2. LastInv'
  BY <1>1 DEF LastInv
<1> QED BY <1>1, <1>2, ReplacingNum

LEMMA InsertFileListNum ==
  ASSUME NumInv, InsertFileList
  PROVE  NumInv'
<1>1. /\ UNCHANGED <<server, written, edits, others, faults, folder, dirs>>
      /\ UNCHANGED <<lastServer, lastLocal, version, todo>>
      /\ pc = "insert"
      /\ \/ /\ \E r \in fl : local' = local \cup {[r EXCEPT !.toRemove = FALSE]}
            /\ fl' \subseteq fl /\ UNCHANGED <<pc, wire, claimed>>
         \/ /\ pc' = "idle" /\ wire' = NoMessage /\ claimed' \in {0, version}
            /\ UNCHANGED <<local, fl>>
  BY DEF InsertFileList, Success, GoOn, ClientOnly, user
<1>2. CASE pc' = "idle" /\ wire' = NoMessage /\ claimed' \in {0, version} /\ UNCHANGED <<local, fl>>
  BY <1>1, <1>2, RestNum, Num
<1>3. ASSUME NEW r \in fl, local' = local \cup {[r EXCEPT !.toRemove = FALSE]},
             fl' \subseteq fl, UNCHANGED <<pc, wire, claimed>>
      PROVE  NumInv'
  <2> DEFINE row == Row(r.place, r.sum, r.ver, FALSE)
  <2>1. r \in Rows /\ r.ver \in 1..Len(hist) /\ wire = NoMessage
    BY <1>1, ListNum, QuietNum, Num DEF NumInv, VersionsInv, Receiving
  <2>2. local' = local \cup {row}
    BY <1>3, <2>1, Marked
  <2>3. row \in Rows /\ row.ver \in Nat /\ row.ver \in 1..Len(hist)
    BY <2>1 DEF Rows, Row
  <2> HIDE DEF row
  <2>4. \A s \in local' : s \in Rows /\ s.ver \in 1..Len(hist)
    BY <2>2, <2>3, ListNum
  <2>5. LastInv'
    <3>1. CASE local = {}
      BY <2>2, <2>3, <3>1 DEF LastInv
    <3>2. CASE local # {}
      <4>1. PICK last \in local : \A s \in local : s.ver <= last.ver
        BY <3>2 DEF NumInv, LastInv
      <4>2. \A s \in local : s.ver \in Nat
        BY ListNum
      <4>3. CASE row.ver <= last.ver
        BY <2>2, <4>1, <4>3 DEF LastInv
      <4>4. CASE ~ row.ver <= last.ver
        <5>1. \A s \in local' : s.ver <= row.ver
          BY <2>2, <2>3, <4>1, <4>2, <4>4
        <5> QED BY <2>2, <5>1 DEF LastInv
      <4> QED BY <4>3, <4>4
    <3> QED BY <3>1, <3>2
  <2> QED BY <1>1, <1>3, <2>1, <2>4, <2>5, ReplacingNum
<1> QED BY <1>1, <1>2, <1>3

LEMMA FaultNum ==
  ASSUME NumInv, NEW kind, MayFail(kind)
  PROVE  faults' \in 0..MaxFaults
BY SyncAssumption, Num DEF MayFail

LEMMA LocalErrorNum ==
  ASSUME NumInv, LocalError
  PROVE  NumInv'
<1>1. /\ UNCHANGED <<server, local, written, edits, others, folder, dirs>>
      /\ UNCHANGED <<lastServer, lastLocal, version, fl>>
      /\ wire' = NoMessage /\ claimed' \in {0, claimed, version}
      /\ \/ pc' = "putback" /\ todo' = {p \in DOMAIN folder : p[2] > 0}
         \/ pc' = "idle" /\ todo' = todo
  BY DEF LocalError, LeaveRestore, Success, Fails, GoOn, user
<1>2. faults' \in 0..MaxFaults
  BY FaultNum DEF LocalError
<1>3. todo' \subseteq Places
  BY <1>1, Num, ListingType
<1> QED BY <1>1, <1>2, <1>3, RestNum, Num

LEMMA CrashNum ==
  ASSUME NumInv, Crash \/ Restart
  PROVE  NumInv'
<1>1. /\ UNCHANGED <<server, local, written, edits, others, folder, dirs>>
      /\ UNCHANGED <<lastServer, lastLocal, version, fl, todo>>
      /\ pc' \in {"idle", "dead"} /\ wire' = NoMessage /\ claimed' \in {0, claimed}
  BY DEF Crash, Restart, GoOn, user, client
<1>2. faults' \in 0..MaxFaults
  BY FaultNum, Num DEF Crash, Restart
<1> QED BY <1>1, <1>2, RestNum, Num

\* A message that is lost or given up, or a request that is answered with an error.
LEMMA MessageFaultsNum ==
  ASSUME NumInv, Lose \/ ReadAhead \/ RequestFails
  PROVE  NumInv'
<1>1. /\ UNCHANGED <<pc, folder, dirs, local, client, hist, claimed, user>>
      /\ \/ wire' = NoMessage /\ UNCHANGED <<session, draft, changed>>
         \/ /\ wire.to = "server" /\ wire # NoMessage
            /\ wire' = [to |-> "client", kind |-> "error", place |-> wire.place, content |-> 0]
            /\ \/ UNCHANGED <<session, draft, changed>>
               \/ pc = "stop" /\ session' = "none" /\ draft' = <<>> /\ changed' = FALSE
  <2>1. CASE Lose \/ ReadAhead
    BY <2>1 DEF Lose, ReadAhead, ServerFault
  <2>2. CASE RequestFails
    <3>1. wire.to = "server" /\ wire # NoMessage
      BY <2>2 DEF RequestFails, NoMessage
    <3>2. Asked("stop") => pc = "stop"
      BY <3>1 DEF NumInv, WireInv, AsksAt, Asked
    <3> QED BY <2>2, <3>1, <3>2 DEF RequestFails, Answer, ServerFault, CloseSession
  <2> QED BY <2>1, <2>2
<1>2. faults' \in 0..MaxFaults
  BY FaultNum DEF Lose, ReadAhead, RequestFails
<1>3. wire'.to \in {"nobody", "client"} /\ (wire'.to = "client" => wire'.kind = "error")
  BY <1>1 DEF NoMessage
<1>4. /\ TypeOK' /\ hist' \in Seq(Listings) /\ (local \cup fl \subseteq Rows)' /\ LastInv'
      /\ Len(hist') \in Nat /\ Len(hist') >= Len(hist)
  BY <1>1, <1>2, <1>3, EmptyType, ServerNum, Num
<1>5. WireInv'
  BY <1>1 DEF NumInv, WireInv, Messages, WithPlace, WithContent, AsksAt, AnswersAt
<1>6. VersionsInv'
  BY <1>1, <1>3, <1>4, VersionsStay DEF Answered, Asked
<1>7. InSessionInv'
  BY <1>1, <1>3 DEF NumInv, InSessionInv, Answered, Asked, Sending, client, NoMessage, Receiving
<1> QED BY <1>4, <1>5, <1>6, <1>7 DEF NumInv

LEMMA FreshNum ==
  ASSUME NumInv, edits < MaxEdits \/ others < MaxOthers
  PROVE  Fresh \in Contents
<1>1. edits \in 0..MaxEdits /\ others \in 0..MaxOthers /\ MaxEdits \in Nat /\ MaxOthers \in Nat
  BY SyncAssumption DEF NumInv, TypeOK
<1> QED BY <1>1 DEF Fresh, Contents

LEMMA UserEditsNum ==
  ASSUME NumInv, UserEdits
  PROVE  NumInv'
<1>1. /\ UNCHANGED <<pc, wire, dirs, local, client, server, others, faults>>
      /\ edits < MaxEdits /\ edits' = edits + 1 /\ claimed' = 0
      /\ \E f \in Files : UserWrites(f) \/ UserDeletes(f)
  BY DEF UserEdits
<1>2. /\ folder' \in Listings
      /\ written' \in UNION {[S -> Contents] : S \in SUBSET Files}
  <2>1. PICK f \in Files : UserWrites(f) \/ UserDeletes(f)
    BY <1>1
  <2>2. /\ folder \in Listings /\ <<f, 0>> \in Places
        /\ written \in UNION {[S -> Contents] : S \in SUBSET Files}
    BY <2>1 DEF NumInv, TypeOK, Places, MaxDepth
  <2>3. CASE UserWrites(f)
    <3>1. PICK c \in {Fresh, 0} :
            /\ folder' = Put(folder, <<f, 0>>, c)
            /\ written' \in {Drop(written, f), Put(written, f, c)}
      BY <2>3 DEF UserWrites
    <3>2. c \in Contents
      BY <1>1, FreshNum, NatContents
    <3> QED BY <2>1, <2>2, <3>1, <3>2, PutType, WrittenType
  <2>4. CASE UserDeletes(f)
    BY <2>1, <2>2, <2>4, DropType, WrittenType, NatContents DEF UserDeletes
  <2> QED BY <2>1, <2>3, <2>4
<1>3. edits' \in 0..MaxEdits
  BY <1>1, SyncAssumption DEF NumInv, TypeOK
<1>4. TypeOK'
  BY <1>1, <1>2, <1>3, Num DEF NumInv, TypeOK, client, server
<1>5. /\ hist' \in Seq(Listings) /\ (local \cup fl \subseteq Rows)' /\ WireInv' /\ LastInv'
  BY <1>1 DEF NumInv, WireInv, LastInv, client, server
<1>6. VersionsInv' /\ InSessionInv'
  BY <1>1 DEF NumInv, VersionsInv, InSessionInv, Answered, Asked, client, server, Receiving
<1> QED BY <1>4, <1>5, <1>6 DEF NumInv

LEMMA UserDirectoriesNum ==
  ASSUME NumInv, UserChangesDirectories
  PROVE  NumInv'
<1>1. /\ UNCHANGED <<pc, wire, folder, local, client, server, claimed, user, faults>>
      /\ dirs' \subseteq Directories
  BY Num DEF UserChangesDirectories
<1>2. TypeOK' /\ hist' \in Seq(Listings)
  BY <1>1 DEF NumInv, TypeOK, client, server, user
<1>3. (local \cup fl \subseteq Rows)' /\ WireInv' /\ LastInv'
  BY <1>1 DEF NumInv, WireInv, LastInv, client, server
<1>4. VersionsInv' /\ InSessionInv'
  BY <1>1 DEF NumInv, VersionsInv, InSessionInv, Answered, Asked, client, server
<1> QED BY <1>2, <1>3, <1>4 DEF NumInv

\* Another device commits, whatever this one does.
LEMMA OtherDeviceNum ==
  ASSUME NumInv, OtherDeviceCommits
  PROVE  NumInv'
<1>1. /\ UNCHANGED <<pc, wire, folder, dirs, local, client, session, draft, changed, claimed,
                     written, edits, faults>>
      /\ others < MaxOthers /\ others' = others + 1
      /\ \E f \in Files : hist' = Append(hist, Put(LastOf(hist), <<f, 0>>, Fresh))
  BY DEF OtherDeviceCommits
<1>2. PICK l \in Listings : hist' = Append(hist, l)
  <2>1. \A f \in Files : <<f, 0>> \in Places
    BY DEF Places, MaxDepth
  <2>2. \A f \in Files : Put(LastOf(hist), <<f, 0>>, Fresh) \in Listings
    BY <1>1, <2>1, Num, FreshNum, PutType
  <2> QED BY <1>1, <2>2
<1>3. hist' \in Seq(Listings) /\ Len(hist') = Len(hist) + 1 /\ Len(hist) \in Nat
  BY <1>2, Num, Appended
<1>4. \A i \in DOMAIN hist' : hist'[i] \in Listings
  BY <1>3
<1>5. others' \in 0..MaxOthers
  BY <1>1, SyncAssumption DEF NumInv, TypeOK
<1>6. TypeOK'
  BY <1>1, <1>3, <1>4, <1>5 DEF NumInv, TypeOK, client
<1>7. (local \cup fl \subseteq Rows)' /\ LastInv' /\ WireInv' /\ InSessionInv'
  BY <1>1 DEF NumInv, LastInv, WireInv, InSessionInv, Answered, Asked, client, Receiving
<1>8. VersionsInv'
  <2>1. /\ Answered("version", "version") => wire.content \in Nat
        /\ lastServer \in Nat
    BY Num DEF NumInv, WireInv, Messages, Answered, NoMessage
  <2> QED BY <1>1, <1>3, <2>1, ListNum DEF NumInv, VersionsInv, Answered, Asked, client, Receiving
<1> QED BY <1>3, <1>6, <1>7, <1>8 DEF NumInv

LEMMA NumInitially ==
  ASSUME Init
  PROVE  NumInv
<1>1. /\ pc = "idle" /\ wire = NoMessage /\ local = {} /\ fl = {}
      /\ TypeOK /\ hist \in Seq(Listings) /\ WireInv
  BY ListInitially DEF Init, ListInv
<1> QED BY <1>1 DEF NumInv, LastInv, VersionsInv, InSessionInv, Answered, Asked, Sending,
                    NoMessage, Receiving

LEMMA StepKeepsNum ==
  ASSUME NumInv, [Next]_vars
  PROVE  NumInv'
<1>1. CASE Client
  BY <1>1, UpdateCurrentVersionNum, ReadLastVersionNum, SetAsideNum, RestoreBeginsNum,
     RestoringNum, RestoreStopNum, RestoreErrorNum, PutBackNum, UpdateStartedNum, RefusedNum,
     ProcessFileNum, FileAddedNum, StartRemovingNum, RemovalsNum, UpdateStoppedNum,
     RemoveFileListNum, InsertFileListNum
     DEF Client
<1>2. CASE Server
  BY <1>2, GetLastVersionNum, UpdateStartNum, DraftChangesNum, UpdateStopNum,
     RestoreVersionNum, RestoreFileAckNum
     DEF Server
<1>3. CASE Environment
  BY <1>3, UserEditsNum, UserDirectoriesNum, OtherDeviceNum, RestoringNum,
     LocalErrorNum, MessageFaultsNum, CrashNum
     DEF Environment
<1>4. CASE SessionExpires \/ Restart
  BY <1>4, SessionExpiresNum, CrashNum
<1>5. CASE UNCHANGED vars
  <2>1. /\ UNCHANGED <<pc, wire, folder, dirs, local, claimed, faults, edited, written>>
        /\ UNCHANGED <<edits, others>>
        /\ UNCHANGED <<lastServer, lastLocal, version, fl, todo, hist, session, draft, changed>>
    BY <1>5 DEF vars, client, server, user
  <2>2. /\ TypeOK' /\ hist' \in Seq(Listings)
        /\ (local \cup fl \subseteq Rows)' /\ WireInv' /\ LastInv'
    BY <2>1 DEF NumInv, TypeOK, WireInv, LastInv
  <2>3. VersionsInv' /\ InSessionInv'
    BY <2>1 DEF NumInv, VersionsInv, InSessionInv, Answered, Asked, Receiving
  <2> QED BY <2>2, <2>3 DEF NumInv
<1> QED BY <1>1, <1>2, <1>3, <1>4, <1>5 DEF Next

\* Every variable keeps its type, and the numbers the client works with are those
\* of versions that exist, whatever is lost, refused or cut off by a crash and
\* whenever another device commits (updateCurrentVersion).
THEOREM NumbersExist == Spec => []TypeOK
<1>1. Init => NumInv
  BY NumInitially
<1>2. NumInv /\ [Next]_vars => NumInv'
  BY StepKeepsNum
<1>3. NumInv => TypeOK
  BY DEF NumInv
<1> QED BY <1>1, <1>2, <1>3, PTL DEF Spec

------------------------------------------------------------------------------
(* What the window says.                                                   *)

LEMMA NonEmptyKept ==
  ASSUME NEW l, NonEmptyFiles(l), NEW p
  PROVE  /\ NonEmptyFiles(Drop(l, p)) /\ NonEmptyFiles(Root(l)) /\ NonEmptyFiles(<<>>)
         /\ \A c : c # 0 => NonEmptyFiles(Put(l, p, c))
<1>1. NonEmptyFiles(Drop(l, p)) /\ NonEmptyFiles(Root(l))
  BY DEF NonEmptyFiles, Drop, Root
<1>2. NonEmptyFiles(<<>>)
  BY EmptyType DEF NonEmptyFiles
<1>3. \A c : c # 0 => NonEmptyFiles(Put(l, p, c))
  BY DEF NonEmptyFiles, Put
<1> QED BY <1>1, <1>2, <1>3

LEMMA LastIsNonEmpty ==
  ASSUME ListInv, CleanInv
  PROVE  /\ NonEmptyFiles(LastOf(hist)) /\ NonEmptyFiles(folder) /\ NonEmptyFiles(draft)
         /\ \A i \in DOMAIN hist : NonEmptyFiles(hist[i])
<1>1. /\ NonEmptyFiles(folder) /\ NonEmptyFiles(draft)
      /\ \A i \in DOMAIN hist : NonEmptyFiles(hist[i])
  BY DEF CleanInv, ContentsInv
<1>2. NonEmptyFiles(<<>>)
  BY <1>1, NonEmptyKept
<1> QED BY <1>1, <1>2, HistType

\* The local list is that of a version.
LEMMA VersionThere ==
  ASSUME ListInv, local # {}
  PROVE  LocalVersion \in DOMAIN hist
<1>1. \E r \in local : \A s \in local : s.ver <= r.ver
  BY Types DEF LastInv
<1>2. PICK r \in local : LocalVersion = r.ver
  BY <1>1 DEF LocalVersion
<1> QED BY <1>2, Types DEF RowIsTrue

\* The list stays where the rows stay.
LEMMA OldVersion ==
  ASSUME local' = local
  PROVE  LocalVersion' = LocalVersion /\ RowsOf(LocalVersion)' = RowsOf(LocalVersion)
<1>1. LocalVersion' = LocalVersion
  BY DEF LocalVersion
<1> QED BY <1>1 DEF RowsOf

\* A step of the server that makes no version and does not answer a commit.
LEMMA ServerKeepsClean ==
  ASSUME CleanInv, UNCHANGED <<pc, folder, dirs, local, client, hist, claimed, user>>,
         NonEmptyFiles(draft'), ~ Answered("stop", "ok")'
  PROVE  ContentsInv' /\ InSyncUnlessEmptied' /\ CompleteInv'
<1>1. ContentsInv' /\ InSyncUnlessEmptied'
  BY DEF CleanInv, ContentsInv, InSyncUnlessEmptied, NonEmptyFiles
<1>2. CompleteInv'
  <2>1. local' = local /\ hist' = hist /\ pc' = pc
    OBVIOUS
  <2>2. lastLocal' = lastLocal /\ version' = version /\ fl' = fl
    BY DEF client
  <2>3. CompleteInv
    BY DEF CleanInv
  <2>4. LocalVersion' = LocalVersion /\ RowsOf(LocalVersion)' = RowsOf(LocalVersion)
    BY <2>1, OldVersion
  <2> QED BY <2>1, <2>2, <2>3, <2>4 DEF CompleteInv, Covers
<1> QED BY <1>1, <1>2

LEMMA GetLastVersionClean ==
  ASSUME ListInv, CleanInv, GetLastVersion
  PROVE  CleanInv'
<1>1. /\ UNCHANGED <<pc, folder, dirs, local, client, server, claimed, user, faults>>
      /\ wire.to = "server" /\ wire.kind = "version" /\ wire # NoMessage
      /\ wire' = [to |-> "client", kind |-> "version", place |-> NoPlace, content |-> Len(hist)]
  BY DEF GetLastVersion, ServerOnly, Asked, Answer, NoMessage
<1>2. pc = "version"
  BY <1>1 DEF ListInv, WireInv, AsksAt
<1>3. ContentsInv' /\ InSyncUnlessEmptied' /\ CompleteInv'
  BY <1>1, <1>2, LastIsNonEmpty, ServerKeepsClean DEF Answered, server
<1>4. DialogueInv' /\ SentInv' /\ GotInv' /\ AloneInv'
  BY <1>1, <1>2 DEF CleanInv, DialogueInv, SentInv, GotInv, AloneInv, Sending, Asked,
                    Answered, server, Receiving
<1> QED BY <1>3, <1>4 DEF CleanInv

LEMMA UpdateStartClean ==
  ASSUME ListInv, CleanInv, UpdateStart
  PROVE  CleanInv'
<1>1. /\ UNCHANGED <<pc, folder, dirs, local, client, hist, claimed, user, faults>>
      /\ wire.to = "server" /\ wire.kind = "start" /\ wire # NoMessage
      /\ \/ /\ session' = "update" /\ draft' = LastOf(hist)
            /\ wire' = [to |-> "client", kind |-> "ok", place |-> NoPlace, content |-> 0]
         \/ /\ UNCHANGED <<session, draft, changed>>
            /\ wire' = [to |-> "client", kind |-> "error", place |-> NoPlace, content |-> 0]
  BY DEF UpdateStart, ServerOnly, Asked, Answer, NoMessage, OpenSession
<1>2. pc = "start"
  BY <1>1 DEF ListInv, WireInv, AsksAt
<1>3. ContentsInv' /\ InSyncUnlessEmptied' /\ CompleteInv'
  BY <1>1, <1>2, LastIsNonEmpty, ServerKeepsClean DEF Answered
<1>4. DialogueInv' /\ SentInv' /\ GotInv'
  BY <1>1, <1>2 DEF CleanInv, DialogueInv, SentInv, GotInv, Sending, Asked, Answered, LastOf
<1>5. AloneInv'
  BY <1>1, <1>2 DEF CleanInv, AloneInv, Sending, Asked, Answered, user, client, Receiving
<1> QED BY <1>3, <1>4, <1>5 DEF CleanInv

LEMMA AddNewFileClean ==
  ASSUME ListInv, CleanInv, AddNewFile
  PROVE  CleanInv'
<1>1. /\ UNCHANGED <<pc, folder, dirs, local, client, hist, session, claimed, user, faults>>
      /\ wire.to = "server" /\ wire.kind = "add" /\ wire # NoMessage
      /\ draft' = Put(draft, wire.place, wire.content) /\ changed' = TRUE
      /\ wire' = [to |-> "client", kind |-> "ok", place |-> wire.place, content |-> wire.content]
  BY DEF AddNewFile, ServerOnly, Asked, Answer, NoMessage
<1>2. pc = "added"
  BY <1>1 DEF ListInv, WireInv, AsksAt
<1>3. /\ wire.content # 0
      /\ \A p \in DOMAIN draft : p = wire.place \/ \E r \in fl : r.place = p
  BY <1>1, <1>2 DEF CleanInv, DialogueInv, SentInv
<1>4. ContentsInv' /\ InSyncUnlessEmptied' /\ CompleteInv'
  BY <1>1, <1>2, <1>3, LastIsNonEmpty, NonEmptyKept, ServerKeepsClean DEF Answered
<1>5. \A p \in DOMAIN draft' : p = wire.place \/ \E r \in fl : r.place = p
  BY <1>1, <1>3 DEF Put
<1>6. DialogueInv'
  BY <1>1, <1>2, <1>3 DEF CleanInv, DialogueInv
<1>7. SentInv'
  BY <1>1, <1>2, <1>5 DEF SentInv, Asked, Sending, client
<1>8. GotInv'
  BY <1>1, <1>2 DEF GotInv, Asked, Answered
<1>9. AloneInv'
  BY <1>1, <1>2 DEF CleanInv, AloneInv, Sending, Asked, Answered, user, client, KeptInFolder,
                    Kept, NoMessage, Receiving
<1> QED BY <1>4, <1>6, <1>7, <1>8, <1>9 DEF CleanInv

LEMMA RemoveFileClean ==
  ASSUME ListInv, CleanInv, RemoveFile
  PROVE  CleanInv'
<1>1. /\ UNCHANGED <<pc, folder, dirs, local, client, hist, session, claimed, user, faults>>
      /\ wire.to = "server" /\ wire.kind = "remove" /\ wire # NoMessage
      /\ draft' = Drop(draft, wire.place)
      /\ changed' = (changed \/ wire.place \in DOMAIN draft)
      /\ wire' = [to |-> "client", kind |-> "ok", place |-> wire.place, content |-> 0]
  BY DEF RemoveFile, ServerOnly, Asked, Answer, NoMessage
<1>2. pc = "removed"
  BY <1>1 DEF ListInv, WireInv, AsksAt
<1>3. ContentsInv' /\ InSyncUnlessEmptied' /\ CompleteInv'
  BY <1>1, <1>2, LastIsNonEmpty, NonEmptyKept, ServerKeepsClean DEF Answered
<1>4. DialogueInv'
  BY <1>1, <1>2 DEF CleanInv, DialogueInv
<1>5. SentInv'
  <2>1. /\ Covers(fl, draft)
        /\ session = "update" /\ ~ changed => draft = LastOf(hist)
        /\ \A r \in fl : r.toRemove =>
             r.place \notin DOMAIN draft \/ r.place \in todo \/ r.place = wire.place
    BY <1>1, <1>2 DEF CleanInv, SentInv, Sending, Asked
  <2>2. DOMAIN draft' = DOMAIN draft \ {wire.place}
    BY <1>1 DEF Drop
  <2>3. wire.place \notin DOMAIN draft => draft' = draft
    <3>1. draft \in Listings
      BY DEF ListInv, TypeOK
    <3> QED BY <1>1, <3>1 DEF Drop, Listings
  <2>4. session' = "update" /\ ~ changed' => draft' = LastOf(hist')
    BY <1>1, <2>1, <2>3
  <2> QED BY <1>1, <1>2, <2>1, <2>2, <2>4 DEF SentInv, Sending, Asked, client, Covers
<1>6. GotInv'
  BY <1>1, <1>2 DEF GotInv, Asked, Answered
<1>7. AloneInv'
  BY <1>1, <1>2 DEF CleanInv, AloneInv, Sending, Asked, Answered, user, client, KeptInFolder,
                    Kept, NoMessage, Covers, Receiving
<1> QED BY <1>3, <1>4, <1>5, <1>6, <1>7 DEF CleanInv

\* What was sent while the user left the directory alone is the directory.
LEMMA DraftIsFolder ==
  ASSUME ListInv, CleanInv, Asked("stop"), ~ edited
  PROVE  draft = folder
<1>1. \A r \in fl : RowFits(r)
  BY DEF ListInv, UpdateInv
<1>2. /\ Covers(fl, draft)
      /\ \A r \in fl : r.toRemove => r.place \notin DOMAIN draft
  <2>1. pc = "stop"
    BY DEF ListInv, WireInv, AsksAt, Asked, NoMessage
  <2> QED BY <2>1 DEF CleanInv, SentInv, Asked
<1>3. KeptInFolder /\ Covers(Kept, folder)
  BY DEF CleanInv, AloneInv, Receiving
<1>4. \A p \in DOMAIN folder : p \in DOMAIN draft /\ draft[p] = folder[p]
  BY <1>1, <1>3 DEF Covers, KeptInFolder, Kept, RowFits
<1>5. \A p \in DOMAIN draft : p \in DOMAIN folder
  BY <1>2, <1>3 DEF Covers, KeptInFolder, Kept
<1>6. folder \in Listings /\ draft \in Listings
  BY DEF ListInv, TypeOK
<1>7. DOMAIN draft = DOMAIN folder
  BY <1>4, <1>5
<1> QED BY <1>4, <1>6, <1>7 DEF Listings

LEMMA UpdateStopClean ==
  ASSUME ListInv, ListInv', CleanInv, UpdateStop
  PROVE  CleanInv'
<1>1. /\ UNCHANGED <<pc, folder, dirs, local, client, claimed, user, faults>>
      /\ wire.to = "server" /\ wire.kind = "stop" /\ wire # NoMessage
      /\ session' = "none" /\ draft' = <<>> /\ changed' = FALSE
      /\ \/ /\ hist' = Append(hist, draft) /\ draft # <<>>
            /\ wire' = [to |-> "client", kind |-> "ok", place |-> NoPlace,
                        content |-> Len(hist) + 1]
         \/ /\ hist' = hist /\ ~ (draft # <<>> /\ changed)
            /\ wire' = [to |-> "client", kind |-> "ok", place |-> NoPlace, content |-> 0]
  BY DEF UpdateStop, ServerOnly, Asked, Answer, NoMessage, CloseSession
<1>2. /\ pc = "stop" /\ session = "update" /\ \A r \in fl : RowFits(r)
      /\ lastServer = Len(hist)
  BY <1>1 DEF ListInv, WireInv, AsksAt, UpdateInv, NumbersInv, Asked, Receiving
<1>3. draft \in Listings /\ Len(hist) \in Nat
  BY HistType DEF ListInv, TypeOK
<1>4. NonEmptyFiles(draft) /\ NonEmptyFiles(<<>>)
  BY LastIsNonEmpty, NonEmptyKept
<1>5. /\ Grows /\ Len(hist') \in Nat
      /\ \A i \in DOMAIN hist' : i \in DOMAIN hist \/ (i = Len(hist) + 1 /\ hist'[i] = draft)
  <2>1. CASE hist' = Append(hist, draft)
    BY <1>3, <2>1, HistType, Appended DEF Grows
  <2>2. CASE hist' = hist
    BY <1>3, <2>2 DEF Grows
  <2> QED BY <1>1, <2>1, <2>2
<1>6. ContentsInv'
  <2>1. \A i \in DOMAIN hist : hist[i] # <<>> /\ NonEmptyFiles(hist[i])
    BY DEF CleanInv, ContentsInv
  <2>2. \A i \in DOMAIN hist' : hist'[i] # <<>> /\ NonEmptyFiles(hist'[i])
    <3>1. CASE hist' = hist
      BY <2>1, <3>1
    <3>2. CASE hist' = Append(hist, draft) /\ draft # <<>>
      BY <1>4, <1>5, <2>1, <3>2 DEF Grows
    <3> QED BY <1>1, <3>1, <3>2
  <2> QED BY <1>1, <1>4, <2>2, LastIsNonEmpty DEF ContentsInv, NonEmptyFiles
<1>7. DialogueInv'
  BY <1>1, <1>2 DEF CleanInv, DialogueInv
<1>8. claimed' = 0 /\ InSyncUnlessEmptied'
  BY <1>1, <1>2 DEF CleanInv, DialogueInv, InSyncUnlessEmptied
<1>9. CompleteInv'
  <2>1. local # {} => Covers(RowsOf(LocalVersion), hist[LocalVersion])
    BY <1>2 DEF CleanInv, CompleteInv
  <2>2. local # {} => hist'[LocalVersion] = hist[LocalVersion]
    BY <1>5, VersionThere DEF Grows
  <2>3. local' # {} => Covers(RowsOf(LocalVersion), hist[LocalVersion])'
    BY <1>1, <2>1, <2>2, OldVersion DEF Covers
  <2>4. hist' = Append(hist, draft) =>
          Covers({r \in fl : r.ver = Len(hist) + 1}, hist'[Len(hist) + 1])
    <3> SUFFICES ASSUME hist' = Append(hist, draft), NEW p \in DOMAIN hist'[Len(hist) + 1]
                 PROVE  \E r \in fl : r.ver = Len(hist) + 1 /\ r.place = p
      BY DEF Covers
    <3>1. p \in DOMAIN draft
      BY <1>3, HistType, Appended
    <3>2. PICK r \in fl : r.place = p
      BY <1>1, <1>2, <3>1 DEF CleanInv, SentInv, Covers, Asked
    <3>3. ~ r.toRemove
      BY <1>1, <1>2, <3>1, <3>2 DEF CleanInv, SentInv, Asked
    <3> QED BY <1>2, <3>2, <3>3 DEF RowFits
  <2>5. fl' = fl
    BY <1>1 DEF client
  <2>6. wire'.content > 0 =>
          Covers({r \in fl' : r.ver = wire'.content}, hist'[wire'.content])
    <3>1. wire'.content > 0 => hist' = Append(hist, draft) /\ wire'.content = Len(hist) + 1
      BY <1>1
    <3> QED BY <2>4, <2>5, <3>1 DEF Covers
  <2> QED BY <1>1, <1>2, <2>3, <2>6 DEF CompleteInv
<1>10. SentInv' /\ GotInv'
  BY <1>1, <1>2 DEF SentInv, GotInv, Sending, Asked, Answered
<1>11. AloneInv'
  <2>1. ~ edited => draft = folder
    BY <1>1, DraftIsFolder DEF Asked
  <2>2. ~ edited' => ~ edited
    BY <1>1 DEF user
  <2>3. hist' = Append(hist, draft) => hist'[Len(hist) + 1] = draft
    BY <1>3, HistType, Appended
  <2>4. ~ changed => draft = LastOf(hist)
    BY <1>2 DEF CleanInv, SentInv
  <2>5. ~ edited' =>
          IF wire'.content > 0 THEN folder' = hist'[wire'.content]
          ELSE folder' = <<>> \/ folder' = LastOf(hist')
    BY <1>1, <1>3, <2>1, <2>2, <2>3, <2>4
  <2> QED BY <1>1, <1>2, <2>5 DEF AloneInv, Sending, Asked, Answered, Receiving
<1> QED BY <1>6, <1>7, <1>8, <1>9, <1>10, <1>11 DEF CleanInv

LEMMA RestoreVersionClean ==
  ASSUME ListInv, CleanInv, RestoreVersion
  PROVE  CleanInv'
<1>1. /\ UNCHANGED <<pc, folder, dirs, local, client, hist, claimed, user, faults>>
      /\ wire.to = "server" /\ wire.kind = "restore" /\ wire # NoMessage
      /\ \/ /\ session' = "restore" /\ draft' = hist[wire.content]
            /\ \E p \in DOMAIN draft' :
                 wire' = [to |-> "client", kind |-> "begin", place |-> p, content |-> draft'[p]]
         \/ /\ UNCHANGED <<session, draft, changed>>
            /\ wire' = [to |-> "client", kind |-> "error", place |-> NoPlace, content |-> 0]
  BY DEF RestoreVersion, ServerOnly, Asked, Answer, NoMessage, OpenSession, Offer
<1>2. pc = "restore" /\ wire.content = lastServer /\ lastServer = Len(hist) /\ Restoring
  BY <1>1 DEF ListInv, WireInv, AsksAt, NumbersInv, Receiving
<1>3. lastServer \in DOMAIN hist
  BY <1>2, HistType DEF ListInv, TypeOK, Restoring
<1>4. ContentsInv' /\ InSyncUnlessEmptied' /\ CompleteInv'
  BY <1>1, <1>2, <1>3, LastIsNonEmpty, ServerKeepsClean DEF Answered
<1>5. DialogueInv' /\ SentInv'
  BY <1>1, <1>2 DEF CleanInv, DialogueInv, SentInv, Sending, Asked, Answered
<1>6. GotInv'
  BY <1>1, <1>2 DEF GotInv, Asked, Answered, client
<1>7. AloneInv'
  BY <1>1, <1>2 DEF CleanInv, AloneInv, Sending, Asked, Answered, user, client, Receiving
<1> QED BY <1>4, <1>5, <1>6, <1>7 DEF CleanInv

LEMMA RestoreFileAckClean ==
  ASSUME ListInv, CleanInv, RestoreFileAck
  PROVE  CleanInv'
<1>1. /\ UNCHANGED <<pc, folder, dirs, local, client, hist, claimed, user, faults>>
      /\ wire.to = "server" /\ wire.kind \in {"ack", "nack"} /\ wire # NoMessage
      /\ \/ /\ wire.kind = "nack" /\ UNCHANGED <<session, draft, changed>>
            /\ wire' = [to |-> "client", kind |-> "file", place |-> wire.place,
                        content |-> draft[wire.place]]
         \/ /\ wire.kind = "ack" /\ Drop(draft, wire.place) = <<>>
            /\ session' = "none" /\ draft' = <<>> /\ changed' = FALSE
            /\ wire' = [to |-> "client", kind |-> "stop", place |-> NoPlace, content |-> 0]
         \/ /\ wire.kind = "ack"
            /\ session' = session /\ draft' = Drop(draft, wire.place) /\ changed' = changed
            /\ \E p \in DOMAIN draft' :
                 wire' = [to |-> "client", kind |-> "file", place |-> p, content |-> draft'[p]]
  BY DEF RestoreFileAck, ServerOnly, Asked, Answer, NoMessage, CloseSession, Offer
<1>2. /\ pc = "receive" /\ session = "restore"
  BY <1>1 DEF ListInv, WireInv, AsksAt, RestoreInv, Receiving
<1>3. ContentsInv' /\ InSyncUnlessEmptied' /\ CompleteInv'
  BY <1>1, <1>2, LastIsNonEmpty, NonEmptyKept, ServerKeepsClean DEF Answered
<1>4. DialogueInv' /\ SentInv'
  BY <1>1, <1>2 DEF CleanInv, DialogueInv, SentInv, Sending, Asked, Answered
<1>5. DOMAIN Drop(draft, wire.place) = DOMAIN draft \ {wire.place}
  BY DEF Drop
<1>6. GotInv'
  <2>1. /\ wire.kind = "nack" =>
             \A p \in DOMAIN hist[lastServer] : p \in DOMAIN draft \/ \E r \in fl : r.place = p
        /\ wire.kind = "ack" =>
             \A p \in DOMAIN hist[lastServer] :
               p \in DOMAIN draft \ {wire.place} \/ \E r \in fl : r.place = p
    BY <1>1 DEF CleanInv, GotInv, Asked
  <2>2. Drop(draft, wire.place) = <<>> => DOMAIN draft \ {wire.place} = {}
    BY <1>5, EmptyType
  <2> QED BY <1>1, <1>2, <1>5, <2>1, <2>2 DEF GotInv, Asked, Answered, client, Covers
<1>7. AloneInv'
  BY <1>1, <1>2 DEF CleanInv, AloneInv, Sending, Asked, Answered, user, client, Receiving
<1> QED BY <1>3, <1>4, <1>6, <1>7 DEF CleanInv

LEMMA SessionExpiresClean ==
  ASSUME ListInv, CleanInv, SessionExpires
  PROVE  CleanInv'
<1>1. /\ UNCHANGED <<pc, wire, folder, dirs, local, client, hist, claimed, user, faults>>
      /\ pc \in {"idle", "version", "aside", "dead"}
      /\ session' = "none" /\ draft' = <<>> /\ changed' = FALSE
  BY DEF SessionExpires, ServerOnly, CloseSession
<1>2. wire.to = "server" => wire.kind = "version"
  BY <1>1 DEF ListInv, WireInv, AsksAt, NoMessage
<1>3. ContentsInv' /\ InSyncUnlessEmptied' /\ CompleteInv'
  BY <1>1, LastIsNonEmpty, NonEmptyKept, ServerKeepsClean DEF Answered
<1>4. DialogueInv' /\ SentInv' /\ GotInv'
  BY <1>1, <1>2 DEF CleanInv, DialogueInv, SentInv, GotInv, Sending, Asked, Answered
<1>5. AloneInv'
  BY <1>1, <1>2 DEF CleanInv, AloneInv, Sending, Asked, Answered, user, client, Receiving
<1> QED BY <1>3, <1>4, <1>5 DEF CleanInv

\* A step of the client, or of the user, that leaves the versions and the list.
LEMMA ClientKeepsClean ==
  ASSUME CleanInv, UNCHANGED <<server, local>>, NonEmptyFiles(folder')
  PROVE  /\ ContentsInv'
         /\ (pc \notin {"clear", "insert"} /\ local # {} =>
               (local # {} => Covers(RowsOf(LocalVersion), hist[LocalVersion]))')
<1>1. hist' = hist /\ draft' = draft /\ local' = local
  BY DEF server
<1>2. ContentsInv'
  BY <1>1 DEF CleanInv, ContentsInv, NonEmptyFiles
<1>3. LocalVersion' = LocalVersion /\ RowsOf(LocalVersion)' = RowsOf(LocalVersion)
  BY <1>1, OldVersion
<1>4. pc \notin {"clear", "insert"} /\ local # {} =>
        Covers(RowsOf(LocalVersion), hist[LocalVersion])
  BY DEF CleanInv, CompleteInv
<1> QED BY <1>1, <1>2, <1>3, <1>4 DEF Covers

LEMMA CleanAtRest ==
  ASSUME ListInv, CleanInv, UNCHANGED <<server, local>>, NonEmptyFiles(folder'),
         pc' \in {"idle", "silent", "dead", "putback"}, wire' = NoMessage,
         pc \notin {"clear", "insert"}, pc' # "idle" => claimed' = 0, InSyncUnlessEmptied'
  PROVE  CleanInv'
<1>1. ContentsInv'
  BY ClientKeepsClean
<1>2. DialogueInv'
  BY DEF DialogueInv, NoMessage
<1>3. CompleteInv'
  BY ClientKeepsClean DEF CompleteInv, Answered, NoMessage, server
<1>4. SentInv'
  BY DEF CleanInv, SentInv, Sending, Asked, NoMessage, server
<1>5. GotInv' /\ AloneInv'
  BY DEF GotInv, AloneInv, Sending, Asked, Answered, NoMessage, Receiving
<1> QED BY <1>1, <1>2, <1>3, <1>4, <1>5 DEF CleanInv

\* While an update or restore works the window says nothing.
LEMMA Unclaimed ==
  ASSUME CleanInv, pc # "idle", UNCHANGED claimed
  PROVE  claimed = 0 /\ claimed' = 0 /\ InSyncUnlessEmptied'
BY DEF CleanInv, DialogueInv, InSyncUnlessEmptied

LEMMA UpdateCurrentVersionClean ==
  ASSUME ListInv, CleanInv, UpdateCurrentVersion
  PROVE  CleanInv'
<1>1. /\ pc = "idle" /\ pc' = "version" /\ claimed' = 0
      /\ wire' = [to |-> "server", kind |-> "version", place |-> NoPlace, content |-> 0]
      /\ UNCHANGED <<server, local, folder, dirs>>
  BY DEF UpdateCurrentVersion, Ask, client
<1>2. ContentsInv'
  BY <1>1, ClientKeepsClean, LastIsNonEmpty
<1>3. DialogueInv' /\ InSyncUnlessEmptied'
  BY <1>1 DEF DialogueInv, InSyncUnlessEmptied
<1>4. CompleteInv'
  BY <1>1, ClientKeepsClean, LastIsNonEmpty DEF CompleteInv, Answered, server
<1>5. SentInv'
  BY <1>1 DEF CleanInv, SentInv, Sending, Asked, server
<1>6. GotInv' /\ AloneInv'
  BY <1>1 DEF GotInv, AloneInv, Sending, Asked, Answered, Receiving
<1> QED BY <1>2, <1>3, <1>4, <1>5, <1>6 DEF CleanInv

LEMMA ReadLastVersionClean ==
  ASSUME ListInv, CleanInv, ReadLastVersion
  PROVE  CleanInv'
<1>1. /\ UNCHANGED <<server, local, folder, dirs, claimed>>
      /\ pc = "version" /\ wire.to = "client" /\ wire.kind = "version"
      /\ todo' = DOMAIN folder
      /\ lastLocal' = IF wire.content = 0 THEN 0 ELSE LocalVersion
      /\ \/ pc' = "aside" /\ wire' = NoMessage
         \/ pc' = "idle" /\ wire' = NoMessage
         \/ /\ pc' = "start"
            /\ wire' = [to |-> "server", kind |-> "start", place |-> NoPlace, content |-> 0]
  BY DEF ReadLastVersion, Answered, GoOn, Ask, ClientOnly
<1>2. ContentsInv'
  BY <1>1, ClientKeepsClean, LastIsNonEmpty
<1>3. claimed' = 0 /\ InSyncUnlessEmptied'
  BY <1>1, Unclaimed
<1>4. DialogueInv'
  BY <1>1, <1>3 DEF DialogueInv, NoMessage
<1>5. lastLocal' = LocalVersion'
  <2>1. wire.content = Len(hist)
    BY <1>1 DEF ListInv, NumbersInv, Answered, Receiving
  <2>2. CASE local = {}
    BY <1>1, <2>2, OldVersion DEF LocalVersion
  <2>3. CASE local # {}
    BY <1>1, <2>1, <2>3, VersionThere, OldVersion, HistType
  <2> QED BY <2>2, <2>3
<1>6. CompleteInv'
  BY <1>1, <1>5, ClientKeepsClean, LastIsNonEmpty DEF CompleteInv, Answered, server, NoMessage
<1>7. SentInv'
  BY <1>1 DEF CleanInv, SentInv, Sending, Asked, server, NoMessage
<1>8. GotInv'
  BY <1>1 DEF GotInv, Asked, Answered, NoMessage
<1>9. AloneInv'
  BY <1>1 DEF AloneInv, Sending, Asked, Answered, NoMessage, Receiving
<1> QED BY <1>2, <1>3, <1>4, <1>6, <1>7, <1>8, <1>9 DEF CleanInv

LEMMA SetAsideClean ==
  ASSUME ListInv, CleanInv, SetAside
  PROVE  CleanInv'
<1>1. /\ UNCHANGED <<server, local, claimed, edited>>
      /\ UNCHANGED <<lastServer, lastLocal, version, fl>>
      /\ pc = "aside"
      /\ \/ /\ pc' = "aside" /\ wire' = wire
            /\ \E p \in todo : p[2] < MaxDepth /\ Move(p, p[2] + 1)
         \/ /\ pc' = "restore" /\ UNCHANGED <<folder, dirs, todo>>
            /\ \A p \in todo : p[2] = MaxDepth
            /\ wire' = [to |-> "server", kind |-> "restore", place |-> NoPlace,
                        content |-> lastServer]
  BY DEF SetAside, Ask, ClientOnly, user
<1>2. fl = {} /\ wire = NoMessage
  BY <1>1, Quiet DEF ListInv, RestoreInv, Receiving
<1>3. NonEmptyFiles(folder) /\ folder \in Listings
  BY LastIsNonEmpty, Types
<1>4. ASSUME NEW p \in todo, Move(p, p[2] + 1)
      PROVE  /\ NonEmptyFiles(folder')
             /\ \A q \in DOMAIN folder' :
                  q[2] = 0 => q \in DOMAIN folder /\ (q \in todo => q \in todo')
  <2>1. p \in Places /\ p[2] \in Nat
    BY <1>4, Types DEF Places, MaxDepth
  <2>2. /\ p \in DOMAIN folder =>
             folder' = Put(Drop(folder, p), <<p[1], p[2] + 1>>, folder[p])
        /\ p \notin DOMAIN folder => folder' = folder
        /\ todo' = todo \ {p}
    BY <1>4 DEF Move
  <2>3. NonEmptyFiles(folder')
    BY <1>3, <2>2, NonEmptyKept DEF NonEmptyFiles
  <2>4. \A q \in DOMAIN folder' :
          \/ q \in DOMAIN folder \ {p}
          \/ q = <<p[1], p[2] + 1>>
    BY <2>2 DEF Put, Drop
  <2> QED BY <2>1, <2>2, <2>3, <2>4
<1>5. NonEmptyFiles(folder')
  BY <1>1, <1>3, <1>4
<1>6. claimed' = 0 /\ InSyncUnlessEmptied'
  BY <1>1, Unclaimed
<1>7. DialogueInv'
  BY <1>1, <1>6 DEF DialogueInv
<1>8. ContentsInv' /\ CompleteInv'
  BY <1>1, <1>2, <1>5, ClientKeepsClean DEF CompleteInv, Answered, NoMessage
<1>9. SentInv' /\ GotInv'
  BY <1>1, <1>2 DEF CleanInv, SentInv, GotInv, Sending, Asked, Answered, server, NoMessage
<1>10. AloneInv'
  <2>1. ~ edited => \A q \in DOMAIN folder : q[2] = 0 => q \in todo
    BY <1>1 DEF CleanInv, AloneInv, Receiving
  <2>2. CASE pc' = "aside"
    BY <1>1, <1>2, <1>4, <2>1, <2>2 DEF AloneInv, Sending, Asked, Answered, NoMessage, Receiving
  <2>3. CASE pc' = "restore"
    BY <1>1, <1>2, <2>1, <2>3 DEF AloneInv, Sending, Asked, Answered, MaxDepth, Receiving
  <2> QED BY <1>1, <2>2, <2>3
<1> QED BY <1>6, <1>7, <1>8, <1>9, <1>10 DEF CleanInv

LEMMA RestoreBeginsClean ==
  ASSUME ListInv, CleanInv, RestoreBegins
  PROVE  CleanInv'
<1>1. /\ UNCHANGED <<server, local, claimed, folder, dirs, edited>>
      /\ UNCHANGED <<lastServer, lastLocal, version, fl, todo>>
      /\ pc = "restore" /\ wire.to = "client" /\ wire.kind = "begin"
      /\ pc' = "receive"
      /\ wire' = [to |-> "client", kind |-> "file", place |-> wire.place,
                  content |-> wire.content]
  BY DEF RestoreBegins, Answered, Answer, ClientOnly, user, client
<1>2. claimed' = 0 /\ InSyncUnlessEmptied'
  BY <1>1, Unclaimed
<1>3. DialogueInv'
  BY <1>1, <1>2 DEF DialogueInv
<1>4. ContentsInv' /\ CompleteInv'
  BY <1>1, LastIsNonEmpty, ClientKeepsClean DEF CompleteInv, Answered
<1>5. SentInv' /\ GotInv'
  BY <1>1 DEF CleanInv, SentInv, GotInv, Sending, Asked, Answered, server
<1>6. AloneInv'
  BY <1>1 DEF CleanInv, AloneInv, Sending, Asked, Answered, Receiving
<1> QED BY <1>2, <1>3, <1>4, <1>5, <1>6 DEF CleanInv

LEMMA StoreFileClean ==
  ASSUME ListInv, CleanInv, StoreFile
  PROVE  CleanInv'
<1> DEFINE row == Row(wire.place, wire.content, lastServer, FALSE)
<1>1. /\ UNCHANGED <<server, local, claimed, edited>>
      /\ UNCHANGED <<pc, lastServer, lastLocal, version>>
      /\ pc = "receive" /\ wire.to = "client" /\ wire.kind = "file" /\ wire # NoMessage
      /\ folder' = Put(folder, wire.place, wire.content) /\ fl' = fl \cup {row}
      /\ wire' = [to |-> "server", kind |-> "ack", place |-> wire.place, content |-> 0]
  BY DEF StoreFile, Answered, Ask, ClientOnly, user, NoMessage
<1>2. row.place = wire.place /\ row.sum = wire.content
  BY DEF Row
<1> HIDE DEF row
<1>3. /\ wire.place \in DOMAIN draft /\ wire.content = draft[wire.place]
      /\ \A p \in DOMAIN draft : p \in DOMAIN hist[lastServer] /\ draft[p] = hist[lastServer][p]
      /\ \A r \in fl : RowIsTrue(r) /\ r.ver = lastServer
  BY <1>1 DEF ListInv, RestoreInv, Receiving
<1>4. wire.content # 0
  BY <1>3, LastIsNonEmpty DEF NonEmptyFiles
<1>5. NonEmptyFiles(folder')
  BY <1>1, <1>4, LastIsNonEmpty, NonEmptyKept
<1>6. claimed' = 0 /\ InSyncUnlessEmptied'
  BY <1>1, Unclaimed
<1>7. DialogueInv'
  BY <1>1, <1>6 DEF DialogueInv
<1>8. ContentsInv' /\ CompleteInv'
  BY <1>1, <1>5, ClientKeepsClean DEF CompleteInv, Answered
<1>9. SentInv'
  BY <1>1 DEF CleanInv, SentInv, Sending, Asked, server
<1>10. GotInv'
  <2>1. \A p \in DOMAIN hist[lastServer] : p \in DOMAIN draft \/ \E r \in fl : r.place = p
    BY <1>1 DEF CleanInv, GotInv, Answered
  <2> QED BY <1>1, <1>2, <2>1 DEF GotInv, Asked, Answered, server
<1>11. AloneInv'
  <2>1. ~ edited =>
          /\ \A p \in DOMAIN folder : p[2] = 0 => \E r \in fl : r.place = p
          /\ \A r \in fl : r.place \in DOMAIN folder /\ folder[r.place] = r.sum
    BY <1>1 DEF CleanInv, AloneInv, Receiving
  <2>2. /\ DOMAIN folder' = DOMAIN folder \cup {wire.place} /\ folder'[wire.place] = wire.content
        /\ \A q \in DOMAIN folder : q # wire.place => folder'[q] = folder[q]
    BY <1>1 DEF Put
  <2>3. \A r \in fl : r.place = wire.place => r.sum = wire.content
    BY <1>3 DEF RowIsTrue
  <2>4. ~ edited =>
          /\ \A p \in DOMAIN folder' : p[2] = 0 => \E r \in fl' : r.place = p
          /\ \A r \in fl' : r.place \in DOMAIN folder' /\ folder'[r.place] = r.sum
    BY <1>1, <1>2, <2>1, <2>2, <2>3
  <2> QED BY <1>1, <2>4 DEF AloneInv, Sending, Asked, Answered, Receiving
<1> QED BY <1>6, <1>7, <1>8, <1>9, <1>10, <1>11 DEF CleanInv

LEMMA RejectFileClean ==
  ASSUME Calm, ListInv, CleanInv, RejectFile
  PROVE  CleanInv'
<1>1. /\ UNCHANGED <<server, local, claimed, folder, dirs, edited>>
      /\ UNCHANGED <<pc, lastServer, lastLocal, version, fl, todo>>
      /\ pc = "receive" /\ wire' = NoMessage
  BY DEF RejectFile, Calm, MayFail, Answered, user, client
<1>2. claimed' = 0 /\ InSyncUnlessEmptied'
  BY <1>1, Unclaimed
<1>3. DialogueInv'
  BY <1>1, <1>2 DEF DialogueInv
<1>4. ContentsInv' /\ CompleteInv'
  BY <1>1, LastIsNonEmpty, ClientKeepsClean DEF CompleteInv, Answered, NoMessage
<1>5. SentInv' /\ GotInv'
  BY <1>1 DEF CleanInv, SentInv, GotInv, Sending, Asked, Answered, server, NoMessage
<1>6. AloneInv'
  BY <1>1 DEF CleanInv, AloneInv, Sending, Asked, Answered, NoMessage, Receiving
<1> QED BY <1>2, <1>3, <1>4, <1>5, <1>6 DEF CleanInv

\* A restored directory is that of the version.
LEMMA RestoreStopClean ==
  ASSUME ListInv, CleanInv, RestoreStop
  PROVE  CleanInv'
<1>1. /\ UNCHANGED <<server, local, claimed, folder, dirs, edited>>
      /\ UNCHANGED <<lastServer, lastLocal, fl, todo>>
      /\ pc = "receive" /\ wire.to = "client" /\ wire.kind = "stop"
      /\ pc' = "clear" /\ wire' = NoMessage /\ version' = lastServer
  BY DEF RestoreStop, Answered, GoOn, ClientOnly, user
<1>2. /\ \A r \in fl : RowIsTrue(r) /\ r.ver = lastServer
      /\ lastServer \in DOMAIN hist /\ hist[lastServer] \in Listings
  BY <1>1, Types, HistType DEF ListInv, RestoreInv, NumbersInv, Restoring, Receiving
<1>3. Covers(fl, hist[lastServer])
  BY <1>1 DEF CleanInv, GotInv, Answered
<1>4. claimed' = 0 /\ InSyncUnlessEmptied'
  BY <1>1, Unclaimed
<1>5. DialogueInv'
  BY <1>1, <1>4 DEF DialogueInv
<1>6. ContentsInv'
  BY <1>1, LastIsNonEmpty, ClientKeepsClean
<1>7. CompleteInv'
  <2>1. Covers({r \in fl' : r.ver = version'}, hist'[version'])
    BY <1>1, <1>2, <1>3 DEF Covers, server
  <2> QED BY <1>1, <2>1 DEF CompleteInv, Answered, NoMessage
<1>8. SentInv' /\ GotInv'
  BY <1>1 DEF CleanInv, SentInv, GotInv, Sending, Asked, Answered, server, NoMessage
<1>9. AloneInv'
  <2>1. ASSUME ~ edited
        PROVE  Root(folder) = Root(hist[lastServer])
    <3>1. /\ \A p \in DOMAIN folder : p[2] = 0 => \E r \in fl : r.place = p
          /\ \A r \in fl : r.place \in DOMAIN folder /\ folder[r.place] = r.sum
      BY <1>1, <2>1 DEF CleanInv, AloneInv, Receiving
    <3>2. \A p \in DOMAIN hist[lastServer] :
            p \in DOMAIN folder /\ folder[p] = hist[lastServer][p]
      BY <1>2, <1>3, <3>1 DEF Covers, RowIsTrue
    <3>3. \A p \in DOMAIN folder : p[2] = 0 => p \in DOMAIN hist[lastServer]
      BY <1>2, <3>1 DEF RowIsTrue
    <3>4. {p \in DOMAIN folder : p[2] = 0} = {p \in DOMAIN hist[lastServer] : p[2] = 0}
      BY <3>2, <3>3
    <3> QED BY <3>2, <3>4 DEF Root
  <2> QED BY <1>1, <2>1 DEF AloneInv, Sending, Asked, Answered, NoMessage, server, Receiving
<1> QED BY <1>4, <1>5, <1>6, <1>7, <1>8, <1>9 DEF CleanInv

LEMMA RestoreErrorClean ==
  ASSUME ListInv, CleanInv, RestoreError \/ PutBack
  PROVE  CleanInv'
<1>1. CASE RestoreError
  <2>1. /\ UNCHANGED <<server, local, claimed, folder, dirs>>
        /\ pc \in Receiving /\ pc' = "putback" /\ wire' = NoMessage
    BY <1>1 DEF RestoreError, Answered, LeaveRestore, GoOn, ClientOnly, Receiving
  <2> QED BY <2>1, CleanAtRest, LastIsNonEmpty, Unclaimed DEF Receiving
<1>2. CASE PutBack
  <2>1. /\ UNCHANGED <<server, local, claimed>> /\ pc = "putback"
        /\ \/ /\ pc' = "putback" /\ wire' = wire
              /\ \E p \in todo : Move(p, p[2] - 1)
           \/ pc' = "idle" /\ wire' = NoMessage /\ folder' = Root(folder)
    BY <1>2 DEF PutBack, Fails, GoOn, ClientOnly
  <2>2. wire' = NoMessage /\ NonEmptyFiles(folder)
    BY <2>1, Quiet, LastIsNonEmpty
  <2>3. ASSUME NEW p \in todo, Move(p, p[2] - 1)
        PROVE  NonEmptyFiles(folder')
    <3>1. /\ p \in DOMAIN folder =>
               folder' = Put(Drop(folder, p), <<p[1], p[2] - 1>>, folder[p])
          /\ p \notin DOMAIN folder => folder' = folder
      BY <2>3 DEF Move
    <3> QED BY <2>2, <3>1, NonEmptyKept DEF NonEmptyFiles
  <2>4. NonEmptyFiles(folder')
    BY <2>1, <2>2, <2>3, NonEmptyKept
  <2> QED BY <2>1, <2>2, <2>4, CleanAtRest, Unclaimed
<1> QED BY <1>1, <1>2

LEMMA UpdateStartedClean ==
  ASSUME ListInv, CleanInv, UpdateStarted
  PROVE  CleanInv'
<1>1. /\ UNCHANGED <<server, local, claimed, folder, dirs, edited>>
      /\ UNCHANGED <<lastServer, lastLocal, version>>
      /\ pc = "start" /\ wire.to = "client" /\ wire.kind = "ok"
      /\ pc' = "send" /\ wire' = NoMessage /\ todo' = DOMAIN folder
      /\ fl' = {[r EXCEPT !.toRemove = TRUE] : r \in RowsOf(lastLocal)}
  BY DEF UpdateStarted, Answered, GoOn, ClientOnly, user
<1>2. /\ lastServer = Len(hist) /\ lastLocal = lastServer /\ draft = LastOf(hist)
  BY <1>1 DEF ListInv, NumbersInv, UpdateInv, Answered, Receiving
<1>3. \A r \in RowsOf(lastLocal) :
        /\ [r EXCEPT !.toRemove = TRUE].place = r.place
        /\ [r EXCEPT !.toRemove = TRUE].toRemove = TRUE
  BY Types DEF RowsOf, Rows
<1>4. /\ \A r \in fl' : r.toRemove
      /\ \A r \in RowsOf(lastLocal) : \E s \in fl' : s.place = r.place
  BY <1>1, <1>3
<1>5. Covers(fl', draft)
  <2>1. lastLocal = LocalVersion
    BY <1>1 DEF CleanInv, CompleteInv
  <2>2. CASE Len(hist) = 0
    BY <1>2, <2>2, HistType, EmptyType DEF Covers
  <2>3. CASE Len(hist) > 0
    <3>1. local # {} /\ draft = hist[LocalVersion]
      BY <1>2, <2>1, <2>3, HistType DEF LocalVersion
    <3>2. Covers(RowsOf(lastLocal), draft)
      BY <1>1, <2>1, <3>1 DEF CleanInv, CompleteInv
    <3> QED BY <1>4, <3>2 DEF Covers
  <2> QED BY <2>2, <2>3, HistType
<1>6. claimed' = 0 /\ InSyncUnlessEmptied'
  BY <1>1, Unclaimed
<1>7. DialogueInv'
  BY <1>1, <1>6 DEF DialogueInv
<1>8. ContentsInv' /\ CompleteInv'
  BY <1>1, LastIsNonEmpty, ClientKeepsClean DEF CompleteInv, Answered, NoMessage
<1>9. SentInv'
  BY <1>1, <1>5 DEF CleanInv, SentInv, Sending, Asked, server, NoMessage
<1>10. GotInv'
  BY <1>1 DEF GotInv, Asked, Answered, NoMessage
<1>11. AloneInv'
  BY <1>1, <1>4 DEF AloneInv, Sending, Asked, Answered, KeptInFolder, Kept, NoMessage, Receiving
<1> QED BY <1>6, <1>7, <1>8, <1>9, <1>10, <1>11 DEF CleanInv

LEMMA ProcessFileClean ==
  ASSUME ListInv, CleanInv, ProcessFile
  PROVE  CleanInv'
<1>1. /\ UNCHANGED <<server, local, claimed, folder, dirs, edited>>
      /\ UNCHANGED <<lastServer, lastLocal, version>>
      /\ pc = "send"
  BY DEF ProcessFile, ClientOnly, user
<1>2. /\ wire = NoMessage
      /\ \A r, s \in fl : r.place = s.place => r = s
      /\ Covers(fl, draft)
  BY <1>1, Quiet DEF ListInv, UpdateInv, CleanInv, SentInv, Sending
<1>3. ~ edited =>
        /\ \A r \in fl : ~ r.toRemove => r.place \in DOMAIN folder /\ folder[r.place] = r.sum
        /\ \A q \in DOMAIN folder : q \in todo \/ \E r \in fl : ~ r.toRemove /\ r.place = q
  BY <1>1 DEF CleanInv, AloneInv, Sending, KeptInFolder, Kept, Receiving
<1>4. NonEmptyFiles(folder)
  BY LastIsNonEmpty
<1>5. PICK p \in todo :
        /\ todo' = todo \ {p}
        /\ LET rows == {r \in fl : r.place = p} IN
           \/ p \notin DOMAIN folder /\ UNCHANGED <<pc, wire, fl>>
           \/ /\ p \in DOMAIN folder /\ \E r \in rows : IsUnchanged(p, r)
              /\ fl' = (fl \ rows) \cup {Row(p, r.sum, r.ver + 1, FALSE) : r \in rows}
              /\ UNCHANGED <<pc, wire>>
           \/ /\ p \in DOMAIN folder /\ fl' = fl \ rows /\ pc' = "added"
              /\ wire' = [to |-> "server", kind |-> "add", place |-> p, content |-> folder[p]]
  BY DEF ProcessFile, Ask
<1>6. \/ pc' = "send" /\ wire' = NoMessage
      \/ /\ p \in DOMAIN folder /\ pc' = "added"
         /\ wire' = [to |-> "server", kind |-> "add", place |-> p, content |-> folder[p]]
  BY <1>1, <1>2, <1>5
<1>7. \/ p \notin DOMAIN folder /\ pc' = "send" /\ fl' = fl
      \/ /\ p \in DOMAIN folder /\ pc' = "send"
         /\ \E x \in fl : /\ x.place = p /\ x.sum = folder[p]
                          /\ \E row : /\ fl' = (fl \ {x}) \cup {row}
                                       /\ row.place = p /\ row.sum = folder[p]
                                       /\ ~ row.toRemove
      \/ p \in DOMAIN folder /\ pc' = "added" /\ fl' = {r \in fl : r.place # p}
  <2> DEFINE rows == {r \in fl : r.place = p}
  <2>1. ASSUME p \in DOMAIN folder, NEW x \in rows, IsUnchanged(p, x)
        PROVE  x \in fl /\ x.place = p /\ x.sum = folder[p] /\ rows = {x}
    BY <1>2, <1>4, <2>1 DEF IsUnchanged, NonEmptyFiles
  <2>2. CASE p \notin DOMAIN folder /\ UNCHANGED <<pc, wire, fl>>
    BY <1>1, <1>2, <2>2
  <2>3. CASE /\ p \in DOMAIN folder /\ \E r \in rows : IsUnchanged(p, r)
             /\ fl' = (fl \ rows) \cup {Row(p, r.sum, r.ver + 1, FALSE) : r \in rows}
             /\ UNCHANGED <<pc, wire>>
    <3>1. PICK x \in rows : IsUnchanged(p, x)
      BY <2>3
    <3>2. x \in fl /\ x.place = p /\ x.sum = folder[p] /\ rows = {x}
      BY <2>1, <2>3, <3>1
    <3> DEFINE row == Row(p, x.sum, x.ver + 1, FALSE)
    <3>3. fl' = (fl \ {x}) \cup {row}
      BY <2>3, <3>2
    <3>4. row.place = p /\ row.sum = folder[p] /\ ~ row.toRemove
      BY <3>2 DEF Row
    <3> HIDE DEF row
    <3> QED BY <1>1, <2>3, <3>2, <3>3, <3>4
  <2>4. CASE /\ p \in DOMAIN folder /\ fl' = fl \ rows /\ pc' = "added"
             /\ wire' = [to |-> "server", kind |-> "add", place |-> p, content |-> folder[p]]
    BY <2>4
  <2> QED BY <1>5, <2>2, <2>3, <2>4
<1>8. claimed' = 0 /\ InSyncUnlessEmptied'
  BY <1>1, Unclaimed
<1>9. DialogueInv'
  BY <1>4, <1>6, <1>8 DEF DialogueInv, NonEmptyFiles
<1>10. ContentsInv' /\ CompleteInv'
  BY <1>1, <1>6, LastIsNonEmpty, ClientKeepsClean DEF CompleteInv, Answered, NoMessage
<1>11. SentInv'
  <2>2. pc' = "send" => Covers(fl', draft)
    BY <1>2, <1>7 DEF Covers
  <2>3. pc' = "added" => \A q \in DOMAIN draft : q = p \/ \E r \in fl' : r.place = q
    BY <1>2, <1>7 DEF Covers
  <2>4. session = "update" /\ ~ changed => draft = LastOf(hist)
    BY DEF CleanInv, SentInv
  <2> QED BY <1>1, <1>6, <2>2, <2>3, <2>4 DEF SentInv, Sending, Asked, server, NoMessage
<1>12. GotInv'
  BY <1>6 DEF GotInv, Asked, Answered, NoMessage
<1>13. AloneInv'
  <2> SUFFICES ASSUME ~ edited PROVE AloneInv'
    BY <1>1 DEF AloneInv, Receiving
  <2>2. \A r \in fl' : ~ r.toRemove => r.place \in DOMAIN folder /\ folder[r.place] = r.sum
    BY <1>3, <1>7
  <2>3. \A q \in DOMAIN folder :
          q \in todo' \/ (q = p /\ pc' = "added") \/ \E r \in fl' : ~ r.toRemove /\ r.place = q
    <3> SUFFICES ASSUME NEW q \in DOMAIN folder, q \notin todo', ~ (q = p /\ pc' = "added")
                 PROVE  \E r \in fl' : ~ r.toRemove /\ r.place = q
      OBVIOUS
    <3>1. CASE q = p
      BY <1>7, <3>1
    <3>2. CASE q # p
      <4>1. PICK r \in fl : ~ r.toRemove /\ r.place = q
        BY <1>3, <1>5, <3>2
      <4>2. r \in fl'
        BY <1>7, <3>2, <4>1
      <4> QED BY <4>1, <4>2
    <3> QED BY <3>1, <3>2
  <2>4. KeptInFolder'
    BY <1>1, <2>2 DEF KeptInFolder, Kept
  <2> QED BY <1>1, <1>3, <1>6, <2>3, <2>4 DEF AloneInv, Sending, Asked, Answered, Kept, NoMessage,
                                              Receiving
<1> QED BY <1>8, <1>9, <1>10, <1>11, <1>12, <1>13 DEF CleanInv

LEMMA FileAddedClean ==
  ASSUME ListInv, CleanInv, FileAdded
  PROVE  CleanInv'
<1> DEFINE row == Row(wire.place, wire.content, NextVersion, FALSE)
<1>1. /\ UNCHANGED <<server, local, claimed, folder, dirs, edited>>
      /\ UNCHANGED <<lastServer, lastLocal, version, todo>>
      /\ pc = "added" /\ wire.to = "client" /\ wire.kind = "ok" /\ wire # NoMessage
      /\ pc' = "send" /\ wire' = NoMessage /\ fl' = fl \cup {row}
  BY DEF FileAdded, Answered, GoOn, ClientOnly, user, NoMessage
<1>2. row.place = wire.place /\ row.sum = wire.content /\ ~ row.toRemove
  BY DEF Row
<1> HIDE DEF row
<1>3. /\ \A p \in DOMAIN draft : p = wire.place \/ \E r \in fl : r.place = p
      /\ session = "update" /\ ~ changed => draft = LastOf(hist)
  BY <1>1 DEF CleanInv, SentInv
<1>4. ~ edited =>
        /\ KeptInFolder
        /\ \A p \in DOMAIN folder :
             p \in todo \/ p = wire.place \/ \E r \in Kept : r.place = p
        /\ wire.place \in DOMAIN folder /\ folder[wire.place] = wire.content
  BY <1>1 DEF CleanInv, AloneInv, Sending, Receiving
<1>5. claimed' = 0 /\ InSyncUnlessEmptied'
  BY <1>1, Unclaimed
<1>6. DialogueInv'
  BY <1>1, <1>5 DEF DialogueInv
<1>7. ContentsInv' /\ CompleteInv'
  BY <1>1, LastIsNonEmpty, ClientKeepsClean DEF CompleteInv, Answered, NoMessage
<1>8. SentInv'
  <2>1. Covers(fl', draft)
    BY <1>1, <1>2, <1>3 DEF Covers
  <2> QED BY <1>1, <1>3, <2>1 DEF SentInv, Sending, Asked, server, NoMessage
<1>9. GotInv'
  BY <1>1 DEF GotInv, Asked, Answered, NoMessage
<1>10. AloneInv'
  <2>1. Kept' = Kept \cup {row}
    BY <1>1, <1>2 DEF Kept
  <2>2. ~ edited => KeptInFolder'
    BY <1>1, <1>2, <1>4, <2>1 DEF KeptInFolder
  <2> QED BY <1>1, <1>2, <1>4, <2>1, <2>2 DEF AloneInv, Sending, Asked, Answered, NoMessage,
                                              Receiving
<1> QED BY <1>5, <1>6, <1>7, <1>8, <1>9, <1>10 DEF CleanInv

LEMMA StartRemovingClean ==
  ASSUME ListInv, CleanInv, StartRemoving
  PROVE  CleanInv'
<1>1. /\ UNCHANGED <<server, local, claimed, folder, dirs, edited>>
      /\ UNCHANGED <<lastServer, lastLocal, version, fl>>
      /\ pc = "send" /\ todo = {} /\ pc' \in {"dead", "remove"} /\ wire' = NoMessage
      /\ todo' = {r.place : r \in {x \in fl : x.toRemove}}
  BY DEF StartRemoving, GoOn, ClientOnly, user
<1>2. claimed' = 0 /\ InSyncUnlessEmptied'
  BY <1>1, Unclaimed
<1>3. CASE pc' = "dead"
  BY <1>1, <1>2, <1>3, CleanAtRest, LastIsNonEmpty
<1>4. CASE pc' = "remove"
  <2>1. DialogueInv'
    BY <1>1, <1>2 DEF DialogueInv, NoMessage
  <2>2. ContentsInv' /\ CompleteInv'
    BY <1>1, <1>4, LastIsNonEmpty, ClientKeepsClean DEF CompleteInv, Answered, NoMessage
  <2>3. SentInv' /\ GotInv'
    BY <1>1, <1>4 DEF CleanInv, SentInv, GotInv, Sending, Asked, Answered, server, NoMessage
  <2>4. AloneInv'
    BY <1>1, <1>4 DEF CleanInv, AloneInv, Sending, Asked, Answered, NoMessage, Covers, Kept,
                      KeptInFolder, Receiving
  <2> QED BY <1>2, <2>1, <2>2, <2>3, <2>4 DEF CleanInv
<1> QED BY <1>1, <1>3, <1>4

LEMMA RemovalsClean ==
  ASSUME ListInv, CleanInv, RemoveNext \/ FileRemoved \/ StopUpdate
  PROVE  CleanInv'
<1>1. /\ UNCHANGED <<server, local, claimed, folder, dirs, edited>>
      /\ UNCHANGED <<lastServer, lastLocal, version, fl>>
      /\ pc \in {"remove", "removed"}
      /\ \/ /\ pc = "remove" /\ pc' = "removed"
            /\ \E p \in todo :
                 /\ todo' = todo \ {p}
                 /\ wire' = [to |-> "server", kind |-> "remove", place |-> p, content |-> 0]
         \/ /\ pc = "removed" /\ pc' = "remove" /\ wire' = NoMessage
            /\ wire.to = "client" /\ (wire.kind = "ok" => todo' = todo)
         \/ /\ pc = "remove" /\ pc' = "stop" /\ todo = {} /\ todo' = todo
            /\ wire' = [to |-> "server", kind |-> "stop", place |-> NoPlace, content |-> 0]
  BY DEF RemoveNext, FileRemoved, StopUpdate, Answered, Ask, GoOn, ClientOnly, user, client
<1>2. /\ pc = "removed" /\ wire.to = "client" => wire.kind = "ok" /\ wire # NoMessage
      /\ pc = "remove" => wire.to # "server"
  BY Quiet DEF CleanInv, DialogueInv, NoMessage
<1>3. claimed' = 0 /\ InSyncUnlessEmptied'
  BY <1>1, Unclaimed
<1>4. DialogueInv'
  BY <1>1, <1>3 DEF DialogueInv, NoMessage
<1>5. ContentsInv' /\ CompleteInv'
  BY <1>1, LastIsNonEmpty, ClientKeepsClean DEF CompleteInv, Answered, NoMessage
<1>6. SentInv'
  <2>1. /\ session = "update" /\ ~ changed => draft = LastOf(hist)
        /\ Covers(fl, draft)
    BY <1>1 DEF CleanInv, SentInv, Sending
  <2>2. pc = "remove" \/ (pc = "removed" /\ wire.to = "client") =>
          \A r \in fl : r.toRemove => r.place \notin DOMAIN draft \/ r.place \in todo
    BY <1>2 DEF CleanInv, SentInv, Asked
  <2>3. /\ session' = session /\ changed' = changed /\ draft' = draft /\ hist' = hist
        /\ fl' = fl /\ Covers(fl, draft)' = Covers(fl, draft)
    BY <1>1 DEF server, Covers
  <2>4. CASE pc' = "removed"
    <3>1. PICK p \in todo :
            /\ todo' = todo \ {p}
            /\ wire' = [to |-> "server", kind |-> "remove", place |-> p, content |-> 0]
      BY <1>1, <2>4
    <3> QED BY <1>1, <2>1, <2>2, <2>3, <2>4, <3>1 DEF SentInv, Sending, Asked
  <2>5. CASE pc' = "remove"
    BY <1>1, <1>2, <2>1, <2>2, <2>3, <2>5 DEF SentInv, Sending, Asked, NoMessage
  <2>6. CASE pc' = "stop"
    BY <1>1, <2>1, <2>2, <2>3, <2>6 DEF SentInv, Sending, Asked
  <2> QED BY <1>1, <2>4, <2>5, <2>6
<1>7. GotInv'
  BY <1>1 DEF GotInv, Asked, Answered, NoMessage
<1>8. AloneInv'
  <2>1. ~ edited => KeptInFolder /\ Covers(Kept, folder)
    BY <1>1 DEF CleanInv, AloneInv, Sending, Receiving
  <2>2. Kept' = Kept /\ KeptInFolder' = KeptInFolder
    BY <1>1 DEF Kept, KeptInFolder
  <2> QED BY <1>1, <2>1, <2>2 DEF AloneInv, Sending, Asked, Answered, NoMessage, Receiving
<1> QED BY <1>3, <1>4, <1>5, <1>6, <1>7, <1>8 DEF CleanInv

\* A commit that made no version leaves the last, and that is the directory unless
\* the directory is empty.
LEMMA UpdateStoppedClean ==
  ASSUME ListInv, CleanInv, UpdateStopped
  PROVE  CleanInv'
<1>1. /\ UNCHANGED <<server, local, folder, dirs, edited>>
      /\ UNCHANGED <<lastServer, lastLocal, fl, todo>>
      /\ pc = "stop" /\ wire.to = "client" /\ wire' = NoMessage
      /\ \/ /\ wire.kind = "ok" /\ wire.content > 0 /\ version' = wire.content
            /\ pc' = "clear" /\ claimed' = claimed
         \/ /\ wire.kind = "ok" /\ wire.content = 0 /\ version' = version
            /\ pc' = "idle" /\ claimed' = IF edited THEN 0 ELSE lastServer
         \/ wire.kind = "error"
  BY DEF UpdateStopped, Answered, GoOn, Success, ClientOnly, user
<1>2. wire.kind = "ok" /\ claimed = 0
  BY <1>1 DEF CleanInv, DialogueInv
<1>3. ~ edited =>
        IF wire.content > 0 THEN folder = hist[wire.content]
        ELSE folder = <<>> \/ folder = LastOf(hist)
  BY <1>1, <1>2 DEF CleanInv, AloneInv, Answered, Receiving
<1>4. CASE /\ wire.content = 0 /\ version' = version
           /\ pc' = "idle" /\ claimed' = IF edited THEN 0 ELSE lastServer
  <2>1. lastServer = Len(hist)
    BY <1>1, <1>2, <1>4 DEF ListInv, NumbersInv, Answered, Receiving
  <2>2. InSyncUnlessEmptied'
    <3>1. claimed' # 0 =>
            /\ Len(hist) > 0 /\ claimed' = Len(hist)
            /\ folder = <<>> \/ folder = LastOf(hist)
      BY <1>3, <1>4, <2>1, HistType
    <3>2. claimed' # 0 /\ folder # <<>> => folder = hist[claimed']
      BY <3>1, HistType
    <3> QED BY <1>1, <3>2 DEF InSyncUnlessEmptied, server
  <2> QED BY <1>1, <1>4, <2>2, CleanAtRest, LastIsNonEmpty
<1>5. CASE /\ wire.content > 0 /\ version' = wire.content
           /\ pc' = "clear" /\ claimed' = claimed
  <2>1. Covers({r \in fl : r.ver = wire.content}, hist[wire.content])
    BY <1>1, <1>2, <1>5 DEF CleanInv, CompleteInv, Answered
  <2>2. DialogueInv' /\ InSyncUnlessEmptied'
    BY <1>1, <1>2, <1>5 DEF DialogueInv, InSyncUnlessEmptied
  <2>3. ContentsInv'
    BY <1>1, LastIsNonEmpty, ClientKeepsClean
  <2>4. CompleteInv'
    BY <1>1, <1>5, <2>1 DEF CompleteInv, Answered, NoMessage, server
  <2>5. SentInv' /\ GotInv'
    BY <1>1, <1>5 DEF CleanInv, SentInv, GotInv, Sending, Asked, Answered, server, NoMessage
  <2>6. AloneInv'
    BY <1>1, <1>3, <1>5 DEF AloneInv, Sending, Asked, Answered, NoMessage, server, Receiving
  <2> QED BY <2>2, <2>3, <2>4, <2>5, <2>6 DEF CleanInv
<1> QED BY <1>1, <1>2, <1>4, <1>5

\* The list is replaced: of the version that was made or restored no row is
\* missing, in the old list or the new.
LEMMA ReplacingClean ==
  ASSUME ListInv, CleanInv, pc \in {"clear", "insert"},
         UNCHANGED <<server, claimed, folder, dirs, edited, version>>,
         pc' = "insert", wire' = NoMessage,
         Covers({r \in local' \cup fl' : r.ver = version}, hist[version])
  PROVE  CleanInv'
<1>1. hist' = hist /\ draft' = draft /\ session' = session /\ changed' = changed
  BY DEF server
<1>2. claimed' = 0 /\ InSyncUnlessEmptied'
  BY Unclaimed
<1>3. DialogueInv'
  BY <1>2 DEF DialogueInv, NoMessage
<1>4. ContentsInv'
  BY <1>1 DEF CleanInv, ContentsInv, NonEmptyFiles
<1>5. CompleteInv'
  BY <1>1 DEF CompleteInv, Answered, NoMessage
<1>6. SentInv' /\ GotInv'
  BY <1>1 DEF CleanInv, SentInv, GotInv, Sending, Asked, Answered, NoMessage
<1>7. AloneInv'
  BY <1>1 DEF CleanInv, AloneInv, Sending, Asked, Answered, NoMessage, Receiving
<1> QED BY <1>2, <1>3, <1>4, <1>5, <1>6, <1>7 DEF CleanInv

LEMMA RemoveFileListClean ==
  ASSUME ListInv, CleanInv, RemoveFileList
  PROVE  CleanInv'
<1>1. /\ UNCHANGED <<server, claimed, folder, dirs, edited, version>>
      /\ pc = "clear" /\ pc' = "insert" /\ wire' = NoMessage
      /\ local' = {} /\ fl' = fl
  BY DEF RemoveFileList, GoOn, ClientOnly, user, client
<1>2. Covers({r \in fl : r.ver = version}, hist[version])
  BY <1>1 DEF CleanInv, CompleteInv
<1>3. Covers({r \in local' \cup fl' : r.ver = version}, hist[version])
  BY <1>1, <1>2 DEF Covers
<1> QED BY <1>1, <1>3, ReplacingClean

LEMMA InsertFileListClean ==
  ASSUME ListInv, ListInv', CleanInv, InsertFileList
  PROVE  CleanInv'
<1>1. /\ UNCHANGED <<server, folder, dirs, edited, version>>
      /\ pc = "insert"
      /\ \/ /\ \E r \in fl : /\ local' = local \cup {[r EXCEPT !.toRemove = FALSE]}
                             /\ fl' = fl \ {r}
            /\ UNCHANGED <<pc, wire, claimed>>
         \/ /\ fl = {} /\ pc' = "idle" /\ wire' = NoMessage
            /\ claimed' = IF edited THEN 0 ELSE version
            /\ UNCHANGED <<local, fl>>
  BY DEF InsertFileList, Success, GoOn, ClientOnly, user
<1>2. Covers({r \in local \cup fl : r.ver = version}, hist[version])
  BY <1>1 DEF CleanInv, CompleteInv
<1>3. ASSUME NEW r \in fl, local' = local \cup {[r EXCEPT !.toRemove = FALSE]},
             fl' = fl \ {r}, UNCHANGED <<pc, wire, claimed>>
      PROVE  CleanInv'
  <2> DEFINE row == [r EXCEPT !.toRemove = FALSE]
  <2>1. row.place = r.place /\ row.ver = r.ver /\ local' = local \cup {row}
    BY <1>3, Types DEF Rows
  <2> HIDE DEF row
  <2>2. \A x \in local \cup fl : \E y \in local' \cup fl' : y.place = x.place /\ y.ver = x.ver
    BY <1>3, <2>1
  <2>3. Covers({x \in local' \cup fl' : x.ver = version}, hist[version])
    BY <1>2, <2>2 DEF Covers
  <2>4. wire = NoMessage
    BY <1>1, Quiet
  <2> QED BY <1>1, <1>3, <2>3, <2>4, ReplacingClean
<1>4. CASE /\ fl = {} /\ pc' = "idle" /\ wire' = NoMessage
           /\ claimed' = IF edited THEN 0 ELSE version
           /\ UNCHANGED <<local, fl>>
  <2>1. version = Len(hist)
    BY <1>1 DEF ListInv, NumbersInv, Receiving
  <2>2. InSyncUnlessEmptied'
    BY <1>1, <1>4 DEF CleanInv, AloneInv, InSyncUnlessEmptied, server, Receiving
  <2>3. local' # {} => Covers(RowsOf(LocalVersion), hist[LocalVersion])'
    <3> SUFFICES ASSUME local # {} PROVE Covers(RowsOf(LocalVersion), hist[LocalVersion])'
      BY <1>4
    <3>1. \A r \in local : r.ver \in 1..Len(hist)
      BY Types, HistType DEF RowIsTrue
    <3>2. Len(hist) \in DOMAIN hist
      BY <3>1, HistType
    <3>3. hist[Len(hist)] \in Listings /\ hist[Len(hist)] # <<>>
      BY <3>2, HistType DEF CleanInv, ContentsInv
    <3>4. \E r \in local : r.ver = Len(hist)
      <4>1. DOMAIN hist[Len(hist)] # {}
        BY <3>3, NoPlaces
      <4> QED BY <1>2, <1>4, <2>1, <4>1 DEF Covers
    <3>5. LocalVersion = Len(hist)
      <4>1. \E r \in local : \A s \in local : s.ver <= r.ver
        BY <3>1, <3>4, HistType
      <4>2. PICK r \in local : LocalVersion = r.ver /\ \A s \in local : s.ver <= r.ver
        BY <4>1 DEF LocalVersion
      <4> QED BY <3>1, <3>4, <4>2, HistType
    <3>6. Covers(RowsOf(LocalVersion), hist[LocalVersion])
      BY <1>2, <1>4, <2>1, <3>5 DEF Covers, RowsOf
    <3> QED BY <1>1, <1>4, <3>6, OldVersion DEF Covers, server
  <2>4. ContentsInv'
    BY <1>1, LastIsNonEmpty DEF CleanInv, ContentsInv, server, NonEmptyFiles
  <2>5. DialogueInv'
    BY <1>4 DEF DialogueInv, NoMessage
  <2>6. CompleteInv'
    BY <1>4, <2>3 DEF CompleteInv, Answered, NoMessage
  <2>7. SentInv' /\ GotInv' /\ AloneInv'
    BY <1>1, <1>4 DEF CleanInv, SentInv, GotInv, AloneInv, Sending, Asked, Answered, server,
                      NoMessage, Receiving
  <2> QED BY <2>2, <2>4, <2>5, <2>6, <2>7 DEF CleanInv
<1> QED BY <1>1, <1>3, <1>4

LEMMA UpdateRefusedClean ==
  ASSUME ListInv, CleanInv, UpdateRefused
  PROVE  CleanInv'
<1>1. /\ UNCHANGED <<server, local, claimed, folder, dirs>>
      /\ pc \in {"version", "start"} /\ pc' = "idle" /\ wire' = NoMessage
  BY DEF UpdateRefused, Answered, Fails, GoOn, ClientOnly
<1> QED BY <1>1, CleanAtRest, LastIsNonEmpty, Unclaimed

\* No file is refused.
LEMMA FileRefusedClean ==
  ASSUME ListInv, CleanInv, FileRefused
  PROVE  FALSE
BY DEF FileRefused, Answered, CleanInv, DialogueInv, NoMessage

LEMMA RestartClean ==
  ASSUME ListInv, CleanInv, Restart
  PROVE  CleanInv'
<1>1. /\ UNCHANGED <<server, local, folder, dirs>> /\ claimed' = 0
      /\ pc = "dead" /\ pc' = "idle" /\ wire' = NoMessage
  BY DEF Restart, GoOn
<1>2. InSyncUnlessEmptied'
  BY <1>1 DEF InSyncUnlessEmptied
<1> QED BY <1>1, <1>2, CleanAtRest, LastIsNonEmpty

\* A message that is lost or given up is the end of the dialogue.
LEMMA LoseClean ==
  ASSUME ListInv, CleanInv, Lose \/ ReadAhead
  PROVE  CleanInv'
<1>1. /\ UNCHANGED <<server, local, claimed, folder, dirs, edited>>
      /\ UNCHANGED <<pc, lastServer, lastLocal, version, fl, todo>>
      /\ wire # NoMessage /\ wire' = NoMessage
  BY DEF Lose, ReadAhead, ServerFault, user, client, server, NoMessage
<1>2. pc \in {"version", "restore", "receive", "start", "added", "removed", "stop"}
  BY <1>1, Quiet
<1>3. claimed' = 0 /\ InSyncUnlessEmptied'
  BY <1>1, <1>2, Unclaimed
<1>4. DialogueInv'
  BY <1>1, <1>3 DEF DialogueInv, NoMessage
<1>5. ContentsInv' /\ CompleteInv'
  <2>1. pc = "start" => lastLocal = LocalVersion'
    BY <1>1, OldVersion DEF CleanInv, CompleteInv
  <2> QED BY <1>1, <1>2, <2>1, LastIsNonEmpty, ClientKeepsClean
          DEF CompleteInv, Answered, NoMessage
<1>6. SentInv' /\ GotInv'
  BY <1>1, <1>2 DEF CleanInv, SentInv, GotInv, Sending, Asked, Answered, server, Covers, NoMessage
<1>7. AloneInv'
  <2>1. Kept' = Kept /\ KeptInFolder' = KeptInFolder
    BY <1>1 DEF Kept, KeptInFolder
  <2> QED BY <1>1, <1>2, <2>1
          DEF CleanInv, AloneInv, Sending, Asked, Answered, server, Covers, NoMessage, Receiving
<1> QED BY <1>3, <1>4, <1>5, <1>6, <1>7 DEF CleanInv

\* None of this is about directories without files.
LEMMA UnchangedClean ==
  ASSUME CleanInv, UNCHANGED <<pc, wire, folder, local, claimed, edited>>,
         UNCHANGED <<lastServer, lastLocal, version, fl, todo, hist, session, draft, changed>>
  PROVE  CleanInv'
<1>1. ContentsInv' /\ DialogueInv' /\ InSyncUnlessEmptied' /\ SentInv' /\ GotInv'
  BY DEF CleanInv, ContentsInv, DialogueInv, InSyncUnlessEmptied, SentInv, GotInv, Asked,
         Answered, NonEmptyFiles, Covers
<1>2. CompleteInv'
  <2>1. /\ CompleteInv
        /\ LocalVersion' = LocalVersion /\ RowsOf(LocalVersion)' = RowsOf(LocalVersion)
    BY OldVersion DEF CleanInv
  <2> QED BY <2>1 DEF CompleteInv, Answered, Covers
<1>3. AloneInv'
  BY DEF CleanInv, AloneInv, Asked, Answered, KeptInFolder, Kept, Covers
<1> QED BY <1>1, <1>2, <1>3 DEF CleanInv

\* A write or deletion of the user: the window says nothing until the next update.
LEMMA UserEditsClean ==
  ASSUME Calm, ListInv, CleanInv, UserEdits
  PROVE  CleanInv'
<1>1. /\ UNCHANGED <<pc, wire, local, client, server, others, faults>>
      /\ edited' = TRUE /\ claimed' = 0
      /\ \E f \in Files : UserWrites(f) \/ UserDeletes(f)
  BY DEF UserEdits
<1>2. NonEmptyFiles(folder')
  <2>1. PICK f \in Files : UserWrites(f) \/ UserDeletes(f)
    BY <1>1
  <2>2. CASE UserWrites(f)
    <3>1. folder' = Put(folder, <<f, 0>>, Fresh)
      BY <2>2 DEF UserWrites, Calm
    <3>2. Fresh # 0
      BY DEF Fresh, ListInv, TypeOK
    <3> QED BY <3>1, <3>2, LastIsNonEmpty, NonEmptyKept
  <2>3. CASE UserDeletes(f)
    BY <2>3, LastIsNonEmpty, NonEmptyKept DEF UserDeletes
  <2> QED BY <2>1, <2>2, <2>3
<1>3. ContentsInv'
  BY <1>1, <1>2, ClientKeepsClean
<1>4. DialogueInv' /\ InSyncUnlessEmptied' /\ AloneInv'
  BY <1>1 DEF CleanInv, DialogueInv, InSyncUnlessEmptied, AloneInv, Receiving
<1>5. CompleteInv'
  <2>1. CompleteInv /\ LocalVersion' = LocalVersion /\ RowsOf(LocalVersion)' = RowsOf(LocalVersion)
    BY <1>1, OldVersion DEF CleanInv
  <2> QED BY <1>1, <2>1 DEF CompleteInv, Answered, client, server, Covers
<1>6. SentInv' /\ GotInv'
  BY <1>1 DEF CleanInv, SentInv, GotInv, Asked, Answered, client, server, Covers
<1> QED BY <1>3, <1>4, <1>5, <1>6 DEF CleanInv

LEMMA UserDirectoriesClean ==
  ASSUME ListInv, CleanInv, UserChangesDirectories
  PROVE  CleanInv'
<1>1. /\ UNCHANGED <<pc, wire, folder, local, claimed, edited>>
      /\ UNCHANGED <<lastServer, lastLocal, version, fl, todo, hist, session, draft, changed>>
  BY DEF UserChangesDirectories, client, server, user
<1> QED BY <1>1, UnchangedClean

LEMMA OtherDeviceClean ==
  ASSUME Calm, ListInv, CleanInv, OtherDeviceCommits
  PROVE  CleanInv'
<1>1. /\ UNCHANGED <<pc, wire, folder, dirs, local, client, session, draft, changed>>
      /\ UNCHANGED <<claimed, edited>>
      /\ pc \in {"idle", "dead"} /\ session = "none" /\ others < MaxOthers
      /\ \E f \in Files : hist' = Append(hist, Put(LastOf(hist), <<f, 0>>, Fresh))
  BY DEF OtherDeviceCommits, Calm
<1>2. wire = NoMessage
  BY <1>1, Quiet
<1>3. PICK f \in Files : hist' = Append(hist, Put(LastOf(hist), <<f, 0>>, Fresh))
  BY <1>1
<1> DEFINE l == Put(LastOf(hist), <<f, 0>>, Fresh)
<1>4. l \in Listings /\ NonEmptyFiles(l) /\ l # <<>>
  <2>1. <<f, 0>> \in Places
    BY DEF Places, MaxDepth
  <2>2. Fresh # 0
    BY DEF Fresh, ListInv, TypeOK
  <2>3. DOMAIN l # {}
    BY DEF Put
  <2>4. NonEmptyFiles(l)
    BY <2>2, LastIsNonEmpty, NonEmptyKept
  <2>5. l \in Listings
    BY <1>1, <2>1, HistType, FreshType, PutType
  <2> QED BY <2>3, <2>4, <2>5, EmptyType
<1> HIDE DEF l
<1>5. /\ Len(hist) \in Nat /\ Grows
      /\ \A i \in DOMAIN hist' : i \in DOMAIN hist \/ hist'[i] = l
  <2>1. hist' = Append(hist, l)
    BY <1>3 DEF l
  <2> QED BY <1>4, <2>1, HistType, Appended DEF Grows
<1>6. ContentsInv'
  BY <1>1, <1>4, <1>5 DEF CleanInv, ContentsInv, Grows, NonEmptyFiles
<1>7. DialogueInv'
  BY <1>1, <1>2 DEF CleanInv, DialogueInv, NoMessage
<1>8. InSyncUnlessEmptied'
  <2>1. claimed \in 0..Len(hist)
    BY Types
  <2>2. claimed # 0 => hist'[claimed] = hist[claimed]
    BY <1>5, <2>1, HistType DEF Grows
  <2> QED BY <1>1, <2>2 DEF CleanInv, InSyncUnlessEmptied
<1>9. CompleteInv'
  <2>1. local # {} => Covers(RowsOf(LocalVersion), hist[LocalVersion])
    BY <1>1 DEF CleanInv, CompleteInv
  <2>2. local # {} => hist'[LocalVersion] = hist[LocalVersion]
    BY <1>5, VersionThere DEF Grows
  <2>3. local' # {} => Covers(RowsOf(LocalVersion), hist[LocalVersion])'
    BY <1>1, <2>1, <2>2, OldVersion DEF Covers
  <2> QED BY <1>1, <1>2, <2>3 DEF CompleteInv, Answered, NoMessage
<1>10. SentInv' /\ GotInv' /\ AloneInv'
  BY <1>1, <1>2 DEF SentInv, GotInv, AloneInv, Sending, Asked, Answered, NoMessage, Receiving
<1> QED BY <1>6, <1>7, <1>8, <1>9, <1>10 DEF CleanInv

LEMMA CleanInitially ==
  ASSUME Init
  PROVE  CleanInv
<1>1. /\ pc = "idle" /\ wire = NoMessage /\ folder = <<>> /\ local = {} /\ session = "none"
      /\ draft = <<>> /\ claimed = 0 /\ edited = TRUE
  BY DEF Init
<1>2. \A i \in DOMAIN hist : hist[i] # <<>> /\ NonEmptyFiles(hist[i])
  <2>1. hist \in IF Earlier = 0 THEN {<<>>} ELSE {<<Put(<<>>, <<f, 0>>, 1)>> : f \in Files}
    BY DEF Init
  <2>2. hist = <<>> \/ \E f \in Files : hist = <<Put(<<>>, <<f, 0>>, 1)>>
    BY <2>1, Zenon
  <2>3. ASSUME NEW f \in Files, NEW l, l = Put(<<>>, <<f, 0>>, 1), hist = <<l>>
        PROVE  \A i \in DOMAIN hist : hist[i] # <<>> /\ NonEmptyFiles(hist[i])
    <3>1. NonEmptyFiles(l) /\ l # <<>>
      BY <2>3, EmptyType DEF Put, NonEmptyFiles
    <3> QED BY <2>3, <3>1
  <2>4. CASE hist = <<>>
    BY <2>4
  <2> QED BY <2>2, <2>3, <2>4
<1>3. ContentsInv
  BY <1>1, <1>2, EmptyType DEF ContentsInv, NonEmptyFiles
<1>4. DialogueInv /\ InSyncUnlessEmptied /\ CompleteInv /\ SentInv /\ GotInv /\ AloneInv
  BY <1>1 DEF DialogueInv, InSyncUnlessEmptied, CompleteInv, SentInv, GotInv, AloneInv, Sending,
              Asked, Answered, NoMessage, Receiving
<1> QED BY <1>3, <1>4 DEF CleanInv

LEMMA StepKeepsClean ==
  ASSUME Calm, ListInv, ListInv', CleanInv, [Next]_vars
  PROVE  CleanInv'
<1>1. CASE Client
  BY <1>1, UpdateCurrentVersionClean, ReadLastVersionClean, SetAsideClean, RestoreBeginsClean,
     StoreFileClean, RestoreStopClean, RestoreErrorClean, UpdateStartedClean,
     UpdateRefusedClean, ProcessFileClean, FileAddedClean, FileRefusedClean, StartRemovingClean,
     RemovalsClean, UpdateStoppedClean, RemoveFileListClean, InsertFileListClean
     DEF Client
<1>2. CASE Server
  BY <1>2, GetLastVersionClean, UpdateStartClean, AddNewFileClean, RemoveFileClean,
     UpdateStopClean, RestoreVersionClean, RestoreFileAckClean
     DEF Server
<1>3. CASE Environment
  <2>1. ~ LocalError /\ ~ RequestFails /\ ~ Crash
    BY DEF LocalError, RequestFails, Crash, MayFail, Calm
  <2> QED BY <1>3, <2>1, UserEditsClean, UserDirectoriesClean, OtherDeviceClean, RejectFileClean,
          LoseClean DEF Environment
<1>4. CASE SessionExpires \/ Restart
  BY <1>4, SessionExpiresClean, RestartClean
<1>5. CASE UNCHANGED vars
  <2>1. /\ UNCHANGED <<pc, wire, folder, dirs, local, claimed, edited>>
        /\ UNCHANGED <<lastServer, lastLocal, version, fl, todo, hist, session, draft, changed>>
    BY <1>5 DEF vars, client, server, user
  <2> QED BY <2>1, UnchangedClean
<1> QED BY <1>1, <1>2, <1>3, <1>4, <1>5 DEF Next

LEMMA CleanInvariant == ASSUME Calm PROVE Spec => [](ListInv /\ CleanInv)
<1>1. Init => ListInv /\ CleanInv
  BY ListInitially, CleanInitially
<1>2. ListInv /\ CleanInv /\ [Next]_vars => (ListInv /\ CleanInv)'
  BY StepKeepsList, StepKeepsClean DEF Calm
<1> QED BY <1>1, <1>2, PTL DEF Spec

\* What the window says of the directory is true: after onUpdateSuccess or
\* onRestoreSuccess, and until the user edits, its files are those of the version
\* the window names, unless it has no file at all and only directories, where the
\* code is wrong (sync_emptied.cfg).  The user may edit at any time and other
\* devices commit between the updates; messages may be lost or given up by readMsg,
\* and files garbled.
THEOREM WindowTellsTheTruth == Calm => (Spec => []InSyncUnlessEmptied)
<1> SUFFICES ASSUME Calm PROVE Spec => []InSyncUnlessEmptied
  OBVIOUS
<1>1. ListInv /\ CleanInv => InSyncUnlessEmptied
  BY DEF CleanInv
<1> QED BY <1>1, CleanInvariant, PTL

------------------------------------------------------------------------------
(* What the user wrote.  As long as at most one version is not this        *)
(* device's own, one restore moves the files aside.                        *)

OneRestore == Calm /\ Earlier + MaxOthers <= 1

InRoot(l) == \A p \in DOMAIN l : p[2] = 0
\* The versions that are not this device's own.
Foreign == Earlier + others
Behind == LocalVersion < Len(hist)

\* Without one nothing is ever moved, and nothing but the root is synchronized.
OwnInv ==
  Foreign = 0 =>
    /\ InRoot(folder) /\ InRoot(draft)
    /\ \A i \in DOMAIN hist : InRoot(hist[i])
    /\ pc \in {"send", "added"} => \A p \in todo : p[2] = 0
    /\ pc = "added" /\ wire # NoMessage => wire.place[2] = 0

\* Only that one is missing in the list, once, and no session is in the way of
\* its restore.
BehindInv ==
  /\ pc \notin {"aside", "stop", "clear", "insert"} \cup Receiving /\ Behind =>
       Foreign = 1 /\ InRoot(folder) /\ InRoot(LastOf(hist)) /\ session = "none"
  /\ pc \in {"start"} \cup Sending \/ Asked("stop") => ~ Behind
  /\ Answered("stop", "ok") /\ wire.content = 0 => ~ Behind
  /\ pc = "aside" \/ Asked("restore") => session = "none"
  /\ pc \in {"aside"} \cup Receiving => Foreign = 1 /\ InRoot(LastOf(hist))
  /\ pc \in {"clear", "insert"} /\ Restoring => Foreign = 1
  /\ pc # "putback" /\ ~ Answered("restore", "error") /\ ~ Answered("receive", "error")

IsAt(f, d) == <<f, d>> \in DOMAIN folder /\ folder[<<f, d>>] = written[f]

\* Every file is moved once, to a place where there was none.
PlaceInv ==
  /\ pc = "aside" =>
       /\ \A p \in todo : p[2] = 0 /\ <<p[1], 1>> \notin DOMAIN folder
       /\ \A f \in DOMAIN written : IsAt(f, 1) \/ (IsAt(f, 0) /\ <<f, 0>> \in todo)
  /\ pc \in Receiving \/ (pc \in {"clear", "insert"} /\ Restoring) =>
       \A f \in DOMAIN written : IsAt(f, 1)
  /\ ~ MovingFiles => \A f \in DOMAIN written : IsAt(f, 0) \/ IsAt(f, 1)

KeptInv == OwnInv /\ BehindInv /\ PlaceInv

LEMMA InRootKept ==
  ASSUME NEW l, InRoot(l), NEW p
  PROVE  /\ InRoot(Drop(l, p)) /\ InRoot(<<>>)
         /\ \A c : p[2] = 0 => InRoot(Put(l, p, c))
<1>1. InRoot(Drop(l, p)) /\ \A c : p[2] = 0 => InRoot(Put(l, p, c))
  BY DEF InRoot, Drop, Put
<1> QED BY <1>1, EmptyType DEF InRoot

LEMMA NumberTypes ==
  ASSUME ListInv
  PROVE  /\ LocalVersion \in Nat /\ Len(hist) \in Nat
         /\ lastServer \in Nat /\ lastLocal \in Nat /\ Foreign \in Nat
BY LocalVersionType, Types, HistType, SyncAssumption DEF Foreign, ListInv, TypeOK

LEMMA BehindStays ==
  ASSUME UNCHANGED <<hist, local>>
  PROVE  Behind' = Behind
BY OldVersion DEF Behind

\* The dialogue: who waits for what.
LEMMA AskedAt ==
  ASSUME ListInv, wire.to = "server"
  PROVE  wire # NoMessage /\ <<pc, wire.kind>> \in AsksAt
BY DEF ListInv, WireInv, NoMessage

\* The files stay where they are.
LEMMA PlacesStay ==
  ASSUME KeptInv, UNCHANGED <<folder, dirs, written>>, ~ MovingFiles, ~ MovingFiles',
         pc' \notin {"aside", "restore", "receive"}, pc' \in {"clear", "insert"} => ~ Restoring'
  PROVE  PlaceInv'
BY DEF KeptInv, PlaceInv, IsAt, Receiving

LEMMA ServerPlaces ==
  ASSUME KeptInv, ServerOnly
  PROVE  PlaceInv'
<1>1. /\ UNCHANGED <<pc, folder, dirs, written, todo, lastServer, lastLocal>>
  BY DEF ServerOnly, client, user
<1> QED BY <1>1 DEF KeptInv, PlaceInv, IsAt, MovingFiles, Restoring, Receiving

LEMMA GetLastVersionKept ==
  ASSUME ListInv, KeptInv, GetLastVersion
  PROVE  KeptInv'
<1>1. /\ UNCHANGED <<pc, folder, dirs, local, hist, session, draft, todo>>
      /\ UNCHANGED <<lastServer, lastLocal, others>>
      /\ wire.to = "server" /\ wire.kind = "version" /\ ServerOnly
      /\ wire' = [to |-> "client", kind |-> "version", place |-> NoPlace, content |-> Len(hist)]
  BY DEF GetLastVersion, ServerOnly, Asked, Answer, client, server, user
<1>2. pc = "version"
  BY <1>1, AskedAt DEF AsksAt
<1>3. OwnInv'
  BY <1>1, <1>2 DEF KeptInv, OwnInv, Foreign
<1>4. BehindInv'
  BY <1>1, <1>2, BehindStays
     DEF KeptInv, BehindInv, Foreign, Sending, Asked, Answered, Restoring, LastOf, Receiving
<1> QED BY <1>1, <1>3, <1>4, ServerPlaces DEF KeptInv

LEMMA UpdateStartKept ==
  ASSUME ListInv, KeptInv, UpdateStart
  PROVE  KeptInv'
<1>1. /\ UNCHANGED <<pc, folder, dirs, local, hist, todo, lastServer, lastLocal, others>>
      /\ wire.to = "server" /\ wire.kind = "start" /\ ServerOnly
      /\ wire'.kind \in {"ok", "error"}
      /\ draft' = LastOf(hist) \/ UNCHANGED draft
  BY DEF UpdateStart, ServerOnly, Asked, Answer, OpenSession, client, user
<1>2. pc = "start"
  BY <1>1, AskedAt DEF AsksAt
<1>3. OwnInv'
  <2>1. Foreign = 0 => InRoot(LastOf(hist))
    BY HistType, EmptyType DEF KeptInv, OwnInv, InRoot
  <2> QED BY <1>1, <1>2, <2>1 DEF KeptInv, OwnInv, Foreign
<1>4. BehindInv'
  BY <1>1, <1>2, BehindStays DEF KeptInv, BehindInv, Foreign, Sending, Asked, Answered, Receiving
<1> QED BY <1>1, <1>3, <1>4, ServerPlaces DEF KeptInv

LEMMA DraftChangesKept ==
  ASSUME ListInv, KeptInv, AddNewFile \/ RemoveFile
  PROVE  KeptInv'
<1>1. /\ UNCHANGED <<pc, folder, dirs, local, hist, session, todo, lastServer, lastLocal, others>>
      /\ wire.to = "server" /\ ServerOnly
      /\ \/ wire.kind = "add" /\ draft' = Put(draft, wire.place, wire.content)
         \/ wire.kind = "remove" /\ draft' = Drop(draft, wire.place)
      /\ wire'.place = wire.place /\ wire'.to = "client"
  BY DEF AddNewFile, RemoveFile, ServerOnly, Asked, Answer, client, user
<1>2. wire # NoMessage /\ IF wire.kind = "add" THEN pc = "added" ELSE pc = "removed"
  BY <1>1, AskedAt DEF AsksAt
<1>3. OwnInv'
  BY <1>1, <1>2, InRootKept DEF KeptInv, OwnInv, Foreign
<1>4. BehindInv'
  BY <1>1, <1>2, BehindStays DEF KeptInv, BehindInv, Foreign, Sending, Asked, Answered, Receiving
<1> QED BY <1>1, <1>3, <1>4, ServerPlaces DEF KeptInv

LEMMA UpdateStopKept ==
  ASSUME ListInv, KeptInv, UpdateStop
  PROVE  KeptInv'
<1>1. /\ UNCHANGED <<pc, folder, dirs, local, todo, lastServer, lastLocal, others>>
      /\ wire.to = "server" /\ wire.kind = "stop" /\ ServerOnly /\ draft' = <<>>
      /\ wire'.to = "client" /\ wire'.kind = "ok"
      /\ \/ hist' = Append(hist, draft) /\ wire'.content = Len(hist) + 1
         \/ hist' = hist /\ wire'.content = 0
  BY DEF UpdateStop, ServerOnly, Asked, Answer, CloseSession, client, user
<1>2. pc = "stop"
  BY <1>1, AskedAt DEF AsksAt
<1>3. OwnInv'
  <2>1. draft \in Listings
    BY DEF ListInv, TypeOK
  <2>2. \A i \in DOMAIN hist' : (i \in DOMAIN hist /\ hist'[i] = hist[i]) \/ hist'[i] = draft
    <3>1. CASE hist' = Append(hist, draft)
      BY <2>1, <3>1, HistType, Appended
    <3> QED BY <1>1, <3>1
  <2>3. SUFFICES ASSUME Foreign = 0 PROVE OwnInv'
    BY <1>1 DEF OwnInv, Foreign
  <2>4. InRoot(draft) /\ \A i \in DOMAIN hist : InRoot(hist[i])
    BY <2>3 DEF KeptInv, OwnInv
  <2>5. \A i \in DOMAIN hist' : InRoot(hist'[i])
    BY <2>2, <2>4
  <2> QED BY <1>1, <1>2, <2>3, <2>4, <2>5, InRootKept DEF KeptInv, OwnInv, InRoot
<1>4. BehindInv'
  <2>1. wire'.content = 0 => hist' = hist
    BY <1>1, NumberTypes
  <2>2. ~ Behind
    BY <1>1 DEF KeptInv, BehindInv, Asked, Receiving
  <2> QED BY <1>1, <1>2, <2>1, <2>2, BehindStays DEF BehindInv, Sending, Asked, Answered, Receiving
<1> QED BY <1>1, <1>3, <1>4, ServerPlaces DEF KeptInv

\* No session is in the way.
LEMMA RestoreStepsKept ==
  ASSUME ListInv, KeptInv, RestoreVersion \/ RestoreFileAck
  PROVE  KeptInv'
<1>1. /\ UNCHANGED <<pc, folder, dirs, local, hist, todo, lastServer, lastLocal, others>>
      /\ wire.to = "server" /\ wire.kind \in {"restore", "nack", "ack"} /\ ServerOnly
  BY DEF RestoreVersion, RestoreFileAck, ServerOnly, Asked, Answer, client, user
<1>2. pc \in Receiving
  BY <1>1, AskedAt DEF AsksAt, Receiving
<1>3. wire'.to = "client" /\ wire'.kind \in {"begin", "file", "stop"}
  BY <1>1 DEF RestoreVersion, RestoreFileAck, Asked, Answer, Offer, KeptInv, BehindInv, Receiving
<1>4. Foreign = 1 /\ InRoot(LastOf(hist))
  BY <1>2 DEF KeptInv, BehindInv, Receiving
<1>5. OwnInv'
  BY <1>1, <1>4 DEF OwnInv, Foreign
<1>6. BehindInv'
  BY <1>1, <1>2, <1>3, <1>4 DEF BehindInv, Foreign, Sending, Asked, Answered, LastOf, Receiving
<1> QED BY <1>1, <1>5, <1>6, ServerPlaces DEF KeptInv

LEMMA SessionExpiresKept ==
  ASSUME ListInv, KeptInv, SessionExpires
  PROVE  KeptInv'
<1>1. /\ UNCHANGED <<pc, wire, folder, dirs, local, hist, todo, lastServer, lastLocal, others>>
      /\ pc \in {"idle", "version", "aside", "dead"} /\ ServerOnly
      /\ session' = "none" /\ draft' = <<>>
  BY DEF SessionExpires, ServerOnly, CloseSession, client, user
<1>2. OwnInv'
  BY <1>1, InRootKept, EmptyType DEF KeptInv, OwnInv, Foreign, InRoot
<1>3. BehindInv'
  BY <1>1, BehindStays DEF KeptInv, BehindInv, Foreign, Sending, Asked, Answered, LastOf, Receiving
<1> QED BY <1>1, <1>2, <1>3, ServerPlaces DEF KeptInv

\* Requests and answers at either end of an update or restore.
LEMMA UpdateCurrentVersionKept ==
  ASSUME ListInv, KeptInv, UpdateCurrentVersion
  PROVE  KeptInv'
<1>1. /\ UNCHANGED <<folder, dirs, local, hist, session, draft, todo>>
      /\ UNCHANGED <<lastServer, lastLocal, others>>
      /\ UNCHANGED written /\ pc = "idle" /\ pc' = "version" /\ wire'.kind = "version"
  BY DEF UpdateCurrentVersion, Ask, client, server
<1>2. OwnInv' /\ BehindInv'
  BY <1>1, BehindStays
     DEF KeptInv, OwnInv, BehindInv, Foreign, Sending, Asked, Answered, LastOf, Receiving
<1>3. PlaceInv'
  BY <1>1, PlacesStay DEF MovingFiles
<1> QED BY <1>2, <1>3 DEF KeptInv

LEMMA ReadLastVersionKept ==
  ASSUME ListInv, KeptInv, ReadLastVersion
  PROVE  KeptInv'
<1>1. /\ UNCHANGED <<folder, dirs, local, hist, session, draft, others, written>>
      /\ pc = "version" /\ Answered("version", "version")
      /\ lastServer' = wire.content /\ todo' = DOMAIN folder
      /\ lastLocal' = IF wire.content = 0 THEN 0 ELSE LocalVersion
      /\ \/ lastServer' > lastLocal' /\ pc' = "aside" /\ wire' = NoMessage
         \/ pc' = "idle" /\ wire' = NoMessage
         \/ lastServer' <= lastLocal' /\ pc' = "start" /\ wire'.kind = "start"
  BY DEF ReadLastVersion, Answered, GoOn, Ask, ClientOnly, server, user
<1>2. lastServer' = Len(hist) /\ lastLocal' = LocalVersion
  <2>1. wire.content = Len(hist)
    BY <1>1 DEF ListInv, NumbersInv, Receiving
  <2> QED BY <1>1, <2>1, LocalVersionType
<1>3. /\ Behind => Foreign = 1 /\ InRoot(folder) /\ InRoot(LastOf(hist)) /\ session = "none"
      /\ \A f \in DOMAIN written : IsAt(f, 0) \/ IsAt(f, 1)
  BY <1>1 DEF KeptInv, BehindInv, PlaceInv, MovingFiles, Receiving
<1>4. OwnInv'
  BY <1>1 DEF KeptInv, OwnInv, Foreign
<1>5. CASE pc' = "aside"
  <2>1. Behind
    BY <1>1, <1>2, <1>5, NumberTypes DEF Behind
  <2>2. BehindInv'
    BY <1>1, <1>3, <1>5, <2>1
       DEF BehindInv, Foreign, Sending, Asked, Answered, LastOf, NoMessage, Receiving
  <2>3. \A p \in DOMAIN folder : p[2] = 0
    BY <1>3, <2>1 DEF InRoot
  <2>4. \A x : <<x, 1>> \notin DOMAIN folder
    <3>1. ASSUME NEW x, <<x, 1>> \in DOMAIN folder PROVE FALSE
      BY <2>3, <3>1
    <3> QED BY <3>1
  <2>5. PlaceInv'
    BY <1>1, <1>3, <1>5, <2>3, <2>4 DEF PlaceInv, IsAt, MovingFiles, Receiving
  <2> QED BY <1>4, <2>2, <2>5 DEF KeptInv
<1>6. CASE pc' \in {"idle", "start"}
  <2>1. pc' = "start" => ~ Behind
    BY <1>1, <1>2, NumberTypes DEF Behind
  <2>2. BehindInv'
    BY <1>1, <1>3, <1>6, <2>1, BehindStays
       DEF BehindInv, Foreign, Sending, Asked, Answered, LastOf, NoMessage, Receiving
  <2>3. ~ MovingFiles /\ ~ MovingFiles'
    BY <1>1, <1>6 DEF MovingFiles
  <2>4. PlaceInv'
    BY <1>1, <1>6, <2>3, PlacesStay
  <2> QED BY <1>4, <2>2, <2>4 DEF KeptInv
<1> QED BY <1>1, <1>5, <1>6

\* The files are moved, each of them to a place that is free.
LEMMA SetAsideKept ==
  ASSUME ListInv, KeptInv, SetAside
  PROVE  KeptInv'
<1>1. /\ UNCHANGED <<local, hist, session, draft, others, written, lastServer, lastLocal>>
      /\ pc = "aside"
      /\ \/ /\ pc' = "aside" /\ wire' = wire
            /\ \E p \in todo : Move(p, p[2] + 1)
         \/ /\ pc' = "restore" /\ UNCHANGED <<folder, dirs, todo>>
            /\ \A p \in todo : p[2] = MaxDepth
            /\ wire'.to = "server" /\ wire'.kind = "restore"
  BY DEF SetAside, Ask, ClientOnly, server, user
<1>2. Foreign = 1 /\ InRoot(LastOf(hist)) /\ session = "none" /\ wire = NoMessage
  BY <1>1, Quiet DEF KeptInv, BehindInv, Receiving
<1>3. /\ \A p \in todo : p[2] = 0 /\ <<p[1], 1>> \notin DOMAIN folder
      /\ \A f \in DOMAIN written : IsAt(f, 1) \/ (IsAt(f, 0) /\ <<f, 0>> \in todo)
  BY <1>1 DEF KeptInv, PlaceInv, Receiving
<1>4. OwnInv' /\ BehindInv'
  <2>1. Foreign' = 1 /\ InRoot(LastOf(hist))' /\ session' = "none"
    BY <1>1, <1>2 DEF Foreign, LastOf
  <2>2. /\ pc' \in {"aside", "restore"} /\ wire'.to # "client"
        /\ wire' = NoMessage \/ wire'.kind = "restore"
    BY <1>1, <1>2 DEF NoMessage
  <2>3. OwnInv'
    BY <2>1 DEF OwnInv
  <2>4. BehindInv'
    BY <2>1, <2>2 DEF BehindInv, Sending, Asked, Answered, NoMessage, Receiving
  <2> QED BY <2>3, <2>4
<1>5. ASSUME pc' = "aside", NEW p \in todo, Move(p, p[2] + 1)
      PROVE  PlaceInv'
  <2>1. p = <<p[1], 0>> /\ p[2] + 1 = 1 /\ todo' = todo \ {p}
    <3>1. p \in Places /\ p[2] = 0
      BY <1>3, <1>5, Types
    <3>2. p = <<p[1], 0>>
      BY <3>1 DEF Places
    <3> QED BY <1>5, <3>1, <3>2 DEF Move
  <2>2. CASE p \notin DOMAIN folder
    <3>1. folder' = folder
      BY <1>5, <2>2 DEF Move
    <3> QED BY <1>1, <1>3, <1>5, <2>1, <2>2, <3>1 DEF PlaceInv, IsAt, MovingFiles, Receiving
  <2>3. CASE p \in DOMAIN folder
    <3>1. folder' = Put(Drop(folder, p), <<p[1], 1>>, folder[p])
      BY <1>5, <2>1, <2>3 DEF Move
    <3>2. /\ DOMAIN folder' = (DOMAIN folder \ {p}) \cup {<<p[1], 1>>}
          /\ folder'[<<p[1], 1>>] = folder[p]
          /\ \A q \in DOMAIN folder \ {p} : q # <<p[1], 1>> => folder'[q] = folder[q]
      BY <3>1 DEF Put, Drop
    <3>3. ASSUME NEW q \in todo'
          PROVE  q[2] = 0 /\ <<q[1], 1>> \notin DOMAIN folder'
      <4>1. q \in todo /\ q # p /\ q = <<q[1], 0>> /\ <<q[1], 1>> \notin DOMAIN folder
        BY <1>3, <2>1, <3>3, Types DEF Places
      <4>2. <<q[1], 1>> # <<p[1], 1>>
        BY <2>1, <4>1
      <4> QED BY <1>3, <3>2, <4>1, <4>2
    <3>4. ASSUME NEW f \in DOMAIN written
          PROVE  IsAt(f, 1)' \/ (IsAt(f, 0)' /\ <<f, 0>> \in todo')
      <4>1. CASE IsAt(f, 1)
        <5>1. <<f, 1>> # p
          BY <2>1
        <5>2. <<f, 1>> # <<p[1], 1>>
          BY <1>3, <4>1 DEF IsAt
        <5> QED BY <1>1, <3>2, <4>1, <5>1, <5>2 DEF IsAt
      <4>2. CASE IsAt(f, 0) /\ <<f, 0>> = p
        <5>1. <<p[1], 1>> = <<f, 1>>
          BY <4>2
        <5> QED BY <1>1, <3>2, <4>2, <5>1 DEF IsAt
      <4>3. CASE IsAt(f, 0) /\ <<f, 0>> \in todo /\ <<f, 0>> # p
        <5>1. <<f, 0>> # <<p[1], 1>>
          OBVIOUS
        <5> QED BY <1>1, <2>1, <3>2, <4>3, <5>1 DEF IsAt
      <4> QED BY <1>3, <4>1, <4>2, <4>3
    <3>5. DOMAIN written' = DOMAIN written
      BY <1>1
    <3> QED BY <1>5, <3>3, <3>4, <3>5 DEF PlaceInv, MovingFiles, Receiving
  <2> QED BY <2>2, <2>3
<1>6. CASE pc' = "restore" /\ UNCHANGED <<folder, dirs, todo>> /\ \A p \in todo : p[2] = MaxDepth
  <2>1. ASSUME NEW p \in todo PROVE FALSE
    <3>1. p[2] = 0 /\ p[2] = 2
      BY <1>3, <1>6 DEF MaxDepth
    <3> QED BY <3>1
  <2>2. \A f \in DOMAIN written : IsAt(f, 1)
    BY <1>3, <2>1
  <2>3. \A f \in DOMAIN written' : IsAt(f, 1)'
    BY <1>1, <1>6, <2>2 DEF IsAt
  <2>4. MovingFiles'
    BY <1>6 DEF MovingFiles
  <2>5. PlaceInv'
    BY <1>6, <2>3, <2>4 DEF PlaceInv, Receiving
  <2> QED BY <1>4, <2>5 DEF KeptInv
<1> QED BY <1>1, <1>4, <1>5, <1>6 DEF KeptInv

LEMMA RestoreBeginsKept ==
  ASSUME ListInv, KeptInv, RestoreBegins
  PROVE  KeptInv'
<1>1. /\ UNCHANGED <<folder, dirs, local, hist, session, draft, others, written>>
      /\ UNCHANGED <<todo, lastServer, lastLocal>>
      /\ pc = "restore" /\ pc' = "receive" /\ wire'.to = "client" /\ wire'.kind = "file"
  BY DEF RestoreBegins, Answered, Answer, ClientOnly, client, server, user
<1>2. OwnInv' /\ BehindInv'
  BY <1>1 DEF KeptInv, OwnInv, BehindInv, Foreign, Sending, Asked, Answered, LastOf, Receiving
<1>3. PlaceInv'
  BY <1>1 DEF KeptInv, PlaceInv, IsAt, MovingFiles, Receiving
<1> QED BY <1>2, <1>3 DEF KeptInv

\* A restored file goes to the root.
LEMMA StoreFileKept ==
  ASSUME ListInv, KeptInv, StoreFile
  PROVE  KeptInv'
<1>1. /\ UNCHANGED <<local, hist, session, draft, others, written, lastServer, lastLocal>>
      /\ UNCHANGED <<pc, todo>> /\ pc = "receive" /\ Answered("receive", "file")
      /\ folder' = Put(folder, wire.place, wire.content)
      /\ wire'.to = "server" /\ wire'.kind = "ack"
  BY DEF StoreFile, Answered, Ask, ClientOnly, server, user
<1>2. Foreign = 1 /\ InRoot(LastOf(hist))
  BY <1>1 DEF KeptInv, BehindInv, Receiving
<1>3. wire.place[2] = 0
  <2>1. wire # NoMessage /\ wire.kind = "file"
    BY <1>1 DEF Answered, NoMessage
  <2>2. wire.place \in DOMAIN hist[lastServer]
    BY <1>1, <2>1 DEF ListInv, RestoreInv, Receiving
  <2>3. lastServer = Len(hist) /\ lastServer > 0
    BY <1>1, NumberTypes DEF ListInv, NumbersInv, Restoring, Receiving
  <2> QED BY <1>2, <2>2, <2>3, HistType DEF InRoot
<1>4. OwnInv' /\ BehindInv'
  BY <1>1, <1>2 DEF OwnInv, BehindInv, Foreign, Sending, Asked, Answered, LastOf, Receiving
<1>5. ASSUME NEW f \in DOMAIN written
      PROVE  IsAt(f, 1)'
  <2>1. IsAt(f, 1)
    BY <1>1 DEF KeptInv, PlaceInv, Receiving
  <2>2. <<f, 1>> # wire.place
    BY <1>3
  <2> QED BY <1>1, <2>1, <2>2 DEF IsAt, Put
<1>6. PlaceInv'
  BY <1>1, <1>5 DEF PlaceInv, MovingFiles, Receiving
<1> QED BY <1>4, <1>6 DEF KeptInv

LEMMA RejectFileKept ==
  ASSUME Calm, ListInv, KeptInv, RejectFile
  PROVE  KeptInv'
<1>1. /\ UNCHANGED <<folder, dirs, local, hist, session, draft, others, written>>
      /\ UNCHANGED <<pc, todo, lastServer, lastLocal>>
      /\ pc = "receive" /\ wire' = NoMessage
  BY DEF RejectFile, Answered, MayFail, Calm, client, server, user
<1>2. OwnInv' /\ BehindInv'
  BY <1>1 DEF KeptInv, OwnInv, BehindInv, Foreign, Sending, Asked, Answered, LastOf, NoMessage,
              Receiving
<1>3. PlaceInv'
  BY <1>1 DEF KeptInv, PlaceInv, IsAt, MovingFiles, Restoring, Receiving
<1> QED BY <1>2, <1>3 DEF KeptInv

LEMMA RestoreStopKept ==
  ASSUME ListInv, KeptInv, RestoreStop
  PROVE  KeptInv'
<1>1. /\ UNCHANGED <<folder, dirs, local, hist, session, draft, others, written>>
      /\ UNCHANGED <<todo, lastServer, lastLocal>>
      /\ pc = "receive" /\ pc' = "clear" /\ wire' = NoMessage
  BY DEF RestoreStop, Answered, GoOn, ClientOnly, server, user
<1>2. OwnInv' /\ BehindInv'
  BY <1>1 DEF KeptInv, OwnInv, BehindInv, Foreign, Sending, Asked, Answered, NoMessage, Receiving
<1>3. Restoring /\ Restoring'
  BY <1>1 DEF ListInv, NumbersInv, Restoring, Receiving
<1>4. PlaceInv'
  BY <1>1, <1>3 DEF KeptInv, PlaceInv, IsAt, MovingFiles, Receiving
<1> QED BY <1>2, <1>4 DEF KeptInv

\* No restore is refused, so none is undone.
LEMMA NotUndone ==
  ASSUME KeptInv, RestoreError \/ PutBack
  PROVE  FALSE
BY DEF KeptInv, BehindInv, RestoreError, PutBack, Receiving

\* The list is brought up to date, and the directory left alone.
LEMMA UpdateStartedKept ==
  ASSUME ListInv, KeptInv, UpdateStarted
  PROVE  KeptInv'
<1>1. /\ UNCHANGED <<folder, dirs, local, hist, session, draft, others, written>>
      /\ pc = "start" /\ pc' = "send" /\ wire' = NoMessage /\ todo' = DOMAIN folder
  BY DEF UpdateStarted, Answered, GoOn, ClientOnly, server, user
<1>2. OwnInv'
  BY <1>1 DEF KeptInv, OwnInv, Foreign, InRoot
<1>3. BehindInv'
  BY <1>1, BehindStays DEF KeptInv, BehindInv, Foreign, Sending, Asked, Answered, NoMessage,
                           Receiving
<1>4. PlaceInv'
  BY <1>1, PlacesStay DEF MovingFiles
<1> QED BY <1>2, <1>3, <1>4 DEF KeptInv

LEMMA ProcessFileKept ==
  ASSUME ListInv, KeptInv, ProcessFile
  PROVE  KeptInv'
<1>1. /\ UNCHANGED <<folder, dirs, local, hist, session, draft, others, written>>
      /\ pc = "send" /\ pc' \in {"send", "added"} /\ todo' \subseteq todo
      /\ wire' = NoMessage \/ wire'.kind = "add"
      /\ pc' = "added" => wire'.place \in todo
  <2>1. /\ UNCHANGED <<folder, dirs, local, hist, session, draft, others, written>> /\ pc = "send"
        /\ \E p \in todo :
             /\ todo' = todo \ {p}
             /\ \/ UNCHANGED <<pc, wire>>
                \/ pc' = "added" /\ Ask("add", p, folder[p])
    BY DEF ProcessFile, ClientOnly, server, user
  <2>2. PICK p \in todo :
             /\ todo' = todo \ {p}
             /\ \/ UNCHANGED <<pc, wire>>
                \/ pc' = "added" /\ Ask("add", p, folder[p])
    BY <2>1
  <2>3. wire = NoMessage
    BY <2>1, Quiet
  <2> QED BY <2>1, <2>2, <2>3 DEF Ask
<1>2. OwnInv'
  BY <1>1 DEF KeptInv, OwnInv, Foreign
<1>3. BehindInv'
  BY <1>1, BehindStays DEF KeptInv, BehindInv, Foreign, Sending, Asked, Answered, NoMessage,
                           Receiving
<1>4. PlaceInv'
  BY <1>1, PlacesStay DEF MovingFiles
<1> QED BY <1>2, <1>3, <1>4 DEF KeptInv

LEMMA FileAddedKept ==
  ASSUME ListInv, KeptInv, FileAdded
  PROVE  KeptInv'
<1>1. /\ UNCHANGED <<folder, dirs, local, hist, session, draft, others, written, todo>>
      /\ pc = "added" /\ pc' = "send" /\ wire' = NoMessage
  BY DEF FileAdded, Answered, GoOn, ClientOnly, server, user
<1>2. OwnInv'
  BY <1>1 DEF KeptInv, OwnInv, Foreign
<1>3. BehindInv'
  BY <1>1, BehindStays DEF KeptInv, BehindInv, Foreign, Sending, Asked, Answered, NoMessage,
                           Receiving
<1>4. PlaceInv'
  BY <1>1, PlacesStay DEF MovingFiles
<1> QED BY <1>2, <1>3, <1>4 DEF KeptInv

LEMMA RemovalsKept ==
  ASSUME ListInv, KeptInv, StartRemoving \/ RemoveNext \/ FileRemoved \/ StopUpdate
  PROVE  KeptInv'
<1>1. /\ UNCHANGED <<folder, dirs, local, hist, session, draft, others, written>>
      /\ pc \in Sending
      /\ pc' \in {"dead", "remove", "removed", "stop"}
      /\ ~ (wire'.to = "client")
      /\ wire'.to = "server" => wire'.kind # "restore"
  BY DEF StartRemoving, RemoveNext, FileRemoved, StopUpdate, Answered, Ask, GoOn, ClientOnly,
         server, user, client, Sending, NoMessage
<1>2. OwnInv'
  BY <1>1 DEF KeptInv, OwnInv, Foreign
<1>3. BehindInv'
  BY <1>1, BehindStays DEF KeptInv, BehindInv, Foreign, Sending, Asked, Answered, Receiving
<1>4. PlaceInv'
  BY <1>1, PlacesStay DEF MovingFiles, Sending
<1> QED BY <1>2, <1>3, <1>4 DEF KeptInv

LEMMA UpdateStoppedKept ==
  ASSUME ListInv, CleanInv, KeptInv, UpdateStopped
  PROVE  KeptInv'
<1>1. /\ UNCHANGED <<folder, dirs, local, hist, session, draft, others, written>>
      /\ UNCHANGED <<lastServer, lastLocal>>
      /\ pc = "stop" /\ wire' = NoMessage
      /\ \/ Answered("stop", "ok") /\ pc' = "clear"
         \/ Answered("stop", "ok") /\ wire.content = 0 /\ pc' = "idle"
         \/ Answered("stop", "error")
  BY DEF UpdateStopped, Answered, Success, GoOn, ClientOnly, server, user
<1>2. ~ Answered("stop", "error")
  BY DEF CleanInv, DialogueInv, Answered
<1>3. ~ Restoring /\ ~ Restoring'
  BY <1>1, NumberTypes DEF ListInv, NumbersInv, Restoring, Receiving
<1>4. OwnInv'
  BY <1>1, <1>2 DEF KeptInv, OwnInv, Foreign
<1>5. BehindInv'
  BY <1>1, <1>2, <1>3, BehindStays
     DEF KeptInv, BehindInv, Foreign, Sending, Asked, Answered, NoMessage, Receiving
<1>6. PlaceInv'
  BY <1>1, <1>2, <1>3, PlacesStay DEF MovingFiles
<1> QED BY <1>4, <1>5, <1>6 DEF KeptInv

LEMMA RemoveFileListKept ==
  ASSUME ListInv, KeptInv, RemoveFileList
  PROVE  KeptInv'
<1>1. /\ UNCHANGED <<folder, dirs, hist, session, draft, others, written, lastServer, lastLocal>>
      /\ pc = "clear" /\ pc' = "insert" /\ wire' = NoMessage
  BY DEF RemoveFileList, GoOn, ClientOnly, client, server, user
<1>2. OwnInv'
  BY <1>1 DEF KeptInv, OwnInv, Foreign
<1>3. BehindInv'
  BY <1>1 DEF KeptInv, BehindInv, Foreign, Restoring, Sending, Asked, Answered, NoMessage, Receiving
<1>4. PlaceInv'
  BY <1>1 DEF KeptInv, PlaceInv, IsAt, MovingFiles, Restoring, Receiving
<1> QED BY <1>2, <1>3, <1>4 DEF KeptInv

\* With its last row the list has the version.
LEMMA InsertFileListKept ==
  ASSUME ListInv, CleanInv, KeptInv, InsertFileList
  PROVE  KeptInv'
<1>1. /\ UNCHANGED <<folder, dirs, hist, session, draft, others, written, lastServer, lastLocal>>
      /\ pc = "insert"
      /\ \/ UNCHANGED <<pc, wire>>
         \/ fl = {} /\ pc' = "idle" /\ wire' = NoMessage /\ UNCHANGED local
  BY DEF InsertFileList, Success, GoOn, ClientOnly, server, user
<1>2. wire = NoMessage
  BY <1>1, Quiet
<1>3. OwnInv'
  BY <1>1, <1>2 DEF KeptInv, OwnInv, Foreign
<1>4. CASE UNCHANGED <<pc, wire>>
  <2>1. BehindInv'
    BY <1>1, <1>2, <1>4
       DEF KeptInv, BehindInv, Foreign, Restoring, Sending, Asked, Answered, NoMessage, Receiving
  <2>2. PlaceInv'
    BY <1>1, <1>4 DEF KeptInv, PlaceInv, IsAt, MovingFiles, Restoring, Receiving
  <2> QED BY <1>3, <2>1, <2>2 DEF KeptInv
<1>5. CASE fl = {} /\ pc' = "idle" /\ wire' = NoMessage /\ UNCHANGED local
  <2>1. Covers({r \in local : r.ver = Len(hist)}, hist[Len(hist)])
    <3>1. version = Len(hist) /\ Covers({r \in local \cup fl : r.ver = version}, hist[version])
      BY <1>1 DEF ListInv, NumbersInv, CleanInv, CompleteInv, Receiving
    <3> QED BY <1>5, <3>1
  <2>2. Len(hist) \in DOMAIN hist
    BY <1>1, NumberTypes, HistType DEF ListInv, NumbersInv, Restoring, Receiving
  <2>3. PICK p \in DOMAIN hist[Len(hist)] : TRUE
    BY <2>2, HistType, NoPlaces DEF CleanInv, ContentsInv
  <2>4. PICK r \in local : r.ver = Len(hist)
    BY <2>1, <2>3 DEF Covers
  <2>5. ~ Behind
    <3>1. PICK s \in local : LocalVersion = s.ver /\ \A x \in local : x.ver <= s.ver
      BY <2>4, Types DEF LastInv, LocalVersion
    <3> QED BY <2>4, <3>1, NumberTypes DEF Behind
  <2>6. BehindInv'
    BY <1>1, <1>5, <2>5, BehindStays DEF BehindInv, Sending, Asked, Answered, NoMessage, Receiving
  <2>7. PlaceInv'
    BY <1>1, <1>5 DEF KeptInv, PlaceInv, IsAt, MovingFiles, Receiving
  <2> QED BY <1>3, <2>6, <2>7 DEF KeptInv
<1> QED BY <1>1, <1>4, <1>5

LEMMA AtRestKept ==
  ASSUME ListInv, KeptInv, UpdateRefused \/ Restart
  PROVE  KeptInv'
<1>1. /\ UNCHANGED <<folder, dirs, local, hist, session, draft, others, written>>
      /\ pc \in {"version", "start", "dead"} /\ pc' = "idle" /\ wire' = NoMessage
  BY DEF UpdateRefused, Restart, Answered, Fails, GoOn, ClientOnly, server, user
<1>2. OwnInv'
  BY <1>1 DEF KeptInv, OwnInv, Foreign
<1>3. BehindInv'
  BY <1>1, BehindStays
     DEF KeptInv, BehindInv, Foreign, Sending, Asked, Answered, LastOf, NoMessage, Receiving
<1>4. PlaceInv'
  BY <1>1, PlacesStay DEF MovingFiles
<1> QED BY <1>2, <1>3, <1>4 DEF KeptInv

LEMMA LoseKept ==
  ASSUME ListInv, KeptInv, Lose \/ ReadAhead
  PROVE  KeptInv'
<1>1. /\ UNCHANGED <<folder, dirs, local, hist, session, draft, others, written>>
      /\ UNCHANGED <<pc, todo, lastServer, lastLocal>> /\ wire' = NoMessage
  BY DEF Lose, ReadAhead, ServerFault, client, server, user
<1>2. OwnInv'
  BY <1>1 DEF KeptInv, OwnInv, Foreign
<1>3. BehindInv'
  BY <1>1, BehindStays
     DEF KeptInv, BehindInv, Foreign, Restoring, Sending, Asked, Answered, LastOf, NoMessage,
         Receiving
<1>4. PlaceInv'
  BY <1>1 DEF KeptInv, PlaceInv, IsAt, MovingFiles, Restoring, Receiving
<1> QED BY <1>2, <1>3, <1>4 DEF KeptInv

\* A write or deletion of the user is in the root; while files are moved there is no
\* promise for the file.
LEMMA UserEditsKept ==
  ASSUME ListInv, KeptInv, UserEdits
  PROVE  KeptInv'
<1>1. UNCHANGED <<pc, wire, local, hist, session, draft, others, todo, lastServer, lastLocal>>
  BY DEF UserEdits, client, server
<1>2. PICK f \in Files : UserWrites(f) \/ UserDeletes(f)
  BY DEF UserEdits
<1>3. /\ \/ \E c : folder' = Put(folder, <<f, 0>>, c)
         \/ folder' = Drop(folder, <<f, 0>>)
      /\ \/ /\ ~ MovingFiles
            /\ written' = Put(written, f, folder'[<<f, 0>>]) /\ <<f, 0>> \in DOMAIN folder'
         \/ written' = Drop(written, f)
  <2>1. \A c : <<f, 0>> \in DOMAIN Put(folder, <<f, 0>>, c)
               /\ Put(folder, <<f, 0>>, c)[<<f, 0>>] = c
    BY DEF Put
  <2>2. CASE UserWrites(f)
    <3>1. PICK c : /\ folder' = Put(folder, <<f, 0>>, c)
                   /\ written' = IF MovingFiles THEN Drop(written, f) ELSE Put(written, f, c)
      BY <2>2 DEF UserWrites
    <3> QED BY <2>1, <3>1
  <2>3. CASE UserDeletes(f)
    BY <2>3 DEF UserDeletes
  <2> QED BY <1>2, <2>2, <2>3
<1>4. InRoot(folder) => InRoot(folder')
  <2>1. <<f, 0>>[2] = 0
    OBVIOUS
  <2> QED BY <1>3, <2>1, InRootKept
<1>5. /\ \A p : p # <<f, 0>> =>
           /\ p \in DOMAIN folder' <=> p \in DOMAIN folder
           /\ p \in DOMAIN folder => folder'[p] = folder[p]
      /\ \A g : g # f =>
           /\ g \in DOMAIN written' <=> g \in DOMAIN written
           /\ g \in DOMAIN written => written'[g] = written[g]
  BY <1>3 DEF Put, Drop
<1>6. OwnInv'
  BY <1>1, <1>4 DEF KeptInv, OwnInv, Foreign
<1>7. BehindInv'
  BY <1>1, <1>4, BehindStays
     DEF KeptInv, BehindInv, Foreign, Restoring, Sending, Asked, Answered, LastOf, Receiving
<1>8. ASSUME NEW g \in DOMAIN written', NEW d \in {0, 1}
      PROVE  /\ g # f => (IsAt(g, d) => IsAt(g, d)') /\ g \in DOMAIN written
             /\ g = f => ~ MovingFiles /\ IsAt(g, 0)'
  <2>1. CASE g # f
    <3>1. <<g, d>> # <<f, 0>>
      BY <2>1
    <3> QED BY <1>5, <2>1, <3>1 DEF IsAt
  <2>2. CASE g = f
    <3>1. f \notin DOMAIN Drop(written, f)
      BY DEF Drop
    <3>2. ~ MovingFiles /\ written' = Put(written, f, folder'[<<f, 0>>])
          /\ <<f, 0>> \in DOMAIN folder'
      BY <1>3, <2>2, <3>1
    <3>3. written'[f] = folder'[<<f, 0>>]
      BY <3>2 DEF Put
    <3> QED BY <2>2, <3>2, <3>3 DEF IsAt
  <2> QED BY <2>1, <2>2
<1>9. MovingFiles' = MovingFiles /\ Restoring' = Restoring
  BY <1>1 DEF MovingFiles, Restoring
<1>10. pc = "aside" =>
         /\ \A p \in todo' : p[2] = 0 /\ <<p[1], 1>> \notin DOMAIN folder'
         /\ \A g \in DOMAIN written' : IsAt(g, 1)' \/ (IsAt(g, 0)' /\ <<g, 0>> \in todo')
  <2>1. ASSUME pc = "aside" PROVE MovingFiles
    BY <2>1 DEF MovingFiles
  <2>2. ASSUME pc = "aside", NEW p \in todo PROVE p[2] = 0 /\ <<p[1], 1>> \notin DOMAIN folder'
    <3>1. p[2] = 0 /\ <<p[1], 1>> \notin DOMAIN folder
      BY <2>2 DEF KeptInv, PlaceInv, Receiving
    <3>2. <<p[1], 1>> # <<f, 0>>
      OBVIOUS
    <3> QED BY <1>5, <3>1, <3>2
  <2>3. ASSUME pc = "aside", NEW g \in DOMAIN written'
        PROVE  IsAt(g, 1)' \/ (IsAt(g, 0)' /\ <<g, 0>> \in todo')
    <3>1. g # f
      BY <1>8, <2>1, <2>3
    <3>2. IsAt(g, 1) \/ (IsAt(g, 0) /\ <<g, 0>> \in todo)
      BY <1>8, <2>3, <3>1 DEF KeptInv, PlaceInv, Receiving
    <3> QED BY <1>1, <1>8, <3>1, <3>2
  <2> QED BY <1>1, <2>2, <2>3
<1>11. pc \in Receiving \/ (pc \in {"clear", "insert"} /\ Restoring) =>
         \A g \in DOMAIN written' : IsAt(g, 1)'
  BY <1>8 DEF KeptInv, PlaceInv, MovingFiles, Receiving
<1>12. ~ MovingFiles => \A g \in DOMAIN written' : IsAt(g, 0)' \/ IsAt(g, 1)'
  BY <1>8 DEF KeptInv, PlaceInv, Receiving
<1>13. PlaceInv'
  BY <1>1, <1>9, <1>10, <1>11, <1>12 DEF PlaceInv, Receiving
<1> QED BY <1>6, <1>7, <1>13 DEF KeptInv

LEMMA UnchangedKept ==
  ASSUME KeptInv, UNCHANGED <<pc, wire, folder, local, lastServer, lastLocal, todo>>,
         UNCHANGED <<hist, session, draft, written, others>>
  PROVE  KeptInv'
<1>1. OwnInv' /\ BehindInv'
  BY BehindStays
     DEF KeptInv, OwnInv, BehindInv, Foreign, Restoring, Asked, Answered, LastOf, Receiving
<1>2. PlaceInv'
  BY DEF KeptInv, PlaceInv, IsAt, MovingFiles, Restoring, Receiving
<1> QED BY <1>1, <1>2 DEF KeptInv

LEMMA UserDirectoriesKept ==
  ASSUME KeptInv, UserChangesDirectories
  PROVE  KeptInv'
<1>1. /\ UNCHANGED <<pc, wire, folder, local, lastServer, lastLocal, todo>>
      /\ UNCHANGED <<hist, session, draft, written, others>>
  BY DEF UserChangesDirectories, client, server, user
<1> QED BY <1>1, UnchangedKept

\* The version that is not this device's own.
LEMMA OtherDeviceKept ==
  ASSUME OneRestore, ListInv, KeptInv, OtherDeviceCommits
  PROVE  KeptInv'
<1>1. /\ UNCHANGED <<pc, wire, folder, dirs, local, session, draft, written>>
      /\ UNCHANGED <<lastServer, lastLocal, todo>>
      /\ pc \in {"idle", "dead"} /\ session = "none"
      /\ others < MaxOthers /\ others' = others + 1
      /\ \E f \in Files : hist' = Append(hist, Put(LastOf(hist), <<f, 0>>, Fresh))
  BY DEF OtherDeviceCommits, OneRestore, Calm, client
<1>2. Foreign = 0 /\ Foreign' = 1
  BY <1>1, SyncAssumption DEF Foreign, OneRestore, ListInv, TypeOK
<1>3. InRoot(folder) /\ \A i \in DOMAIN hist : InRoot(hist[i])
  BY <1>2 DEF KeptInv, OwnInv
<1>4. InRoot(LastOf(hist))
  BY <1>3, HistType, EmptyType DEF InRoot
<1>5. PICK f \in Files : hist' = Append(hist, Put(LastOf(hist), <<f, 0>>, Fresh))
  BY <1>1
<1> DEFINE l == Put(LastOf(hist), <<f, 0>>, Fresh)
<1>6. l \in Listings /\ InRoot(l)
  <2>1. <<f, 0>> \in Places /\ <<f, 0>>[2] = 0
    BY DEF Places, MaxDepth
  <2> QED BY <1>1, <1>4, <2>1, HistType, FreshType, PutType, InRootKept
<1> HIDE DEF l
<1>7. LastOf(hist)' = l
  <2>1. hist' = Append(hist, l)
    BY <1>5 DEF l
  <2>2. hist' # <<>> /\ hist'[Len(hist')] = l
    BY <1>6, <2>1, HistType, Appended
  <2> QED BY <2>2 DEF LastOf
<1>8. OwnInv'
  BY <1>2 DEF OwnInv
<1>9. BehindInv'
  <2>1. wire' = NoMessage
    BY <1>1, Quiet
  <2> QED BY <1>1, <1>2, <1>3, <1>6, <1>7, <2>1
          DEF BehindInv, Sending, Asked, Answered, NoMessage, Receiving
<1>10. PlaceInv'
  BY <1>1, PlacesStay DEF MovingFiles
<1> QED BY <1>8, <1>9, <1>10 DEF KeptInv

LEMMA KeptInitially ==
  ASSUME Init, OneRestore
  PROVE  KeptInv
<1>1. /\ pc = "idle" /\ wire = NoMessage /\ folder = <<>> /\ local = {} /\ session = "none"
      /\ draft = <<>> /\ written = <<>> /\ others = 0
      /\ hist \in IF Earlier = 0 THEN {<<>>} ELSE {<<Put(<<>>, <<f, 0>>, 1)>> : f \in Files}
  BY DEF Init
<1>2. InRoot(<<>>)
  BY EmptyType DEF InRoot
<1>3. CASE Earlier = 0
  <2>1. hist = <<>> /\ Foreign = 0
    BY <1>1, <1>3 DEF Foreign
  <2>2. ~ Behind
    BY <1>1, <2>1 DEF Behind, LocalVersion
  <2>3. OwnInv
    BY <1>1, <1>2, <2>1 DEF OwnInv
  <2> QED BY <1>1, <2>2, <2>3
          DEF KeptInv, BehindInv, PlaceInv, Sending, Asked, Answered, NoMessage, MovingFiles,
              Receiving
<1>4. CASE Earlier = 1
  <2>1. Foreign = 1
    BY <1>1, <1>4 DEF Foreign
  <2>2. \E f \in Files : hist = <<Put(<<>>, <<f, 0>>, 1)>>
    BY <1>1, <1>4
  <2>3. PICK f \in Files : hist = <<Put(<<>>, <<f, 0>>, 1)>>
    BY <2>2
  <2>4. InRoot(LastOf(hist))
    <3>1. LastOf(hist) = Put(<<>>, <<f, 0>>, 1)
      BY <2>3 DEF LastOf
    <3>2. <<f, 0>>[2] = 0
      OBVIOUS
    <3> QED BY <1>2, <3>1, <3>2, InRootKept
  <2> QED BY <1>1, <1>2, <2>1, <2>4
          DEF KeptInv, OwnInv, BehindInv, PlaceInv, Sending, Asked, Answered, NoMessage,
              MovingFiles, Receiving
<1> QED BY <1>3, <1>4, SyncAssumption

LEMMA StepKeepsKept ==
  ASSUME OneRestore, ListInv, CleanInv, KeptInv, [Next]_vars
  PROVE  KeptInv'
<1>1. CASE Client
  BY <1>1, UpdateCurrentVersionKept, ReadLastVersionKept, SetAsideKept, RestoreBeginsKept,
     StoreFileKept, RestoreStopKept, NotUndone, UpdateStartedKept, AtRestKept, ProcessFileKept,
     FileAddedKept, FileRefusedClean, RemovalsKept, UpdateStoppedKept, RemoveFileListKept,
     InsertFileListKept
     DEF Client
<1>2. CASE Server
  BY <1>2, GetLastVersionKept, UpdateStartKept, DraftChangesKept, UpdateStopKept,
     RestoreStepsKept
     DEF Server
<1>3. CASE Environment
  <2>1. ~ LocalError /\ ~ RequestFails /\ ~ Crash /\ Calm
    BY DEF LocalError, RequestFails, Crash, MayFail, OneRestore, Calm
  <2> QED BY <1>3, <2>1, UserEditsKept, UserDirectoriesKept, OtherDeviceKept, RejectFileKept,
          LoseKept DEF Environment
<1>4. CASE SessionExpires \/ Restart
  BY <1>4, SessionExpiresKept, AtRestKept
<1>5. CASE UNCHANGED vars
  <2>1. /\ UNCHANGED <<pc, wire, folder, dirs, local, lastServer, lastLocal, todo>>
        /\ UNCHANGED <<hist, session, draft, written, others>>
    BY <1>5 DEF vars, client, server, user
  <2> QED BY <2>1, UnchangedKept
<1> QED BY <1>1, <1>2, <1>3, <1>4, <1>5 DEF Next

\* What the user wrote last in a file is in the directory or in LOCAL_NO_SYNCH,
\* however updates and the restore interleave with edits, as long as a single version
\* comes from somewhere else: moveAllFiles finds LOCAL_NO_SYNCH empty.  With a second
\* one the file set aside first can be replaced.
THEOREM OneRestoreLosesNothing == OneRestore => (Spec => []LocalFilesKept)
<1> SUFFICES ASSUME OneRestore PROVE Spec => []LocalFilesKept
  OBVIOUS
<1>1. Init => KeptInv
  BY KeptInitially
<1>2. ListInv /\ CleanInv /\ KeptInv /\ [Next]_vars => KeptInv'
  BY StepKeepsKept
<1>3. KeptInv => LocalFilesKept
  <2> SUFFICES ASSUME KeptInv, NEW f \in DOMAIN written
               PROVE  \E d \in 0..MaxDepth : IsAt(f, d)
    BY DEF LocalFilesKept, IsAt
  <2>1. IsAt(f, 0) \/ IsAt(f, 1)
    BY DEF KeptInv, BehindInv, PlaceInv, MovingFiles, Receiving
  <2> QED BY <2>1 DEF MaxDepth
<1>4. Spec => [](ListInv /\ CleanInv)
  BY CleanInvariant DEF OneRestore
<1> QED BY <1>1, <1>2, <1>3, <1>4, PTL DEF Spec

==============================================================================
