# MalnatiStorage: specifications, model checking and proofs

MalnatiStorage is a versioned backup system. A client (`StorageClient`, driven
by a WPF window) watches one folder of a user and sends what changed to a server
(`StorageServer`, a Windows service); the server keeps every version of the
folder, file contents on disk and file lists in a SQL Server database, and gives
any version back. This directory holds TLA+ modules translated from the C++ code
under `src/`, TLC configurations that check them on small instances, and TLAPS
proofs of what matters most for every value of the constants.

The repository has no design document: what the code is meant to do is said by
its comments, its log messages and its schema, and these are what the findings
below quote.

## 1. Inventory

### Server

| component | source | state | operations | called by |
|---|---|---|---|---|
| storage server | `ServerMain/StorageServer.cpp` | `fSessions` (user -> session, under `fSessionsMutex`), the cleaner's timer, pointers to the other parts | one `process...` handler per request, `newSession`, `removeSession`, `checkAndCleanSessions`, `startServer`, `stopServer` | executors, io thread, service thread |
| sessions and versions | `Shared/Common/Session` | a session's kind, token, last ping and `TVersion`; the version's number, date, file list, iterator `fNext`, `fSomethingRemoved` | add, update, remove a file; next file; validity; terminate | handlers, database |
| message queue and executors | `Shared/Common/Executor` | queue, mutex, condition variable, two `fMustExit` flags, five threads | push, pop, clear, stop, join | io thread, executors, service thread |
| server database | `Shared/Common/Data/DBManagerMSDE.cpp`, `Script/serverDB.sql` | tables Users, Versions, Files; one connection for everybody | users, `InsertNewVersion`, `getVersion`, `getSingleFileOfVersion`, `getLastVersion`, `getAllVersions` | handlers |
| files and utilities | `Shared/Common/Utils/Utility.cpp` | the tree `STORAGE_ROOT_PATH\user\version` | store, read, remove a directory; tokens, Base64, checksums, escaping | handlers, messages, client |
| messages | `Shared/Common/Network/Message.cpp` | none | encode and decode the fields of each message, read a file's content | both sides |
| server socket | `Shared/Common/Network/ServerSocket.cpp` | connections, acceptor, output queue | accept, read a line, write, close, stop | io thread, executors |
| process start and stop | `Projects/StorageServerCore`, `Projects/StorageServerService` | the core object and the thread that runs it | construct and start, stop and destroy | service manager |

### Client

| component | source | state | operations |
|---|---|---|---|
| storage client | `ClientMain/StorageClient.cpp` | token, socket, local list of files, the folder | register, log in, update (compare the folder with the list, send what differs), restore, list versions, ping, reconnect |
| request queue | `ClientMain/ClientRequests.cpp` | pending requests | push, pop, one worker thread |
| client database | `Shared/Common/Data/SqliteClientDB.cpp` | local copy of the last version's file list | read, replace |
| user interface | `Projects/StorageClientWPF` | timers (update 300 s, ping 60 s) | issues requests |

### How they interact

A message is read by the io thread and pushed to `TMessageQueue`; one of five
executor threads pops it and runs a handler, which works on the session table,
a session, the disk and the database and answers over the connection. The session cleaner is a
timer handler of the io thread and touches the same sessions, directories and
table. Handlers share a `TSession` through a `shared_ptr`, so one may go on with a session
another has taken out of the table. A client waits for each answer without a timeout, except for
pings. The service's thread starts and destroys all of this.

### What is hard

- Executors and cleaner interleave on the table, on a session and on a version's
  directory; a commit is four steps (`terminateSession`, `removeSession`,
  `InsertNewVersion`, and a clean-up when it fails), none of which excludes the others.
- Sessions are found by user, not by token; a token can be stale.
- Files are stored before the version is committed; the process may die between.
- A restore keeps its place in an iterator on the server, and the client's
  acknowledgements do not say which file they are for.
- The executors start before the flag they test has a value, and the io thread
  is joined after what it uses has been deleted.
- Five executors share one `SqlConnection` and one `SqlCommand` per statement
  without a lock; the second transaction, the second reader and a missing
  parameter are exceptions of another kind than the one the handlers catch.
- Two threads of the client write on one socket, several executors on one
  connection of the server, and answers carry no number.
- A request whose connection breaks is sent again before its answer is awaited,
  not afterwards.
- The client's directory, its SQLite list and the server's last version are
  three copies that change in separate steps, and the user edits the first one
  meanwhile.

What makes each part correct: committed versions are never changed, are numbered
without gaps, and their contents stay on disk; a session's changes reach the
history all together or not at all; a restore gives back exactly what was
committed; every request is answered and every abandoned session freed; the
version list never lists a path twice and its iterator is never followed when it
dangles; the pool loses no wake-up, stops, and uses nothing that has been freed;
a version is written whole or not at all and a success is told only when it is
stored; an answer is taken for the request it answers; the client's list never
takes for unchanged what the server does not have, no update or restore loses
what the user wrote, and what the window says of the directory is true.
`PROJECT.json` lists the hazards with their lines and the properties that cover
them.

## 2. Modules

| module | what it is |
|---|---|
| `Version` | the operations of `TVersion` on a version seen as a function from paths to entries, and its rows in the database |
| `StorageServer` | the server's handlers, session table, cleaner, disk and database, with the clients as environment |
| `VersionHistory` | abstract: each user has a sequence of versions that only grows; a draft is opened on the last one and appended in one step |
| `VersionList` | one `TVersion` object: the `std::list`, the iterator `fNext`, reading from and writing to the database, a restore |
| `VersionDraft` | abstract: an update session as a set of files that is changed, then refused or written as it is |
| `DBConnection` | the server database call by call: the one connection, its transaction, reader and commands, shared by the executors |
| `DBManagerInterface` | abstract: a call of the database has its whole effect and says so, or has none and says so |
| `SyncClient` | one device: its directory, its SQLite list, `updateCurrentVersion` and its dialogue with the server, message by message |
| `Connection` | the client's two threads, their socket, the server's connections and executors, with requests and pings on their way |
| `MessageCodec` | escaping, encoding and decoding of messages, and the tokens, as operators on texts |
| `ServerLifecycle` | start, work and stop of the process: service thread, io thread, executors, queue |
| `MCStorageServer`, `MCDBConnection`, `MCConnection` | constants for TLC: users, requests, texts, symmetry |
| `StorageServerProofs`, `SessionProofs`, `FileProofs` | theorems about `StorageServer`: any number of devices, sessions that do not expire, one device per user; each EXTENDS the one before |
| `ServerLifecycleProofs`, `DBConnectionProofs`, `VersionListProofs`, `SyncClientProofs`, `ConnectionProofs` | theorems about the module they are named after |

`StorageServer` EXTENDS `Version`. `VersionList` EXTENDS it too and is proved to
implement `VersionDraft`, which is written with `Version`'s operators: this
justifies that `StorageServer` treats a version as a set of files.
`StorageServer` also takes one call of the database for one step; `DBConnection`
opens that step and shows what of it is left when executors share the
connection. `ServerLifecycle` abstracts a message to its identity and a handler
to one step, and is the part of the executor `StorageServer` takes for granted:
that a message in the queue is taken by an executor while the server runs.
`Connection` EXTENDS `MessageCodec` and is what `StorageServer` and `SyncClient`
take for granted below them: that an answer belongs to the request it is taken
for. `SyncClient` has the server as this client sees it: one action for each
request `StorageServer` handles in several.

### StorageServer and the code

| in the model | in the code |
|---|---|
| `sessions`, `session` | the entries of `fSessions`; the `TSession` objects, named by their token, which live on while a handler holds them |
| `exec[e]` | where executor `e` is in which handler, with its locals (session, `TVersion_ptr`) |
| `cleaner` | where `checkAndCleanSessions` is, with the user and version it has read |
| `inbox` | messages received and not yet popped |
| `db`, `disk` | tables Versions and Files; the files under the storage root, keyed by user, version directory and path |
| `client` | what each client knows: mode, token, request under way, the file it was offered, the contents it believes the session has |

A handler is one action for each stretch between two accesses to what is shared.
`processAddNewFile` and `processUpdateFile` are `FindSession`, then `RejectFile`
(checksum or I/O error) or `StoreContent` and `ListFile`; `processUpdateStop` is
`FindSession`, `TerminateSession`, `EraseSession`, then `RefuseVersion`,
`InsertNewVersion`, or `FailToInsert` and `CleanUp`; `processRestoreVersion` is
`ProcessRestoreVersion`, `FindFirst`, `SendFile`; `processRestoreFileAck` is
`FindSession`, `SendFile` and at the end `StopRestore`. `newSession` is one
action because it holds `fSessionsMutex` from the look-up to the insertion.
`InsertNewVersion` is one action because it is one transaction. `NullVersion` is
the access violation of a handler that follows the version pointer after
another handler has moved the version out; `Crash` any other death of the
process. Both lose what is in memory and keep `db` and `disk`.

The date of a file stands for its content too, since they travel together in
every message. Which error of the file system or the database occurs is not
distinguished, only whether one does.

### VersionList and the code

`list` and `next` are `fFileList` and `fNext`; `next` is 0 for `end()` and
`Dangling` when the iterator is not set or its node was erased. `fNext` past the
end wraps to the first node, as with the list of the library the code is built
with. Rows come back from the database in any order. `tx` is what
`InsertNewVersion` has inserted so far, in order: the table has no key that
would refuse a second row for a path.

### DBConnection and the code

An action is one call on the connection or on a command. `step[e]` says which
call executor `e` makes next, `owner` who has begun the open transaction,
`reader` who has an open `SqlDataReader`, `params` what is bound to the commands
that two executors can use at once, `pending` the rows the open transaction has
inserted. `BeginTransaction` while a transaction or a reader is open throws a
managed exception, which none of the handlers catches: `Uncaught` ends the
process, and SQL Server rolls back when it does. `Fault` is a statement the
database refuses on its own, or one of the code's own checks that fails (the
check of the salt's and the password's hash), and every catch block is followed: `Rollback` where the code
rolls back, nothing where it does not. Not modelled: failing checks that the
connection is open. A message is taken once, so a client does not repeat a
request. Only the commands whose parameters outlive a call outside of a
transaction are followed; the others are used under the transaction that keeps
the second executor out.

### SyncClient and the code

`pc` is where `updateCurrentVersion` is, `wire` the one message on its way,
`folder` the files of the synchronized directory by place (a file and its depth
in `LOCAL_NO_SYNCH`), `dirs` the directories in its root, `local` the SQLite rows, `fl` the list in memory, `hist` the
versions of the account, `session` and `draft` the session on the server.
`ReadLastVersion` decides between a restore (`SetAside`, `RestoreBegins`,
`StoreFile`, `RestoreStop`, or `RestoreError` and `PutBack`), nothing to do when
`isDirectoryEmpty` finds no entry at all (a directory without files is one: the
user makes and removes such directories, `moveAllFiles` makes `LOCAL_NO_SYNCH` and leaves it
behind), and an update (`UpdateStarted`,
`ProcessFile`, `FileAdded`, `RemoveNext`, `FileRemoved`, `StopUpdate`,
`UpdateStopped`); both end with `RemoveFileList` and `InsertFileList`. The user
writes and deletes files between the steps, except while a restore moves files
(`MovingFiles`). Each kind in `Faults` is one the code handles: a broken
connection (`Lose`), an error answer or a request that cannot be sent
(`RequestFails`), a checksum that does not match and a file that cannot be
stored (`RejectFile`), an exception of the disk or of SQLite (`LocalError`) and
the end of the process (`Crash`, `Restart`). A request that was lost is not sent
again, since `readMsg` only reads again. One more kind, `"ahead"`, is no fault
but the way `readMsg` reads: it gives up what comes in the same read as the line
it wants (`ReadAhead`). The server sends `RestoreVerReply` and the first file of
a restore one after the other (`StorageServer.cpp:1122` and 1134), so the file is
such a line; `"begin"` stands for both, `pc` is `"receive"` from the reply on. So is an
answer behind the one to a ping, which the window sends from `onUpdateStart` or
`onRestoreStart` on. `claimed` is the version the window has
reported the directory to be.

### Connection and the code

`pc`, `attempts`, `conn` are `sendMsg` and `readMsg` with their two attempts and
their socket; `up`, `part`, `down` are the bytes on their way and the lines read
in part, in pieces of one write each; `queue` and `exec` are the queue and the
handlers; `writes` are the `async_write` calls of `fOutQueue` under way, whose
pieces interleave. `ReadMsg` loses what `read_until` takes beyond the first line
when the buffer goes out of scope, and skips answers to pings, as
`filterPingMsgs` does. `Break` closes the connection with what was on it; some
of it may have arrived.

### MessageCodec and the code

A text is a sequence of characters, and each operator is the function of its
name in `Utility.cpp` and `Message.cpp`. `to_string` of a `char` is its code in
decimal, so `escape` replaces the two digits `36` and never the separator `$`
itself: a name with a `$` makes a line with one field too many, which
`decodeMessage` refuses. Base64, which wraps a token, contains neither `$` nor
the escape text, and is left out.

### ServerLifecycle and the code

`service` follows `~StorageServerCore`: `io_service::stop`, `stopExecutors`,
`TMessageQueue::clear`, `stopIncoming`, the join in `~TMessageExecutor`, the
deletes of `~TStorageServer`, the join of the io thread. `io` follows
`startServer` and then one handler at a time; `thread[e]` follows
`serverExecutor` and `popMessage`. `mustExit` starts with any value of `Fresh`,
since `atomic<bool>` has no initialiser there. A wait on the condition variable
releases the lock and may end for no reason (`WakeUp`). `stopServer` before
`fExecutor` is set ends in an exception (`"aborted"`). A handler that runs
after the members are deleted may go on with what was there, or crash
(`UseFreed`).

## 3. Runs

All bounds are in the `.cfg` files. Those inside guards are `MaxVersion` (no update
session starts at that version) and, each the number of times an action is taken,
`MaxFaults`, `MaxEdits`, `MaxOthers`, `MaxRequests`, `MaxPings` and `MaxBreaks`. The number of `Tokens` bounds how
many sessions are ever opened, since no token is used twice.

| run | instance | shows |
|---|---|---|
| `server_one_device` | 1 client, 2 executors, 2 paths, 2 contents, 3 sessions, crashes, unreadable files, no expiry | `TypeOK`; `CommittedFilesKept`; `NoNullVersion`; `RestoreIsExact` |
| `server_two_devices` | 2 clients of one user, 2 paths, 2 contents, 3 sessions, update requests | `TokenNamesSession`; `ImplementsHistory`, the refinement of `VersionHistory` |
| `server_all_hazards` | 2 clients, every request but pings, expiry, crashes, unreadable files, 1 path, 2 contents, 2 sessions | `VersionsContiguous`; `HistoryKept` |
| `server_liveness` | 1 client, every request, expiry, crashes, fairness | `AnswerArrives`; `ForgottenSessionFreed` |
| `version_list` | 3 paths, 2 contents, any stored version of them | `TypeOK`; `CursorValid`; `PathsUnique`; `RestoreComplete`; `InsertEnds`; `ImplementsDraft` |
| `server_lifecycle` | 3 executors, 2 messages, `Fresh` any value, fairness | `TypeOK`; `ExecutorsSpareFreed`; `ShutdownCompletes`; `QueuedIsProcessed` |
| `db_connection` | 2 executors, 2 faults, one registration, a right and a wrong login, one query, two commits of one number | `TypeOK`; `CommitIsWhole`; `SuccessIsReal`; `ImplementsInterface`, the refinement of `DBManagerInterface` |
| `sync_clean` | 2 files, 3 edits, 1 commit of another device between sessions, no faults, 1 answer that is read ahead, fairness | `InSyncUnlessEmptied`; `LocalFilesKept`; `UpdateEndsOrWaits`; `Converges` |
| `sync_faults` | 2 files, one of which may be empty, a directory of the user, 2 edits, 1 other commit, 1 fault of any kind | `TypeOK`; `ListIsTrue` |
| `connection` | every name of up to 4 of the characters `$`, `&`, `#`, `3`, `6`; 2 executors, 2 requests of two writes, 1 ping, 1 break | `TypeOK`; `AnswerMatches`; `FieldsSurvive`; `TokenNamesUser` |
| `commit_window`, `db_parallel_begin` | | violations, section 4 |

Why these bounds. Two devices are needed for two sessions of one user to
overlap, and no more than two can be in the commit window at once: the table
has one entry per user. Two versions are needed for a base with committed
files and a next version to lose. Two paths tell a replaced file from a kept
one and give a restore a second file to skip; three give `VersionList` a node
before and one after the erased node. Users share nothing but the executors
(every look-up, directory and row is by user), so one user is enough. Two of
the five executors are enough for the interleavings, since a client has one
request under way, besides pings; three in `ServerLifecycle` allow one waiting, one
processing and one exiting.

`server_one_device` and `server_two_devices` exclude expired sessions, because
with them `CommittedFilesKept`, `TokenNamesSession` and `ImplementsHistory` do
not hold: that is what `cleaner_race` and `stale_token` show. `commit_window` shows why
`CommittedFilesKept` is checked with one device only. `server_all_hazards`
leaves out only pings, whose one effect is that a session expires later, which the
model allows without them: what it checks is what the primary key of table
Versions and the order of steps guarantee whatever else goes wrong.

For `DBConnection` two executors are all that can meet in a call, and
`MaxFaults` is 2 so that an error can follow an error. A second registration or
a second query beside the one there is would mix the parameters of their shared
command, and the refinement would not hold: that is `db_shared_parameters.cfg`.
`sync_clean` has the edits to write, change and remove a file and one version of
another device to restore over them; its one directory, `LOCAL_NO_SYNCH`, is
enough to go on without files. One answer read ahead is all there can be before the
client waits for ever: `UpdateEndsOrWaits` says that this is the only way an
update does not end, and `Converges` is about the behaviours without it.
`LocalFilesKept` is checked with one
restore, since the next one would move the files one level deeper
(`sync_set_aside.cfg`) and replace what is there. `sync_faults` has one fault,
which is enough for each property of the client that any fault breaks; another
device is excluded while an update runs (`sync_stale_base.cfg`). The characters
of `connection` are those of the separator, the escape text and the digits it
replaces, and four are the length of the escape text; with answers of two writes
`AnswerMatches` does not hold (`connection_overlap.cfg`).

Deadlock is not checked: clients may stop sending, a `TVersion` is destroyed, a
stopped server does nothing, and the bounds on requests, edits and faults are
reached.

### Fairness

`StorageServer`: weak fairness of each executor and of the cleaner (threads
that keep running); strong fairness for a client's request to be taken, because
the queue is first in first out while `inbox` is a set, and pings could overtake
it for ever; weak fairness of the expiry of a session nobody holds (time
passes). Nothing is assumed of clients, crashes or expiry of held sessions.
`AnswerArrives` is checked with files that can be read: `TRestoreFileMessage`'s
constructor throws otherwise, and the handler ends without an answer
(`MayNotRead`; listed under the hazards).

`ServerLifecycle`: weak fairness of the io thread, the service's thread once it
has begun to stop, and each executor. Messages, `OnStop` and spurious wake-ups
are not fair. `VersionList`: `InsertNewVersion`'s loop keeps running.

`SyncClient`: weak fairness of the client's thread, whose timer starts the next
update, of the server, and of starting the application again; strong fairness of
the expiry of a session nobody works in, because the client's attempts to open
one come again and again. Nothing is assumed of the user, the other devices and
the faults. `Connection` has fairness of the client and the server in
the configurations that check `RequestEnds`.

## 4. Findings

Each is a violation with one property, whose words are the code's own. The first
two are runs of `PROJECT.json`; the others are configurations of this directory,
to be started with `tlc -config <name>.cfg <module>`. Paths are those of the
sources named in section 1.

| configuration | module | property TLC finds violated | what happens |
|---|---|---|---|
| `commit_window` | `MCStorageServer` | `CommittedFilesKept` | `processUpdateStop` takes the session out of the table (`StorageServer.cpp:834`) before `InsertNewVersion` (850). A second device opens a session on the old base, stores files in the same version directory, and when its own commit fails on the primary key its clean-up removes the directory the first device has just committed. |
| `db_parallel_begin` | `MCDBConnection` | `OnlyEDBException` | `BeginTransaction` (`DBManagerMSDE.cpp:163`) stands outside of every try block; while another executor's transaction is open it throws an exception that ends the process. `DBManagerInterface.h:31` says "throws EDBException". |
| `stale_token` | `MCStorageServer` | `TokenNamesSession` | handlers decode the token only for the user name, so a device whose session has expired goes on in the session of another device (`StorageServer.cpp:546`; line 531: "check if token is associated to a valid session"). |
| `cleaner_race` | `MCStorageServer` | `CleanerSparesCommitted` | the cleaner reads a session's version and removes its directory while `processUpdateStop` commits that version (`StorageServer.cpp:156`). |
| `pool_startup` | `ServerLifecycle` | `PoolComplete` | executor threads are created before `fMustExit` gets its first value (`Executor.cpp:26`, `:29`). |
| `push_after_exit` | `ServerLifecycle` | `NoPushAfterExit` | `pushMessage` tests `fMustExit` before it locks (`MessageQueue.cpp:98`), so a message can follow `clear` into the queue. It is harmless today: the executors exit without popping it. |
| `io_after_free` | `ServerLifecycle` | `IoSparesFreed` | `~StorageServerCore` deletes the server before it joins the thread that may be in one of its handlers. |
| `db_user_id_error` | `MCDBConnection` | `OnlyEDBException` | when `ExecuteReader` fails, the catch block of `getUserID` closes a reader that is a null reference (`DBManagerMSDE.cpp:48`). |
| `db_left_open` | `MCDBConnection` | `UsableWhenIdle` | two catch blocks of `verifyUserCredentials` (290, 336) throw without a rollback; the next transaction on the connection is refused for good, while the client is told "Try later" (`StorageServer.cpp:473`). |
| `db_shared_parameters` | `MCDBConnection` | `RegisteredAsAsked` | two registrations bind and clear the parameters of one command: a user is answered with yes and has another's password, or none (`DBManagerMSDE.cpp:120`). |
| `sync_empty_file` | `SyncClient` | `InSync` | a file of length 0 is taken for unchanged (`StorageClient.cpp:357`). |
| `sync_lost_removal` | `SyncClient` | `InSync` | the result of `removeFiles` is ignored (895): the version keeps files the directory does not have. |
| `sync_torn_list` | `SyncClient` | `InSync` | the local list is replaced in several transactions (936); after a crash in between a deleted file stays in the next version. |
| `sync_stale_base` | `SyncClient` | `ListIsTrue` | the number of the new version is that of one read before the session was opened, plus one (881); another device may have committed it. |
| `sync_emptied` | `SyncClient` | `InSync` | when the user has deleted every file but a directory is left, `isDirectoryEmpty` (803) says no; the update removes every file of the draft, the server makes no version of an empty draft and answers 0 (`StorageServer.cpp:835`), and the window says that nothing has changed (954). |
| `sync_read_ahead` | `SyncClient` | `UpdateEnds` | the first file of a restore is sent right behind the reply (`StorageServer.cpp:1122`, 1134); when both arrive in one read, `readMsg` gives the file up (269) and the client waits for it for ever. |
| `sync_set_aside` | `SyncClient` | `NoSynchStays` | what a restore moves to `LOCAL_NO_SYNCH` (778) is synchronized by the next update. |
| `sync_first_file` | `SyncClient` | `ClientSurvives` | a refused first file is followed by a call through a null pointer (889). |
| `sync_stuck` | `SyncClient` | `UpdateEnds` | after a reconnection `readMsg` waits for an answer that went to the old connection (288). |
| `sync_garbled` | `SyncClient` | `UpdateEnds` | after a wrong checksum the client sends no acknowledgement and the server waits for one (1092). |
| `connection_overlap` | `MCConnection` | `AnswerMatches` | two executors write long answers on one connection at once (`ServerSocket.cpp:512`): an answer is lost in the other's line. |
| `connection_read_ahead` | `MCConnection` | `RequestEnds` | `readMsg` throws away what `read_until` has read beyond the first line (269). |
| `connection_separator` | `MCConnection` | `RequestEnds` | a name with a `$` is not escaped; the server logs the message and does not answer, and the client waits (`Executor.cpp:93`). |

## 5. Proofs

TLAPS checks, for any constants that satisfy the named assumptions, the theorems
below. Those of the first table need nothing else.

| theorem | statement | argument |
|---|---|---|
| `TypeCorrect` | `Spec => []TypeOK` | `TypeOK` alone is not inductive: `SendFile` needs to know that the executor's session exists. `TypeInv` adds `HandlersReady` (an executor past its look-up holds an existing session and a request of the right kind, and a version where it will commit one) and `TableReady` (an entry of the table names an existing session). |
| `HistoryIsKept` | `Spec => HistoryKept` | only `InsertNewVersion` changes `db` (`DbChanges`), and `NewKey` makes it extend it. |
| `NumbersAreGapless` | `Spec => []VersionsContiguous` | `NumberInv` adds that every version a session or a handler holds has the number 0 or that of a committed version (`TableKnown`, `HandlerKnown`), so a commit can only add the number after one that exists: `n+1`, as `NewKey` refuses the others. |
| `ExecutorsEndFirst` | `Spec => []ExecutorsSpareFreed` | `ExecutorsInv`: the service goes past `stopExecutors` only when `fExecutor` is set, it is set only when all threads have been created, and the members are deleted only after a join at which all had exited; an exited thread takes no step. |
| `CommitsAreWhole` | `Spec => []CommitIsWhole` | `TransactionInv`: an executor inside a transaction is the owner of the open one, what is pending is exactly what that owner has inserted so far, and its version's row was not in the tables; so `Commit` adds all rows of a version that had none. `HandlerInv` says which step belongs to which request and that nothing is left to insert at the commit. |
| `SuccessesAreReal` | `Spec => []SuccessIsReal` | `LoginInv` adds that a login on its way to `Commit` has found its row; rows are never removed. |
| `CursorStaysValid`, `NoPathTwice` | `Spec => []CursorValid`, `Spec => []PathsUnique` | `CursorInv`: until the list is walked, the cursor of a list that has files is at its front, so erasing a node cannot leave it dangling; `UnreadInv`: a path whose row is still to be read is not listed, so reading adds each path once. |
| `RestoresAreComplete` | `Spec => []RestoreComplete` | `PassedInv`: what the client has accepted is exactly what the cursor has passed, a prefix of the list that is all of it at `end()`. The same holds of the rows `InsertNewVersion` has written. |
| `NumbersExist` | `Spec => []TypeOK` of `SyncClient` | `NumInv`: what the server answers for a version is one it has and not below a row of the list; a row is at most of the version the update began with, or, once its file is sent, of the next, which is at most the one the commit makes (`VersionsInv`); and the client works in its session only while there is one (`InSessionInv`). Any fault is allowed, and a commit of another device at any time no session excludes it. |
| `RefinesDraft` | `Spec => ImplementsDraft` | lemmas on lists without a path twice (`PutProperties`, `WithoutIsRemoval`, `MovedProperties`) say what each method does to the set of files; under the invariant every action is then a step of `VersionDraft` or a stutter, and the rows at the commit are those of the whole list. |

`StorageServerProofs`, `DBConnectionProofs`, `VersionListProofs` and
`ServerLifecycleProofs` each have a `TypeCorrect`, for the first in the stronger
form above; the last adds to `TypeOK` that between `HandleRead` and `Enqueue` the
io thread has a message (`ReceivedInv`), which is why only messages are queued.

The properties of the next table do not hold of the code whatever happens; the
configurations of section 4 show where they stop. Their theorems name the
condition under which they hold, and the constants of the run which checks the
property satisfy it, so it is not empty.

| theorem | statement | argument |
|---|---|---|
| `HandlersKeepToTheirSession`, `VersionsAreThere` | `Undisturbed => (Spec => []TokenNamesSession)`, `... []NoNullVersion` | `SessionInv`, one part per client: it has at most one request under way (`OneRequest`), of a kind its session allows; its session is the one in the table from `newSession` until a handler of its own takes it out (`TokenInv`); that session has its version until such a handler has moved it (`VersionInv`), and the version is what the client believes (`DraftInv`); no two clients hold one token (`Distinct`). A step of one client's handler leaves the others' parts alone (`OthersOwned`). |
| `RefinesHistory` | `Undisturbed => (Spec => ImplementsHistory)` | under `SessionInv` the version a handler commits has exactly the changes its client was told of, and the number after its base; so the insertion is `VersionHistory`'s one step and every other action a stutter or an edit of one draft. |
| `CommittedFilesStay`, `RestoresAreExact` | `OneDevice /\ ~MaySleep => (Spec => []CommittedFilesKept)`, `... []RestoreIsExact` | `FileInv` is `SessionInv` with: every row of a committed version is on disk in a directory not newer than it (`UserRows`); an update writes in a directory that is newer than all of them, so neither a replaced file nor the clean-up of a refused commit touches a row (`UpdateInv`); what a client has of a restore is what the cursor has passed, an acknowledgement under way included, and what it is offered is the file at the cursor (`RestoreInv`). |
| `ListStaysTrue` | `~OthersMeanwhile => (Spec => []ListIsTrue)` | `ListInv`: the row an answer of the server adds is true of the version it names, both for a version that exists and for the one being made from the draft (`WireInv`, `UpdateInv`, `RestoreInv`); what is written to the database is true of the committed version (`CommittedInv`); and the numbers the client has read are those of versions there are (`NumbersInv`). Any fault and any crash is allowed. |
| `WindowTellsTheTruth` | `Calm => (Spec => []InSyncUnlessEmptied)` | `CleanInv` on top of `ListInv`: no row of a version is missing in the list (`CompleteInv`), what is not in the directory is marked for removal until it is removed from the draft (`SentInv`), a restore has every file or a row to come (`GotInv`), and, while the user leaves the directory alone, the rows that stay are its files (`AloneInv`). |
| `OneRestoreLosesNothing` | `OneRestore => (Spec => []LocalFilesKept)` | `KeptInv` on top of both: as long as every version is this device's own nothing is outside the root (`OwnInv`); the list lacks a version only when it is the one from elsewhere, and then no session of this device is open, so its restore is not refused and nothing has to be moved back (`BehindInv`); each file is moved once, to a place that is free, and a restored file goes to the root (`PlaceInv`). |
| `RefinesInterface` | `OneAtATime /\ DistinctRequests => (Spec => ImplementsInterface)` | `InterfaceInv`: a request is handled once and by one executor (`TakenInv`), it is not stored before it is answered (`FreshInv`), the last parameters bound to a command are those of the executor that is about to run it (`ParamsInv`), nothing is committed while a reader is open (`ReaderInv`), and there is a last version (`NumberInv`). Then a call's effect and its answer are `DBManagerInterface`'s two steps. |
| `TypeCorrect` of `ConnectionProofs` | `RoundTrip => (Spec => []TypeOK)` | `IInv`: each piece on its way belongs to a message that was sent on that connection (`LinesInv`), a line that is accepted is one whole message (`AcceptedLine`), and the client has an attempt left while it works on a request (`ClientInv`). |
| `AnswersMatch` | `RoundTrip /\ "answer" \notin Long => (Spec => []AnswerMatches)` | `OneInv`: the client's request, or the answer to it, is in at most one place between the socket, the queue, an executor, a write under way and the line to the client; there it carries the current identity, and it is nowhere unless the client waits for it. A connection that breaks leaves nothing for the next one. |

The conditions:

- `Undisturbed`: no session expires, and the process dies only where no two
  clients are devices of one user (`OneDevice`). Without the first half a
  device goes on in another one's session (`stale_token.cfg`); after a death
  two devices of one user may hold old tokens, and the one that opens no session
  meets the session of the other. Where nobody dies, any number of devices is allowed.
- `OneDevice /\ ~MaySleep` for the files: a second device or the cleaner removes a
  committed directory (`commit_window.cfg`, `cleaner_race.cfg`).
- `~OthersMeanwhile`: no other device commits while an update of this one is
  under way (`sync_stale_base.cfg`). Between updates any number of versions may
  come. `NumbersExist` does not need it.
- `Calm`: besides, no file may be empty and the only faults are messages that are
  lost or read ahead and restored files that are garbled. Even then `InSync` holds only of a directory
  that has a file, as `InSyncUnlessEmptied` says (`sync_emptied.cfg`). An empty file, a request that fails, a
  write that fails and a crash each break `InSync` on their own, the last two by
  leaving the list torn (`sync_empty_file.cfg`, `sync_lost_removal.cfg`,
  `sync_torn_list.cfg`).
- `OneRestore`: `Calm`, and at most one version is not made by this device, the one
  there is at the start or one another device commits (`Earlier + MaxOthers <= 1`).
  Its own updates and the user's edits may be any number, in any order around the
  restore. With two TLC finds `LocalFilesKept` violated: the second restore sets
  aside over what the first one has set aside.
- `OneAtATime`: at most one request registers a user and at most one asks for the
  last version, or there is one executor: two executors would bind the
  parameters of one command (`db_shared_parameters.cfg`). `DistinctRequests` is
  no condition on the code: it says that two registrations, or two commits,
  that would store the same rows are one element of `Requests`, since nothing in the tables
  could tell which of them is stored.
- `"answer" \notin Long`: an answer takes one write; two of them mix otherwise
  (`connection_overlap.cfg`).
- `RoundTrip`: the name in an accepted first request of a session is the one the client
  encoded, for each of `Names`. Nothing is concluded of texts from it: it only gives the
  token of an answer its type. It is about `escape`, `Split` and
  `unescape`, recursive functions over texts, which would need an induction
  TLAPS' library cannot give here.

The assumptions are that `UserOf` maps clients to users, that bounds are
numbers, that the flags are Boolean, that requests are of the four kinds with
numbers for versions, that `Faults` and `Long` name faults and messages there are,
that the files which can be empty are files, and that the sentinels (`NoFile`, `NoPath`,
`NoToken`, `Null`, `NoMessage`, `Nobody`, `Dangling`) are none of the values they
stand beside (among others, `Null` is no draft of `VersionHistory`). TLC evaluates
them on every run.

Only model-checked:

- liveness, which is beyond the prover: `AnswerArrives`, `ForgottenSessionFreed`,
  `InsertEnds`, `ShutdownCompletes`, `QueuedIsProcessed`, `UpdateEndsOrWaits`, `Converges`;
- the codec: the run `connection` evaluates `FieldsSurvive` and `TokenNamesUser` for 780
  texts, with one name per behaviour. That fields and tokens of longer texts come through is
  not proved.

## 6. Not modelled, and the plan

- `ClientRequests`: the queue between the window and the worker thread, and what
  `~TStorageClient` does with requests under way. It is the pattern of
  `ServerLifecycle` with one thread.
- Registration, login and the query of all versions as handlers of
  `StorageServer`: they change no session, and what they do to the database is in
  `DBConnection`. The restore of one file is one request and one answer.
- `fOutQueue` of a connection is created when it is first used
  (`ServerSocket.cpp:480`), without a lock; `Connection` has it from the start.
- The composition of `SyncClient` with `StorageServer`, handler by handler: each
  fills TLC's time on its own. `SyncClient` has the server's requests as single
  steps, and other devices and the cleaner as its environment.
- Edits of the user while a restore moves files, and more than one restore with faults: the
  code gives no promise that would hold there.
- Writes the disk does not report: `storeFile` (`Utility.cpp:528-547`) does not look at
  the stream after it has written. In the models a file is stored or an error is seen.
- In `SyncClient`, the repetitions of a file or a removal that is acknowledged with no
  (up to `MAX_TRY`): such a no is an error at once, or none. And a change of one file between the reads
  `processDirectory` and `processFile` make of it (is it a file, is it changed, what is sent):
  they are one step, so a file that is deleted in between, which would be taken for
  unchanged or sent as an empty one, is either read or passed over.
- Long answers that mix on one connection, the reply of a restore and its first
  file among them, are in `Connection` only.
- The WPF windows and their timers (only the periodic ping and the next update
  appear), the text of logs, Base64 and checksum arithmetic, boost, OpenSSL and
  SQLite under `Shared/Libraries`, and the manual test drivers under
  `Projects/Test`. The vendored libraries are most of the repository's lines.

Proofs that remain: `OneRestoreLosesNothing` where files may be empty, which needs the
order of the versions in the list without what `CleanInv` says of contents; and `RefinesInterface`
with two registrations at once where the users' commands do not overlap in time,
which is a condition on the schedule and not on the constants.
