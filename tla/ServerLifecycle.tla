---------------------------- MODULE ServerLifecycle ----------------------------
(***************************************************************************)
(* Start, work and stop of the server process: the thread of the Windows   *)
(* service, which constructs and destroys StorageServerCore; the thread    *)
(* StorageServerCore starts, which runs startServer and then the handlers  *)
(* of the io_service; and the threads of TMessageExecutor, which take      *)
(* messages from the TMessageQueue the io thread fills.                    *)
(*                                                                         *)
(* What a message does is the business of StorageServer.                   *)
(***************************************************************************)
EXTENDS Naturals, Sequences

CONSTANTS Executors,  \* the threads of TMessageExecutor (EXECUTOR_NUM)
          Messages,   \* the messages that arrive
          Fresh,      \* the values an uninitialised atomic<bool> may have
          NoMessage

ASSUME FreshAssumption == Fresh \subseteq BOOLEAN /\ Fresh # {}
ASSUME NoMessageAssumption == NoMessage \notin Messages

VARIABLES service,   \* where the service's thread is
          io,        \* where the io thread is
          received,  \* the message the io thread is handling
          ioStopped, \* fMainIoService has been stopped
          thread,    \* where each executor is
          held,      \* the message each executor is processing
          mustExit,  \* TMessageExecutor::fMustExit
          assigned,  \* fExecutor points to the TMessageExecutor
          queue,     \* TMessageQueue::fQueue
          queueExit, \* TMessageQueue::fMustExit
          sockExit,  \* TServerSocket::fMustExit
          freed,     \* ~TStorageServer has deleted its members
          arrived,   \* the messages read from connections so far
          processed  \* the messages an executor has processed
vars == <<service, io, received, ioStopped, thread, held, mustExit, assigned,
          queue, queueExit, sockExit, freed, arrived, processed>>

executorVars == <<thread, held, mustExit, assigned, processed>>
queueVars == <<queue, queueExit>>
ioVars == <<io, received, arrived>>

ServiceSteps == {"running", "stopIo", "stopExecutors", "clear", "stopIncoming",
                 "join", "free", "joinIo", "stopped", "aborted"}
\* Within a handler of the io_service.
Handling == {"read", "push", "notify", "clean"}
IoSteps == {"startSocket", "create", "store", "assign", "run", "ended", "crashed"}
             \cup Handling
ThreadSteps == {"none", "check", "pop", "wait", "process", "exited"}

TypeOK ==
  /\ service \in ServiceSteps
  /\ io \in IoSteps
  /\ received \in Messages \cup {NoMessage}
  /\ thread \in [Executors -> ThreadSteps]
  /\ held \in [Executors -> Messages \cup {NoMessage}]
  /\ {ioStopped, mustExit, assigned, queueExit, sockExit, freed} \subseteq BOOLEAN
  /\ queue \in Seq(Messages)
  /\ arrived \subseteq Messages
  /\ processed \subseteq Messages
  /\ \A e \in Executors : thread[e] = "process" <=> held[e] # NoMessage

\* StorageServerCore has been constructed and its thread started.
Init ==
  /\ service = "running"
  /\ io = "startSocket"
  /\ received = NoMessage
  /\ ioStopped = FALSE
  /\ thread = [e \in Executors |-> "none"]
  /\ held = [e \in Executors |-> NoMessage]
  /\ mustExit \in Fresh
  /\ assigned = FALSE
  /\ queue = <<>>
  /\ queueExit = FALSE
  /\ sockExit = FALSE
  /\ freed = FALSE
  /\ arrived = {}
  /\ processed = {}

------------------------------------------------------------------------------
(* The io thread: startServer, then the handlers one after the other.      *)

IoGoes(from, to) == io = from /\ io' = to

\* The port may be taken: startServer returns without an executor.
StartSocket ==
  /\ IoGoes("startSocket", "create") \/ IoGoes("startSocket", "ended")
  /\ UNCHANGED <<service, received, ioStopped, executorVars, queueVars, sockExit,
                 freed, arrived>>

\* A thread runs as soon as it is created.
CreateThread ==
  /\ io = "create"
  /\ \E e \in Executors :
       /\ thread[e] = "none"
       /\ thread' = [thread EXCEPT ![e] = "check"]
       /\ io' = IF \A x \in Executors \ {e} : thread[x] # "none"
                  THEN "store" ELSE "create"
  /\ UNCHANGED <<service, received, ioStopped, held, mustExit, assigned,
                 queueVars, sockExit, freed, arrived, processed>>

StoreMustExit ==
  /\ IoGoes("store", "assign")
  /\ mustExit' = FALSE
  /\ UNCHANGED <<service, received, ioStopped, thread, held, assigned, queueVars,
                 sockExit, freed, arrived, processed>>

AssignExecutor ==
  /\ IoGoes("assign", "run")
  /\ assigned' = TRUE
  /\ UNCHANGED <<service, received, ioStopped, thread, held, mustExit, queueVars,
                 sockExit, freed, arrived, processed>>

\* handleRead looks at the socket's fMustExit first; doAsyncRead, at its end,
\* only starts the next read.
HandleRead ==
  /\ io = "run"
  /\ ~ ioStopped
  /\ \E m \in Messages \ arrived :
       /\ arrived' = arrived \cup {m}
       /\ \/ sockExit /\ UNCHANGED <<io, received>>
          \/ ~ sockExit /\ io' = "read" /\ received' = m
  /\ UNCHANGED <<service, ioStopped, executorVars, queueVars, sockExit, freed>>

\* pushMessage looks at the queue's fMustExit before it locks the queue.
PushMessage ==
  /\ \/ queueExit /\ IoGoes("read", "run") /\ received' = NoMessage
     \/ ~ queueExit /\ IoGoes("read", "push") /\ UNCHANGED received
  /\ UNCHANGED <<service, ioStopped, executorVars, queueVars, sockExit, freed,
                 arrived>>

Enqueue ==
  /\ IoGoes("push", "notify")
  /\ queue' = Append(queue, received)
  /\ UNCHANGED <<service, received, ioStopped, executorVars, queueExit, sockExit,
                 freed, arrived>>

\* A slip: the executors are only woken for the second message.
NotifyIfMore ==
  /\ IoGoes("notify", "run")
  /\ received' = NoMessage
  /\ \/ \E e \in Executors : /\ thread[e] = "wait"
                             /\ Len(queue) > 1
                             /\ thread' = [thread EXCEPT ![e] = "pop"]
     \/ /\ Len(queue) <= 1 \/ \A e \in Executors : thread[e] # "wait"
        /\ UNCHANGED thread
  /\ UNCHANGED <<service, ioStopped, held, mustExit, assigned, queueVars,
                 sockExit, freed, arrived, processed>>

NotifyOne ==
  /\ IoGoes("notify", "run")
  /\ received' = NoMessage
  /\ \/ \E e \in Executors : /\ thread[e] = "wait"
                             /\ thread' = [thread EXCEPT ![e] = "pop"]
     \/ /\ \A e \in Executors : thread[e] # "wait"
        /\ UNCHANGED thread
  /\ UNCHANGED <<service, ioStopped, held, mustExit, assigned, queueVars,
                 sockExit, freed, arrived, processed>>

\* The session cleaner: see StorageServer.
Clean ==
  /\ \/ IoGoes("run", "clean") /\ ~ ioStopped
     \/ IoGoes("clean", "run")
  /\ UNCHANGED <<service, received, ioStopped, executorVars, queueVars, sockExit,
                 freed, arrived>>

\* run returns when the io_service is stopped.
EndIo ==
  /\ ioStopped
  /\ IoGoes("run", "ended")
  /\ UNCHANGED <<service, received, ioStopped, executorVars, queueVars, sockExit,
                 freed, arrived>>

\* A handler, or run, that goes on after the members were deleted may find what
\* was there before, or end the process.
UseFreed ==
  /\ freed
  /\ io \in Handling \cup {"run"}
  /\ io' = "crashed"
  /\ UNCHANGED <<service, received, ioStopped, executorVars, queueVars, sockExit,
                 freed, arrived>>

Io == \/ StartSocket \/ CreateThread \/ StoreMustExit \/ AssignExecutor
      \/ PushMessage \/ Enqueue \/ NotifyOne \/ Clean \/ EndIo \/ UseFreed

------------------------------------------------------------------------------
(* The executors.                                                          *)

\* serverExecutor looks at fMustExit before each message.
CheckExit(e) ==
  /\ thread[e] = "check"
  /\ thread' = [thread EXCEPT ![e] = IF mustExit THEN "exited" ELSE "pop"]
  /\ UNCHANGED <<service, ioVars, ioStopped, held, mustExit, assigned, queueVars,
                 sockExit, freed, processed>>

\* popMessage, from the lock to the wait or the return.
PopMessage(e) ==
  /\ thread[e] = "pop"
  /\ \/ /\ queueExit
        /\ thread' = [thread EXCEPT ![e] = "check"]
        /\ UNCHANGED <<held, queue>>
     \/ /\ ~ queueExit
        /\ queue = <<>>
        /\ thread' = [thread EXCEPT ![e] = "wait"]
        /\ UNCHANGED <<held, queue>>
     \/ /\ ~ queueExit
        /\ queue # <<>>
        /\ thread' = [thread EXCEPT ![e] = "process"]
        /\ held' = [held EXCEPT ![e] = Head(queue)]
        /\ queue' = Tail(queue)
  /\ UNCHANGED <<service, ioVars, ioStopped, mustExit, assigned, queueExit,
                 sockExit, freed, processed>>

\* A condition variable may wake a thread for no reason.
WakeUp(e) ==
  /\ thread[e] = "wait"
  /\ thread' = [thread EXCEPT ![e] = "pop"]
  /\ UNCHANGED <<service, ioVars, ioStopped, held, mustExit, assigned, queueVars,
                 sockExit, freed, processed>>

\* A slip: msg is not reset when the message has been processed.
ProcessAndKeep(e) ==
  /\ thread[e] = "process"
  /\ thread' = [thread EXCEPT ![e] = "check"]
  /\ processed' = processed \cup {held[e]}
  /\ UNCHANGED <<service, ioVars, ioStopped, held, mustExit, assigned, queueVars,
                 sockExit, freed>>

ProcessMessage(e) ==
  /\ thread[e] = "process"
  /\ thread' = [thread EXCEPT ![e] = "check"]
  /\ processed' = processed \cup {held[e]}
  /\ held' = [held EXCEPT ![e] = NoMessage]
  /\ UNCHANGED <<service, ioVars, ioStopped, mustExit, assigned, queueVars,
                 sockExit, freed>>

Run(e) == CheckExit(e) \/ PopMessage(e) \/ ProcessMessage(e)

------------------------------------------------------------------------------
(* The service's thread: ~StorageServerCore.                               *)

ServiceGoes(from, to) == service = from /\ service' = to

\* OnStop may come at any time.
OnStop ==
  /\ ServiceGoes("running", "stopIo")
  /\ UNCHANGED <<ioVars, ioStopped, executorVars, queueVars, sockExit, freed>>

StopIo ==
  /\ ServiceGoes("stopIo", "stopExecutors")
  /\ ioStopped' = TRUE
  /\ UNCHANGED <<ioVars, executorVars, queueVars, sockExit, freed>>

\* Without an executor the call ends in an exception, which OnStop swallows.
StopExecutors ==
  /\ \/ assigned /\ ServiceGoes("stopExecutors", "clear") /\ mustExit' = TRUE
     \/ ~ assigned /\ ServiceGoes("stopExecutors", "aborted") /\ UNCHANGED mustExit
  /\ UNCHANGED <<ioVars, ioStopped, thread, held, assigned, processed, queueVars,
                 sockExit, freed>>

\* A slip: notify_one for notify_all.
ClearAndWakeOne ==
  /\ ServiceGoes("clear", "stopIncoming")
  /\ queue' = <<>>
  /\ queueExit' = TRUE
  /\ \/ \E e \in Executors : /\ thread[e] = "wait"
                             /\ thread' = [thread EXCEPT ![e] = "pop"]
     \/ /\ \A e \in Executors : thread[e] # "wait"
        /\ UNCHANGED thread
  /\ UNCHANGED <<ioVars, ioStopped, held, mustExit, assigned, processed, sockExit,
                 freed>>

ClearQueue ==
  /\ ServiceGoes("clear", "stopIncoming")
  /\ queue' = <<>>
  /\ queueExit' = TRUE
  /\ thread' = [e \in Executors |-> IF thread[e] = "wait" THEN "pop" ELSE thread[e]]
  /\ UNCHANGED <<ioVars, ioStopped, held, mustExit, assigned, processed, sockExit,
                 freed>>

StopIncoming ==
  /\ ServiceGoes("stopIncoming", "join")
  /\ sockExit' = TRUE
  /\ UNCHANGED <<ioVars, ioStopped, executorVars, queueVars, freed>>

\* A slip: the members are deleted without waiting for the executors.
JoinNone ==
  /\ ServiceGoes("join", "free")
  /\ UNCHANGED <<ioVars, ioStopped, executorVars, queueVars, sockExit, freed>>

\* join_all waits for the threads the pool has created.
JoinExecutors ==
  /\ ServiceGoes("join", "free")
  /\ \A e \in Executors : thread[e] \in {"none", "exited"}
  /\ UNCHANGED <<ioVars, ioStopped, executorVars, queueVars, sockExit, freed>>

Free ==
  /\ ServiceGoes("free", "joinIo")
  /\ freed' = TRUE
  /\ UNCHANGED <<ioVars, ioStopped, executorVars, queueVars, sockExit>>

JoinIo ==
  /\ io = "ended"
  /\ ServiceGoes("joinIo", "stopped")
  /\ UNCHANGED <<ioVars, ioStopped, executorVars, queueVars, sockExit, freed>>

Stop == \/ StopIo \/ StopExecutors \/ ClearQueue \/ StopIncoming
        \/ JoinExecutors \/ Free \/ JoinIo

Next ==
  \/ io # "crashed" /\ (Io \/ HandleRead \/ OnStop \/ Stop)
  \/ io # "crashed" /\ \E e \in Executors : Run(e) \/ WakeUp(e)

\* The threads keep running, and a handler returns; nothing makes a message
\* arrive, the service stop or a thread wake up for no reason.
Fairness ==
  /\ WF_vars(io # "crashed" /\ Io)
  /\ WF_vars(io # "crashed" /\ Stop)
  /\ \A e \in Executors : WF_vars(io # "crashed" /\ Run(e))

Spec == Init /\ [][Next]_vars
FairSpec == Spec /\ Fairness

------------------------------------------------------------------------------
(* Properties.                                                             *)

\* No executor uses the queue, the sessions or the database after
\* ~TStorageServer has deleted them: it joins the executors first, and a thread
\* created by startServer is always one it joins.
ExecutorsSpareFreed ==
  freed => \A e \in Executors : thread[e] \in {"none", "exited"}

\* The service stops: no executor is left waiting in popMessage when join_all
\* waits for it, wherever it was when clear and stopExecutors ran.
ShutdownCompletes ==
  service = "stopIo" ~> service \in {"stopped", "aborted"} \/ io = "crashed"

\* A message that was queued is processed unless the service stops or the pool
\* has lost all its threads at the start (PoolComplete): no wake-up of popMessage
\* is lost between pushMessage's push and its notify_one.
Queued(m) == \E i \in DOMAIN queue : queue[i] = m
QueuedIsProcessed ==
  \A m \in Messages :
    Queued(m) ~> \/ m \in processed
                 \/ service # "running"
                 \/ \A e \in Executors : thread[e] = "exited"

\* The constructor of TMessageExecutor says "create all executor threads": when
\* the server runs, all of them are there.
PoolComplete ==
  io = "run" /\ service = "running" => \A e \in Executors : thread[e] # "exited"

\* pushMessage says "do not push if should exit": a queue that was cleared by
\* stopSocket stays empty.
NoPushAfterExit == queueExit => queue = <<>>

\* stopSocket reports "incoming connections closed": no handler of the io thread
\* is under way when the members it uses are deleted.
IoSparesFreed == freed => io \notin Handling
==============================================================================
