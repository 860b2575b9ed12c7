------------------------ MODULE ServerLifecycleProofs ------------------------
(***************************************************************************)
(* For any number of executors and messages, whatever the uninitialised    *)
(* fMustExit holds, no executor outlives what it works on.                 *)
(***************************************************************************)
EXTENDS ServerLifecycle, TLAPS

Created(e) == thread[e] # "none"
Over(e) == thread[e] \in {"none", "exited"}

\* stopServer goes past the executors only when fExecutor is set, fExecutor is
\* set only when every thread has been created, and the members are deleted
\* only when those have been joined.  A thread that has exited takes no step.
ExecutorsInv ==
  /\ thread \in [Executors -> ThreadSteps]
  /\ io \in {"store", "assign"} => \A e \in Executors : Created(e)
  /\ assigned => \A e \in Executors : Created(e)
  /\ service \in {"clear", "stopIncoming", "join", "free", "joinIo", "stopped"}
       => assigned
  /\ service \in {"free", "joinIo", "stopped"} => \A e \in Executors : Over(e)
  /\ freed => service \in {"joinIo", "stopped"}

------------------------------------------------------------------------------
LEMMA ExecutorsInvInit == Init => ExecutorsInv
BY DEF Init, ExecutorsInv, ThreadSteps

\* A step that leaves the threads and the service alone and does not reach the
\* end of the constructor of TMessageExecutor.
LEMMA ThreadsLeftAlone ==
  ASSUME ExecutorsInv, UNCHANGED <<service, thread, assigned, freed>>,
         io' \in {"store", "assign"} => io \in {"store", "assign"}
  PROVE  ExecutorsInv'
BY DEF ExecutorsInv, Created, Over

\* Likewise for a step that wakes waiting threads.
LEMMA ThreadsWoken ==
  ASSUME ExecutorsInv, UNCHANGED <<io, assigned, freed>>,
         service' = service \/ (service = "clear" /\ service' = "stopIncoming"),
         thread' \in [Executors -> ThreadSteps],
         \A e \in Executors : thread'[e] # thread[e] =>
            thread[e] \notin {"none", "exited"} /\ thread'[e] # "none"
  PROVE  ExecutorsInv'
BY DEF ExecutorsInv, Created, Over

LEMMA IoKeepsExecutorsInv ==
  ASSUME ExecutorsInv, Io \/ HandleRead
  PROVE  ExecutorsInv'
<1>1. CASE StartSocket
  BY <1>1, ThreadsLeftAlone DEF StartSocket, IoGoes, executorVars
<1>2. CASE CreateThread
  <2>1. PICK e \in Executors :
           /\ thread[e] = "none"
           /\ thread' = [thread EXCEPT ![e] = "check"]
           /\ io' = IF \A x \in Executors \ {e} : thread[x] # "none"
                      THEN "store" ELSE "create"
    BY <1>2 DEF CreateThread
  <2>2. UNCHANGED <<service, assigned, freed>> /\ ~ assigned
    BY <1>2, <2>1 DEF CreateThread, ExecutorsInv, Created
  <2>3. thread' \in [Executors -> ThreadSteps]
    BY <2>1 DEF ExecutorsInv, ThreadSteps
  <2>4. io' \in {"store", "assign"} => \A x \in Executors : Created(x)'
    BY <2>1 DEF ExecutorsInv, Created
  <2>5. QED
    BY <2>2, <2>3, <2>4 DEF ExecutorsInv
<1>3. CASE StoreMustExit
  BY <1>3, ThreadsLeftAlone DEF StoreMustExit, IoGoes
<1>4. CASE AssignExecutor
  BY <1>4 DEF AssignExecutor, IoGoes, ExecutorsInv, Created, Over
<1>5. CASE HandleRead
  BY <1>5, ThreadsLeftAlone DEF HandleRead, executorVars
<1>6. CASE PushMessage
  BY <1>6, ThreadsLeftAlone DEF PushMessage, IoGoes, executorVars
<1>7. CASE Enqueue
  BY <1>7, ThreadsLeftAlone DEF Enqueue, IoGoes, executorVars
<1>8. CASE NotifyOne
  <2>1. CASE UNCHANGED thread
    BY <1>8, <2>1, ThreadsLeftAlone DEF NotifyOne, IoGoes
  <2>2. CASE \E e \in Executors : /\ thread[e] = "wait"
                                  /\ thread' = [thread EXCEPT ![e] = "pop"]
    BY <1>8, <2>2
    DEF NotifyOne, IoGoes, ExecutorsInv, Created, Over, ThreadSteps
  <2>3. QED
    BY <1>8, <2>1, <2>2 DEF NotifyOne
<1>9. CASE Clean
  BY <1>9, ThreadsLeftAlone DEF Clean, IoGoes, executorVars
<1>10. CASE EndIo
  BY <1>10, ThreadsLeftAlone DEF EndIo, IoGoes, executorVars
<1>11. CASE UseFreed
  BY <1>11, ThreadsLeftAlone DEF UseFreed, executorVars
<1>12. QED
  BY <1>1, <1>2, <1>3, <1>4, <1>5, <1>6, <1>7, <1>8, <1>9, <1>10, <1>11 DEF Io

LEMMA RunKeepsExecutorsInv ==
  ASSUME ExecutorsInv, NEW e \in Executors, Run(e) \/ WakeUp(e)
  PROVE  ExecutorsInv'
<1>1. /\ UNCHANGED <<io, assigned, freed, service>>
      /\ thread[e] \notin {"none", "exited"}
      /\ \E s \in ThreadSteps \ {"none"} : thread' = [thread EXCEPT ![e] = s]
  BY DEF Run, CheckExit, PopMessage, ProcessMessage, WakeUp, ioVars, ThreadSteps
<1>2. QED
  BY <1>1, ThreadsWoken DEF ExecutorsInv

LEMMA ServiceKeepsExecutorsInv ==
  ASSUME ExecutorsInv, OnStop \/ Stop
  PROVE  ExecutorsInv'
<1>1. CASE OnStop \/ StopIo \/ StopIncoming
  BY <1>1
  DEF OnStop, StopIo, StopIncoming, ServiceGoes, ExecutorsInv, Created, Over,
      ioVars, executorVars
<1>2. CASE StopExecutors
  BY <1>2 DEF StopExecutors, ServiceGoes, ExecutorsInv, Created, Over, ioVars
<1>3. CASE ClearQueue
  <2>1. /\ thread' \in [Executors -> ThreadSteps]
        /\ \A e \in Executors : thread'[e] # thread[e] =>
              thread[e] \notin {"none", "exited"} /\ thread'[e] # "none"
    BY <1>3 DEF ClearQueue, ExecutorsInv, ThreadSteps
  <2>2. QED
    BY <1>3, <2>1, ThreadsWoken DEF ClearQueue, ServiceGoes, ioVars
<1>4. CASE JoinExecutors
  BY <1>4
  DEF JoinExecutors, ServiceGoes, ExecutorsInv, Created, Over, ioVars, executorVars
<1>5. CASE Free \/ JoinIo
  BY <1>5
  DEF Free, JoinIo, ServiceGoes, ExecutorsInv, Created, Over, ioVars, executorVars
<1>6. QED
  BY <1>1, <1>2, <1>3, <1>4, <1>5 DEF Stop

LEMMA ExecutorsInvNext == ExecutorsInv /\ [Next]_vars => ExecutorsInv'
<1>1. SUFFICES ASSUME ExecutorsInv, [Next]_vars
               PROVE  ExecutorsInv'
  OBVIOUS
<1>2. CASE UNCHANGED vars
  BY <1>1, <1>2, ThreadsLeftAlone DEF vars
<1>3. CASE Next
  BY <1>1, <1>3, IoKeepsExecutorsInv, RunKeepsExecutorsInv, ServiceKeepsExecutorsInv
  DEF Next
<1>4. QED
  BY <1>1, <1>2, <1>3

\* No executor uses the queue, the sessions or the database after
\* ~TStorageServer has deleted them.
THEOREM ExecutorsEndFirst == Spec => []ExecutorsSpareFreed
<1>1. ExecutorsInv => ExecutorsSpareFreed
  BY DEF ExecutorsInv, ExecutorsSpareFreed, Over
<1>2. QED
  BY <1>1, ExecutorsInvInit, ExecutorsInvNext, PTL DEF Spec

------------------------------------------------------------------------------
(* Types.  What PushMessage and Enqueue put into the queue is a message:   *)
(* HandleRead set it, and nothing resets it before NotifyOne.              *)

ReceivedInv == io \in {"read", "push"} => received \in Messages
TypeInv == TypeOK /\ ReceivedInv

LEMMA TypeInvInit == Init => TypeInv
<1> SUFFICES ASSUME Init
             PROVE  TypeInv
  OBVIOUS
<1>1. mustExit \in BOOLEAN
  BY FreshAssumption DEF Init
<1>2. /\ thread \in [Executors -> ThreadSteps]
      /\ held \in [Executors -> Messages \cup {NoMessage}]
      /\ \A e \in Executors : thread[e] = "process" <=> held[e] # NoMessage
  BY DEF Init, ThreadSteps
<1>3. {ioStopped, mustExit, assigned, queueExit, sockExit, freed} \subseteq BOOLEAN
  BY <1>1 DEF Init
<1>4. queue \in Seq(Messages)
  BY DEF Init
<1> QED
  BY <1>2, <1>3, <1>4 DEF Init, TypeInv, TypeOK, ReceivedInv, ServiceSteps, IoSteps

\* An executor is moved, and neither leaves nor enters its processing.
LEMMA ThreadMoved ==
  ASSUME TypeOK, NEW e \in Executors, NEW step \in ThreadSteps \ {"process"},
         thread[e] # "process", thread' = [thread EXCEPT ![e] = step],
         UNCHANGED held
  PROVE  /\ thread' \in [Executors -> ThreadSteps]
         /\ \A x \in Executors : thread'[x] = "process" <=> held'[x] # NoMessage
BY DEF TypeOK

LEMMA IoKeepsTypeInv ==
  ASSUME TypeInv, Io \/ HandleRead
  PROVE  TypeInv'
<1> USE DEF TypeInv, ReceivedInv, IoGoes, executorVars, queueVars
<1>1. CASE StartSocket
  BY <1>1 DEF StartSocket, TypeOK, IoSteps
<1>2. CASE CreateThread
  <2>1. PICK e \in Executors : /\ thread[e] = "none"
                               /\ thread' = [thread EXCEPT ![e] = "check"]
    BY <1>2 DEF CreateThread
  <2>2. /\ thread' \in [Executors -> ThreadSteps]
        /\ \A x \in Executors : thread'[x] = "process" <=> held'[x] # NoMessage
    BY <1>2, <2>1, ThreadMoved DEF CreateThread, ThreadSteps
  <2>3. io' \in {"store", "create"}
    BY <1>2 DEF CreateThread
  <2> QED
    BY <1>2, <2>2, <2>3 DEF CreateThread, TypeOK, IoSteps
<1>3. CASE StoreMustExit
  BY <1>3 DEF StoreMustExit, TypeOK, IoSteps
<1>4. CASE AssignExecutor
  BY <1>4 DEF AssignExecutor, TypeOK, IoSteps
<1>5. CASE HandleRead
  BY <1>5 DEF HandleRead, TypeOK, IoSteps, Handling
<1>6. CASE PushMessage
  BY <1>6 DEF PushMessage, TypeOK, IoSteps, Handling
<1>7. CASE Enqueue
  BY <1>7 DEF Enqueue, TypeOK, IoSteps, Handling
<1>8. CASE NotifyOne
  <2>1. CASE UNCHANGED thread
    BY <1>8, <2>1 DEF NotifyOne, TypeOK, IoSteps
  <2>2. ASSUME NEW e \in Executors, thread[e] = "wait",
               thread' = [thread EXCEPT ![e] = "pop"]
        PROVE  TypeInv'
    <3>1. /\ thread' \in [Executors -> ThreadSteps]
          /\ \A x \in Executors : thread'[x] = "process" <=> held'[x] # NoMessage
      BY <1>8, <2>2, ThreadMoved DEF NotifyOne, ThreadSteps
    <3> QED
      BY <1>8, <3>1 DEF NotifyOne, TypeOK, IoSteps
  <2> QED
    BY <1>8, <2>1, <2>2 DEF NotifyOne
<1>9. CASE Clean
  BY <1>9 DEF Clean, TypeOK, IoSteps, Handling
<1>10. CASE EndIo
  BY <1>10 DEF EndIo, TypeOK, IoSteps
<1>11. CASE UseFreed
  BY <1>11 DEF UseFreed, TypeOK, IoSteps
<1> QED
  BY <1>1, <1>2, <1>3, <1>4, <1>5, <1>6, <1>7, <1>8, <1>9, <1>10, <1>11 DEF Io

LEMMA ExecutorsKeepTypeInv ==
  ASSUME TypeInv, NEW e \in Executors, Run(e) \/ WakeUp(e)
  PROVE  TypeInv'
<1> USE DEF TypeInv, ReceivedInv, ioVars, queueVars
<1>1. CASE CheckExit(e) \/ WakeUp(e)
  <2>1. PICK step \in ThreadSteps \ {"process"} :
          thread' = [thread EXCEPT ![e] = step]
    BY <1>1 DEF CheckExit, WakeUp, ThreadSteps
  <2>2. /\ thread' \in [Executors -> ThreadSteps]
        /\ \A x \in Executors : thread'[x] = "process" <=> held'[x] # NoMessage
    BY <1>1, <2>1, ThreadMoved DEF CheckExit, WakeUp
  <2> QED
    BY <1>1, <2>2 DEF CheckExit, WakeUp, TypeOK
<1>2. CASE PopMessage(e)
  <2>1. CASE UNCHANGED <<held, queue>>
    <3>1. PICK step \in ThreadSteps \ {"process"} :
            thread' = [thread EXCEPT ![e] = step]
      BY <1>2, <2>1, NoMessageAssumption DEF PopMessage, ThreadSteps
    <3>2. /\ thread' \in [Executors -> ThreadSteps]
          /\ \A x \in Executors : thread'[x] = "process" <=> held'[x] # NoMessage
      BY <1>2, <2>1, <3>1, ThreadMoved DEF PopMessage
    <3> QED
      BY <1>2, <2>1, <3>2 DEF PopMessage, TypeOK
  <2>2. CASE /\ queue # <<>>
             /\ thread' = [thread EXCEPT ![e] = "process"]
             /\ held' = [held EXCEPT ![e] = Head(queue)]
             /\ queue' = Tail(queue)
    <3>1. Head(queue) \in Messages /\ queue' \in Seq(Messages)
      BY <2>2 DEF TypeOK
    <3>2. /\ thread' \in [Executors -> ThreadSteps]
          /\ held' \in [Executors -> Messages \cup {NoMessage}]
          /\ \A x \in Executors : thread'[x] = "process" <=> held'[x] # NoMessage
      BY <2>2, <3>1, NoMessageAssumption DEF TypeOK, ThreadSteps
    <3> QED
      BY <1>2, <3>1, <3>2 DEF PopMessage, TypeOK
  <2> QED
    BY <1>2, <2>1, <2>2 DEF PopMessage
<1>3. CASE ProcessMessage(e)
  <2>1. held[e] \in Messages
    BY <1>3 DEF ProcessMessage, TypeOK
  <2>2. /\ thread' \in [Executors -> ThreadSteps]
        /\ held' \in [Executors -> Messages \cup {NoMessage}]
        /\ \A x \in Executors : thread'[x] = "process" <=> held'[x] # NoMessage
    BY <1>3 DEF ProcessMessage, TypeOK, ThreadSteps
  <2>3. processed' \subseteq Messages
    BY <1>3, <2>1 DEF ProcessMessage, TypeOK
  <2> QED
    BY <1>3, <2>2, <2>3 DEF ProcessMessage, TypeOK
<1> QED
  BY <1>1, <1>2, <1>3 DEF Run

LEMMA ServiceKeepsTypeInv ==
  ASSUME TypeInv, OnStop \/ Stop
  PROVE  TypeInv'
<1> USE DEF TypeInv, ReceivedInv, ServiceGoes, ioVars, executorVars, queueVars
<1>1. CASE OnStop
  BY <1>1 DEF OnStop, TypeOK, ServiceSteps
<1>2. CASE StopIo
  BY <1>2 DEF StopIo, TypeOK, ServiceSteps
<1>3. CASE StopExecutors
  BY <1>3 DEF StopExecutors, TypeOK, ServiceSteps
<1>4. CASE ClearQueue
  <2>1. /\ thread' \in [Executors -> ThreadSteps]
        /\ \A x \in Executors : thread'[x] = "process" <=> held'[x] # NoMessage
    BY <1>4 DEF ClearQueue, TypeOK, ThreadSteps
  <2> QED
    BY <1>4, <2>1 DEF ClearQueue, TypeOK, ServiceSteps
<1>5. CASE StopIncoming
  BY <1>5 DEF StopIncoming, TypeOK, ServiceSteps
<1>6. CASE JoinExecutors
  BY <1>6 DEF JoinExecutors, TypeOK, ServiceSteps
<1>7. CASE Free
  BY <1>7 DEF Free, TypeOK, ServiceSteps
<1>8. CASE JoinIo
  BY <1>8 DEF JoinIo, TypeOK, ServiceSteps
<1> QED
  BY <1>1, <1>2, <1>3, <1>4, <1>5, <1>6, <1>7, <1>8 DEF Stop

\* TypeOK, whatever the number of executors and messages: in particular an
\* executor holds a message exactly while it processes one, so none is taken
\* from the queue and dropped.
THEOREM TypeCorrect == Spec => []TypeOK
<1>1. TypeInv /\ [Next]_vars => TypeInv'
  <2> SUFFICES ASSUME TypeInv, [Next]_vars
               PROVE  TypeInv'
    OBVIOUS
  <2>1. CASE UNCHANGED vars
    BY <2>1 DEF vars, TypeInv, TypeOK, ReceivedInv
  <2>2. CASE Io \/ HandleRead
    BY <2>2, IoKeepsTypeInv
  <2>3. CASE OnStop \/ Stop
    BY <2>3, ServiceKeepsTypeInv
  <2>4. ASSUME NEW e \in Executors, Run(e) \/ WakeUp(e)
        PROVE  TypeInv'
    BY <2>4, ExecutorsKeepTypeInv
  <2> QED
    BY <2>1, <2>2, <2>3, <2>4 DEF Next
<1>2. TypeInv => TypeOK
  BY DEF TypeInv
<1> QED
  BY TypeInvInit, <1>1, <1>2, PTL DEF Spec
==============================================================================
