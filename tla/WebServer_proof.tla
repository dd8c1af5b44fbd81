-------------------------- MODULE WebServer_proof --------------------------
(***************************************************************************)
(* The safety properties of the web server, for every number of browsers,  *)
(* every size of a simulation and every capacity of the queue.  Whatever   *)
(* the server, its simulation threads and the workers do to the queue is a *)
(* step of TaskQueue, so that the invariant of the array holds here as it  *)
(* stands.  WebInv adds to it what the server knows of its connection, of  *)
(* the tasks whose cancellation it confirmed and of the time of the signal.*)
(***************************************************************************)
EXTENDS WebServer, TaskQueue_proof

\* A task with this id was submitted and will not be executed any more: all that
\* can be left of it is a cell that says FAILED.
Settled(id) ==
    /\ id < next_task_id
    /\ id \notin executing
    /\ \A i \in InUse : tasks[i].id = id => tasks[i].status = "FAILED"

ConfirmedIsSettled ==
    \A c \in Clients : answer[c].kind = "cancel" /\ answer[c].success =>
        Settled(answer[c].task_id)

\* Between accept and close the server has a connection somebody made.
ServesSomebody == server \in {"read", "handle", "lock", "send"} => conn \in connected

\* A connection accepted after the signal is the last: the loop ends before accept.
LateIsLast ==
    /\ late <= 1
    /\ late = 1 => ~ server_running /\ server # "accept"
    /\ server_running => late = 0

WebInv ==
    /\ WebTypeOK
    /\ IInv
    /\ StatisticsBalance
    /\ StatusAddsUp
    /\ ConfirmedIsSettled
    /\ ServesSomebody
    /\ LateIsLast

LEMMA WebInitInv == WebInit => WebInv
  <1> SUFFICES ASSUME WebInit PROVE WebInv
    OBVIOUS
  <1>1. Init /\ IInv /\ TypeOK
    BY InitInv DEF WebInit, IInv
  <1>2. StatisticsBalance
    BY <1>1, InitSets, FS_EmptySet DEF Init, StatisticsBalance
  <1>3. Cardinality(Clients) \in Nat
    BY ServerAssumption, FS_CardinalityType
  <1>4. \A c \in Clients : answer[c] = NoAnswer
    BY DEF WebInit
  <1>5. answer \in [Clients -> Answer] /\ sim \in [Clients -> 0..SimCount]
    BY ServerAssumption DEF WebInit, NoAnswer, Answer
  <1>6. WebTypeOK
    <2>1. mutex_lost \in BOOLEAN
      BY DEF WebInit
    <2> QED
      BY <1>1, <1>3, <1>5, <2>1 DEF WebInit, WebTypeOK
  <1>7. StatusAddsUp /\ ConfirmedIsSettled
    BY <1>4 DEF NoAnswer, StatusAddsUp, ConfirmedIsSettled
  <1>8. ServesSomebody /\ LateIsLast
    BY DEF WebInit, ServesSomebody, LateIsLast
  <1> QED
    BY <1>1, <1>2, <1>6, <1>7, <1>8 DEF WebInv

-----------------------------------------------------------------------------
\* The server as a client of the queue.

LEMMA CancellableIsIssued ==
  ASSUME IInv, NEW id, Cancellable(id)
  PROVE  id \in 1..(next_task_id - 1)
  BY DEF Cancellable, Finds, IInv, IdsIssued

\* Each step is one operation on the queue or none.
LEMMA QueueStep ==
  ASSUME IInv, [WebNext]_webVars
  PROVE  [Next]_vars
  <1>1. CASE \/ Loop \/ Accept \/ Read \/ ReadFails \/ ReadPart \/ Reply \/ BrokenPipe
             \/ ComesToLock \/ Signal
             \/ \E c \in Clients : Connect(c) \/ SendRequest(c) \/ Leave(c)
             \/ UNCHANGED webVars
    BY <1>1 DEF Loop, Accept, Read, ReadFails, ReadPart, Reply, BrokenPipe, ComesToLock, Signal,
       Connect, SendRequest, Leave, queueVars, webVars
  <1>2. CASE HandleStatus \/ HandleFile \/ HandleError \/ HandleSimulation
    BY <1>2 DEF HandleStatus, HandleFile, HandleError, HandleSimulation, queueVars
  <1>3. CASE HandleAddTask
    BY <1>3 DEF HandleAddTask, Next, Activity, queueVars
  <1>4. CASE HandleCancelTask
    BY <1>4, CancellableIsIssued DEF HandleCancelTask, Next, Activity, queueVars
  <1>5. CASE \E c \in Clients : SimulationStep(c)
    BY <1>5 DEF SimulationStep, Next, Activity, queueVars
  <1>6. CASE Work \/ WorkerDies
    BY <1>6 DEF Work, WorkerDies, Next, Activity
  <1> QED
    BY <1>1, <1>2, <1>3, <1>4, <1>5, <1>6 DEF WebNext, ServerStep

\* A worker that takes a task takes one that was waiting; nothing else adds to the
\* tasks that are held.
LEMMA TakesWhatWaited ==
  ASSUME IInv, [Next]_vars
  PROVE  \A id \in executing' \ executing :
            \E i \in InUse : tasks[i].id = id /\ tasks[i].status = "PENDING"
  <1>1. CASE DequeueTask
    BY <1>1, DequeueEffect DEF FirstPending, Pending
  <1>2. CASE \E p \in Priority : EnqueueTask(p)
    BY <1>2 DEF EnqueueTask
  <1>3. CASE \E id \in executing : Complete(id) \/ LaunchFails(id)
    BY <1>3 DEF Complete, LaunchFails
  <1>4. CASE \E ids \in SUBSET executing : WorkerLost(ids)
    BY <1>4 DEF WorkerLost
  <1>5. CASE \/ \E id \in 1..(next_task_id - 1) : CancelTask(id)
             \/ Tick
             \/ RemoveCompletedTasks
             \/ UNCHANGED vars
    BY <1>5 DEF CancelTask, Tick, RemoveCompletedTasks, vars
  <1> QED
    BY <1>1, <1>2, <1>3, <1>4, <1>5 DEF Next, Activity

LEMMA IdsOnlyGrow ==
  ASSUME IInv, [Next]_vars
  PROVE  next_task_id' \in Nat /\ next_task_id' >= next_task_id
  <1>0. next_task_id \in Nat
    BY DEF IInv, TypeOK
  <1>1. CASE \E p \in Priority : EnqueueTask(p)
    BY <1>0, <1>1 DEF EnqueueTask, InsertAt
  <1>2. CASE ~ \E p \in Priority : EnqueueTask(p)
    <2>1. UNCHANGED next_task_id
      BY <1>2 DEF Next, Activity, DequeueTask, Complete, LaunchFails, WorkerLost,
         CancelTask, Tick, RemoveCompletedTasks, vars
    <2> QED
      BY <1>0, <2>1
  <1> QED
    BY <1>1, <1>2

\* What is settled stays so: ids are not used twice, and FAILED is final.
LEMMA SettledStays ==
  ASSUME IInv, [Next]_vars, NEW id \in Nat, Settled(id)
  PROVE  Settled(id)'
  <1>0. /\ next_task_id \in Nat
        /\ \A i \in InUse : tasks[i].id = id => tasks[i].status = "FAILED"
        /\ id < next_task_id
    BY DEF IInv, TypeOK, Settled
  <1>1. id < next_task_id'
    BY <1>0, IdsOnlyGrow
  <1>2. id \notin executing'
    BY <1>0, TakesWhatWaited DEF Settled
  <1>3. ASSUME NEW j \in InUse', tasks'[j].id = id
        PROVE  tasks'[j].status = "FAILED"
    <2>1. CASE \E p \in Priority : EnqueueTask(p)
      BY <1>0, <1>3, <2>1, EnqueueMoves
    <2>2. CASE RemoveCompletedTasks
      BY <1>0, <1>3, <2>2, RemoveMoves
    <2>3. CASE UNCHANGED <<tasks, size>>
      BY <1>0, <1>3, <2>3 DEF InUse
    <2>4. ASSUME NEW i \in InUse, NEW s \in TaskStatus, SetsStatus(i, s),
                 tasks[i].status \in {"PENDING", "RUNNING"}
          PROVE  tasks'[j].status = "FAILED"
      <3>1. j \in InUse /\ j \in Cell
        BY <1>3, <2>4, InUseIsCell DEF SetsStatus, InUse, IInv
      <3>2. tasks[j].id = id /\ tasks'[j].status = IF j = i THEN s ELSE tasks[j].status
        BY <1>3, <2>4, <3>1 DEF SetsStatus
      <3> QED
        BY <1>0, <2>4, <3>1, <3>2
    <2> QED
      BY <2>1, <2>2, <2>3, <2>4, OtherSteps DEF Next, vars
  <1> QED
    BY <1>1, <1>2, <1>3 DEF Settled

\* cancel_task reports success only for a task it has just settled: the one with that
\* id was waiting, so nobody held it.
LEMMA CancelSettles ==
  ASSUME IInv, NEW id, Cancellable(id), CancelTask(id)
  PROVE  Settled(id)'
  <1>1. PICK i \in InUse :
           /\ tasks[i].id = id
           /\ Pending(i)
           /\ tasks' = [tasks EXCEPT ![i].status = "FAILED", ![i].end_time = now]
    BY DEF CancelTask, Finds
  <1>2. /\ tasks \in [Cell -> Task]
        /\ InUse \subseteq Cell
        /\ InUse' = InUse
        /\ UNCHANGED <<next_task_id, executing>>
    BY InUseIsCell DEF CancelTask, IInv, TypeOK, InUse
  <1>3. \A j \in InUse : tasks'[j].id = tasks[j].id
    BY <1>1, <1>2 DEF Task
  <1>4. tasks'[i].status = "FAILED"
    BY <1>1, <1>2 DEF Task
  <1>5. \A j \in InUse : tasks[j].id = id => j = i
    BY <1>1 DEF IInv, IdsDistinct
  <1>6. id \notin executing
    BY <1>1, <1>5 DEF Pending, IInv, ExecutingIsRunning, TasksOf
  <1>7. id < next_task_id
    BY CancellableIsIssued DEF IInv, TypeOK
  <1> QED
    BY <1>2, <1>3, <1>4, <1>5, <1>6, <1>7 DEF Settled

-----------------------------------------------------------------------------
\* The answers.

\* Whatever is written down for the client being served is all that changes.
LEMMA AnswersEffect ==
  ASSUME WebInv, [Next]_vars, NEW a \in Answer, Answers(a),
         server \in {"handle", "lock"},
         a.kind = "status" =>
            a.total = a.pending + a.running + a.completed + a.failed,
         a.kind = "cancel" /\ a.success => Settled(a.task_id)'
  PROVE  /\ answer' \in [Clients -> Answer]
         /\ StatusAddsUp'
         /\ ConfirmedIsSettled'
  <1>1. conn \in Clients /\ answer \in [Clients -> Answer]
    BY DEF WebInv, WebTypeOK, ServesSomebody
  <1>2. /\ answer' \in [Clients -> Answer]
        /\ \A c \in Clients : answer'[c] = IF c = conn THEN a ELSE answer[c]
    BY <1>1 DEF Answers
  <1>3. StatusAddsUp'
    BY <1>2 DEF WebInv, StatusAddsUp
  <1>4. \A c \in Clients : answer[c].kind = "cancel" => answer[c].task_id \in Nat
    BY <1>1 DEF Answer
  <1>5. ConfirmedIsSettled'
    BY <1>2, <1>4, SettledStays DEF WebInv, ConfirmedIsSettled
  <1> QED
    BY <1>2, <1>3, <1>5

LEMMA AnswersKept ==
  ASSUME WebInv, [Next]_vars, UNCHANGED answer
  PROVE  /\ answer' \in [Clients -> Answer]
         /\ StatusAddsUp'
         /\ ConfirmedIsSettled'
  <1>1. answer \in [Clients -> Answer]
    BY DEF WebInv, WebTypeOK
  <1>2. \A c \in Clients : answer[c].kind = "cancel" => answer[c].task_id \in Nat
    BY <1>1 DEF Answer
  <1>3. StatusAddsUp'
    BY DEF WebInv, StatusAddsUp
  <1>4. ConfirmedIsSettled'
    BY <1>2, SettledStays DEF WebInv, ConfirmedIsSettled
  <1> QED
    BY <1>1, <1>3, <1>4

LEMMA SnapshotAddsUp ==
  ASSUME IInv, StatisticsBalance
  PROVE  /\ Snapshot \in Answer
         /\ Snapshot.kind = "status"
         /\ Snapshot.total = Snapshot.pending + Snapshot.running
                             + Snapshot.completed + Snapshot.failed
  <1>1. /\ Cardinality(TasksOf("PENDING")) \in Nat
        /\ Cardinality(TasksOf("RUNNING")) \in Nat
    BY FiniteTasks
  <1>2. completed_tasks \in Nat /\ failed_tasks \in Nat /\ total_tasks \in Nat
    BY DEF IInv, TypeOK
  <1> QED
    BY <1>1, <1>2 DEF Snapshot, Answer, StatisticsBalance

LEMMA AnswerPart ==
  ASSUME WebInv, [WebNext]_webVars
  PROVE  /\ answer' \in [Clients -> Answer]
         /\ StatusAddsUp'
         /\ ConfirmedIsSettled'
  <1>0. IInv /\ StatisticsBalance /\ [Next]_vars
    BY QueueStep DEF WebInv
  <1>1. CASE HandleStatus
    BY <1>0, <1>1, SnapshotAddsUp, AnswersEffect DEF HandleStatus, Locked
  <1>2. CASE HandleFile
    <2>1. [kind |-> "file"] \in Answer
      BY DEF Answer
    <2> QED
      BY <1>0, <1>2, <2>1, AnswersEffect DEF HandleFile, Asked
  <1>3. CASE HandleError
    <2>1. [kind |-> "error"] \in Answer
      BY DEF Answer
    <2> QED
      BY <1>0, <1>3, <2>1, AnswersEffect DEF HandleError
  <1>4. CASE HandleAddTask
    <2>1. PICK n \in Nat : Answers([kind |-> "add", task_id |-> n])
      BY <1>0, <1>4 DEF HandleAddTask, IInv, TypeOK
    <2>2. [kind |-> "add", task_id |-> n] \in Answer
      BY DEF Answer
    <2> QED
      BY <1>0, <1>4, <2>1, <2>2, AnswersEffect DEF HandleAddTask, Locked
  <1>5. CASE HandleCancelTask
    <2>1. PICK id \in 1..LastId :
             /\ IF Cancellable(id) THEN CancelTask(id) ELSE UNCHANGED queueVars
             /\ Answers([kind |-> "cancel", task_id |-> id, success |-> Cancellable(id)])
      BY <1>5 DEF HandleCancelTask
    <2>2. id \in Nat
      BY QueueAssumption
    <2>3. Cancellable(id) \in BOOLEAN
      BY DEF Cancellable
    <2>4. [kind |-> "cancel", task_id |-> id, success |-> Cancellable(id)] \in Answer
      BY <2>2, <2>3 DEF Answer
    <2>5. Cancellable(id) => Settled(id)'
      BY <1>0, <2>1, CancelSettles
    <2> QED
      BY <1>0, <1>5, <2>1, <2>4, <2>5, AnswersEffect DEF HandleCancelTask, Locked
  <1>6. CASE HandleSimulation
    <2>1. [kind |-> "simulate", total |-> SimCount] \in Answer
      BY ServerAssumption DEF Answer
    <2> QED
      BY <1>0, <1>6, <2>1, AnswersEffect DEF HandleSimulation, Asked
  <1>7. CASE \/ Loop \/ Accept \/ Read \/ ReadFails \/ ReadPart \/ Reply \/ BrokenPipe
             \/ ComesToLock \/ Signal
             \/ Work \/ WorkerDies
             \/ \E c \in Clients :
                   Connect(c) \/ SendRequest(c) \/ Leave(c) \/ SimulationStep(c)
             \/ UNCHANGED webVars
    <2>1. UNCHANGED answer
      BY <1>7 DEF Loop, Accept, Read, ReadFails, ReadPart, Reply, BrokenPipe, ComesToLock,
         Signal, Work, WorkerDies, Connect, SendRequest, Leave, SimulationStep, serverVars, webVars
    <2> QED
      BY <1>0, <2>1, AnswersKept
  <1> QED
    BY <1>1, <1>2, <1>3, <1>4, <1>5, <1>6, <1>7 DEF WebNext, ServerStep

-----------------------------------------------------------------------------
\* The connection, the clients and the flag.

\* The types of what the server and its clients keep besides the queue and the answers.
ConnectionTypes ==
    /\ server \in {"loop", "accept", "read", "handle", "lock", "send", "gone"}
    /\ server_running \in BOOLEAN
    /\ conn \in Clients \cup {NoClient}
    /\ kind \in [Clients -> Kind]
    /\ connected \subseteq Clients
    /\ sent \subseteq connected
    /\ left \subseteq connected
    /\ done \subseteq connected
    /\ mutex_lost \in BOOLEAN

ConnectionInv == ConnectionTypes /\ ServesSomebody

LEMMA ConnectionPart ==
  ASSUME ConnectionInv, [WebNext]_webVars
  PROVE  ConnectionInv'
  <1> USE DEF ConnectionInv, ConnectionTypes, ServesSomebody, clientVars, serverVars
  <1>1. CASE Loop
    BY <1>1 DEF Loop, ServerEnds
  <1>2. CASE Accept
    BY <1>2 DEF Accept, Queued
  <1>3. CASE Read \/ ReadPart \/ ComesToLock
    BY <1>3 DEF Read, ReadPart, ComesToLock
  <1>4. CASE ReadFails
    BY <1>4 DEF ReadFails
  <1>5. CASE Reply
    BY <1>5 DEF Reply
  <1>6. CASE BrokenPipe
    BY <1>6 DEF BrokenPipe, ServerEnds
  <1>7. CASE \/ HandleStatus \/ HandleFile \/ HandleError \/ HandleAddTask
             \/ HandleCancelTask \/ HandleSimulation
    <2>1. /\ server \in {"handle", "lock"} /\ server' = "send"
          /\ UNCHANGED <<clientVars, server_running, conn, done, mutex_lost>>
      BY <1>7 DEF HandleStatus, HandleFile, HandleError, HandleAddTask, HandleCancelTask,
         HandleSimulation, Answers, Asked, Locked
    <2> QED
      BY <2>1
  <1>8. CASE Signal
    BY <1>8 DEF Signal
  <1>9. CASE Work \/ WorkerDies
    BY <1>9 DEF Work, WorkerDies
  <1>10. CASE \E c \in Clients : Connect(c) \/ SendRequest(c) \/ Leave(c)
    BY <1>10 DEF Connect, SendRequest, Leave
  <1>11. CASE \E c \in Clients : SimulationStep(c)
    BY <1>11 DEF SimulationStep
  <1>12. CASE UNCHANGED webVars
    BY <1>12 DEF webVars
  <1> QED
    BY <1>1, <1>2, <1>3, <1>4, <1>5, <1>6, <1>7, <1>8, <1>9, <1>10, <1>11, <1>12
    DEF WebNext, ServerStep

\* A simulation only counts down, and ends with the process.
LEMMA SimulationPart ==
  ASSUME sim \in [Clients -> 0..SimCount], [WebNext]_webVars
  PROVE  sim' \in [Clients -> 0..SimCount]
  <1>0. SimCount \in Nat
    BY ServerAssumption
  <1>1. CASE Loop \/ BrokenPipe
    BY <1>0, <1>1 DEF Loop, BrokenPipe, ServerEnds
  <1>2. CASE HandleSimulation
    <2>1. sim' = [sim EXCEPT ![conn] = SimCount] /\ SimCount \in 0..SimCount
      BY <1>0, <1>2 DEF HandleSimulation
    <2> QED
      BY <2>1
  <1>3. CASE \E c \in Clients : SimulationStep(c)
    <2>1. PICK c \in Clients : sim[c] > 0 /\ sim' = [sim EXCEPT ![c] = @ - 1]
      BY <1>3 DEF SimulationStep
    <2>2. sim[c] - 1 \in 0..SimCount
      BY <1>0, <2>1
    <2> QED
      BY <2>1, <2>2
  <1>4. CASE \/ Accept \/ Read \/ ReadFails \/ ReadPart \/ Reply \/ HandleStatus
             \/ HandleFile \/ HandleError \/ HandleAddTask \/ HandleCancelTask
             \/ ComesToLock \/ Signal
             \/ Work \/ WorkerDies
             \/ \E c \in Clients : Connect(c) \/ SendRequest(c) \/ Leave(c)
             \/ UNCHANGED webVars
    <2>1. UNCHANGED sim
      BY <1>4 DEF Accept, Read, ReadFails, ReadPart, Reply, HandleStatus, HandleFile,
         HandleError, HandleAddTask, HandleCancelTask, ComesToLock, Signal, Work,
         WorkerDies, Connect,
         SendRequest, Leave, serverVars, webVars
    <2> QED
      BY <2>1
  <1> QED
    BY <1>1, <1>2, <1>3, <1>4 DEF WebNext, ServerStep

\* The flag is tested between two accepts, and nobody sets it again.
LEMMA LatePart ==
  ASSUME WebInv, [WebNext]_webVars
  PROVE  LateIsLast' /\ late' \in 0..Cardinality(Clients)
  <1>0. /\ LateIsLast
        /\ late \in Nat
        /\ late <= Cardinality(Clients)
        /\ Cardinality(Clients) \in Nat
    BY ServerAssumption, FS_CardinalityType DEF WebInv, WebTypeOK
  <1>1. CASE Loop
    BY <1>0, <1>1 DEF Loop, ServerEnds, LateIsLast
  <1>2. CASE Accept
    <2>1. Clients # {}
      BY <1>2 DEF Accept, Queued, WebInv, WebTypeOK
    <2>2. Cardinality(Clients) >= 1
      BY <1>0, <2>1, ServerAssumption, FS_EmptySet
    <2>3. late = 0
      BY <1>0, <1>2 DEF Accept, LateIsLast
    <2>4. /\ server' = "read"
          /\ UNCHANGED server_running
          /\ late' = IF server_running THEN 0 ELSE 1
      BY <1>2, <2>3 DEF Accept
    <2>5. CASE server_running
      BY <1>0, <2>4, <2>5 DEF LateIsLast
    <2>6. CASE ~ server_running
      BY <1>0, <2>2, <2>4, <2>6 DEF LateIsLast
    <2> QED
      BY <2>5, <2>6
  <1>3. CASE Signal
    BY <1>0, <1>3 DEF Signal, LateIsLast
  <1>4. CASE \/ Read \/ ReadFails \/ ReadPart \/ Reply \/ BrokenPipe \/ HandleStatus
             \/ HandleFile \/ HandleError \/ HandleAddTask \/ HandleCancelTask
             \/ HandleSimulation \/ ComesToLock
    <2>1. server' # "accept" /\ UNCHANGED <<server_running, late>>
      BY <1>4 DEF Read, ReadFails, ReadPart, Reply, BrokenPipe, HandleStatus, HandleFile,
         HandleError, HandleAddTask, HandleCancelTask, HandleSimulation, ComesToLock,
         ServerEnds, Answers
    <2> QED
      BY <1>0, <2>1 DEF LateIsLast
  <1>5. CASE \/ Work \/ WorkerDies
             \/ \E c \in Clients :
                   Connect(c) \/ SendRequest(c) \/ Leave(c) \/ SimulationStep(c)
             \/ UNCHANGED webVars
    <2>1. UNCHANGED <<server, server_running, late>>
      BY <1>5 DEF Work, WorkerDies, Connect, SendRequest, Leave, SimulationStep, serverVars, webVars
    <2> QED
      BY <1>0, <2>1 DEF LateIsLast
  <1> QED
    BY <1>1, <1>2, <1>3, <1>4, <1>5 DEF WebNext, ServerStep

-----------------------------------------------------------------------------
LEMMA WebNextInv == WebInv /\ [WebNext]_webVars => WebInv'
  <1> SUFFICES ASSUME WebInv, [WebNext]_webVars PROVE WebInv'
    OBVIOUS
  <1>1. [Next]_vars
    BY QueueStep DEF WebInv
  <1>2. IInv' /\ StatisticsBalance'
    BY <1>1, NextInv, BalanceInductive DEF WebInv
  <1>3. answer' \in [Clients -> Answer] /\ StatusAddsUp' /\ ConfirmedIsSettled'
    BY AnswerPart
  <1>4. ConnectionInv'
    BY ConnectionPart DEF WebInv, WebTypeOK, ConnectionInv, ConnectionTypes
  <1>5. sim' \in [Clients -> 0..SimCount]
    BY SimulationPart DEF WebInv, WebTypeOK
  <1>6. LateIsLast' /\ late' \in 0..Cardinality(Clients)
    BY LatePart
  <1>7. TypeOK'
    BY <1>2 DEF IInv
  <1>8. WebTypeOK'
    BY <1>3, <1>4, <1>5, <1>6, <1>7 DEF WebTypeOK, ConnectionInv, ConnectionTypes
  <1> QED
    BY <1>2, <1>3, <1>4, <1>6, <1>8 DEF WebInv, ConnectionInv

LEMMA AlwaysWebInv == WebSpec => []WebInv
  BY WebInitInv, WebNextInv, PTL DEF WebSpec

\* Types: the queue stays within its capacity also with the server and its
\* simulation threads as submitters, and the clients that sent, left or were
\* answered had connected.
THEOREM WebTypeCorrect == WebSpec => []WebTypeOK
  BY AlwaysWebInv, PTL DEF WebInv

\* Every answer to /api/status adds up: it is taken in one critical section, from
\* counters that balance.
THEOREM StatusIsConsistent == WebSpec => []StatusAddsUp
  BY AlwaysWebInv, PTL DEF WebInv

\* A confirmed cancellation is final, whatever the workers were about to do and
\* however long the client keeps the answer.
THEOREM CancelledIsNeverRun == WebSpec => []CancelledNeverRuns
  <1>1. ConfirmedIsSettled => CancelledNeverRuns
    BY DEF ConfirmedIsSettled, Settled, CancelledNeverRuns, TasksOf
  <1>2. WebInv => CancelledNeverRuns
    BY <1>1 DEF WebInv
  <1> QED
    BY <1>2, AlwaysWebInv, PTL

\* A signalled server accepts at most the connection it was waiting for.
THEOREM OneMoreConnection == WebSpec => []AtMostOneMore
  <1>1. WebInv => AtMostOneMore
    BY DEF WebInv, LateIsLast, AtMostOneMore
  <1> QED
    BY <1>1, AlwaysWebInv, PTL

\* The server with its clients, its simulation threads and the workers implements the
\* queue: their operations start from an empty array and are those of TaskQueue, so
\* that the theorems about TaskQueue hold of what the server reads and writes.
THEOREM ServerImplementsQueue == WebSpec => Spec
  <1>1. WebInit => Init
    BY DEF WebInit
  <1>2. WebInv /\ [WebNext]_webVars => [Next]_vars
    BY QueueStep DEF WebInv
  <1> QED
    BY <1>1, <1>2, AlwaysWebInv, PTL DEF WebSpec, Spec

\* And so do they implement the abstract schedule: whatever clients and simulations
\* submit and cancel through the server is numbered in order, started at most once and
\* by urgency, and counted once.
THEOREM ServerImplementsSchedule == WebSpec => ImplementsSchedule
  BY ServerImplementsQueue, QueueImplementsSchedule, PTL
=============================================================================
