----------------------------- MODULE WebServer -----------------------------
(***************************************************************************)
(* The web server (web_server.c) as a client of the queue: it handles one  *)
(* connection at a time, blocks in accept and in recv without a limit, and *)
(* starts a detached thread for every simulation.  Each of its accesses to *)
(* the queue is one critical section, that is one action of TaskQueue.     *)
(* signal() restarts accept and recv (the build defines _GNU_SOURCE), so a *)
(* SIGTERM is noticed only when the loop comes round.  The mutex is not    *)
(* robust: who dies with it in hand leaves it locked for good.             *)
(***************************************************************************)
EXTENDS TaskQueue

CONSTANTS
    Clients,       \* browsers; each makes one request
    NoClient,
    SimCount       \* bound: the number of tasks of a simulation

ASSUME ServerAssumption ==
    /\ IsFiniteSet(Clients)
    /\ NoClient \notin Clients
    /\ SimCount \in Nat

VARIABLES
    server,           \* where the main thread of the server is
    server_running,
    conn,             \* the client being served
    kind,             \* what each client asks for
    connected, sent, left,   \* the clients that have done so
    done,             \* the clients whose connection was closed by the server
    answer,           \* what the server found for each client
    sim,              \* the tasks the thread started for a client has yet to add
    mutex_lost,       \* queue_mutex is held by a process or thread that has ended
    late              \* history: connections accepted after the signal

webVars == <<vars, server, server_running, conn, kind, connected, sent, left, done,
             answer, sim, mutex_lost, late>>
queueVars == vars
clientVars == <<kind, connected, sent, left>>
serverVars == <<server, server_running, conn, done, answer, sim, late>>

Post == {"add", "cancel", "simulate"}
Kind == Post \cup {"status", "file"}
Locking == {"status", "add", "cancel"}   \* their handlers lock the mutex

NoAnswer == [kind |-> "none"]
Answer ==
    [kind : {"none", "file", "error"}]
    \cup [kind : {"status"}, pending : Nat, running : Nat, completed : Nat,
          failed : Nat, total : Nat]
    \cup [kind : {"add"}, task_id : Nat]
    \cup [kind : {"cancel"}, task_id : Nat, success : BOOLEAN]
    \cup [kind : {"simulate"}, total : Nat]

WebTypeOK ==
    /\ TypeOK
    /\ server \in {"loop", "accept", "read", "handle", "lock", "send", "gone"}
    /\ server_running \in BOOLEAN
    /\ conn \in Clients \cup {NoClient}
    /\ kind \in [Clients -> Kind]
    /\ connected \subseteq Clients
    /\ sent \subseteq connected
    /\ left \subseteq connected
    /\ done \subseteq connected
    /\ answer \in [Clients -> Answer]
    /\ sim \in [Clients -> 0..SimCount]
    /\ mutex_lost \in BOOLEAN
    /\ late \in 0..Cardinality(Clients)

WebInit ==
    /\ Init
    /\ server = "loop"
    /\ server_running = TRUE
    /\ conn = NoClient
    /\ kind \in [Clients -> Kind]
    /\ connected = {}
    /\ sent = {}
    /\ left = {}
    /\ done = {}
    /\ answer = [c \in Clients |-> NoAnswer]
    /\ sim = [c \in Clients |-> 0]
    /\ mutex_lost = FALSE
    /\ late = 0
-----------------------------------------------------------------------------
\* Clients connect, send their request some time later or never, and may leave.
Connect(c) ==
    /\ c \notin connected
    /\ connected' = connected \cup {c}
    /\ UNCHANGED <<queueVars, serverVars, mutex_lost, kind, sent, left>>

SendRequest(c) ==
    /\ c \in connected \ (sent \cup left \cup done)
    /\ sent' = sent \cup {c}
    /\ UNCHANGED <<queueVars, serverVars, mutex_lost, kind, connected, left>>

Leave(c) ==
    /\ c \in connected \ (left \cup done)
    /\ left' = left \cup {c}
    /\ UNCHANGED <<queueVars, serverVars, mutex_lost, kind, connected, sent>>
-----------------------------------------------------------------------------
\* The end of the process ends the simulation threads, one of them perhaps in enqueue_task.
ServerEnds ==
    /\ server' = "gone"
    /\ sim' = [c \in Clients |-> 0]
    /\ mutex_lost' \in {mutex_lost, mutex_lost \/ \E c \in Clients : sim[c] > 0}

\* Wrong: the loop does not look at the flag.
Loop_Unconditional ==
    /\ server = "loop"
    /\ server' = "accept"
    /\ UNCHANGED <<queueVars, clientVars, server_running, conn, done, answer, sim, mutex_lost,
                   late>>

Loop ==
    /\ server = "loop"
    /\ IF server_running
         THEN server' = "accept" /\ UNCHANGED <<sim, mutex_lost>>
         ELSE ServerEnds
    /\ UNCHANGED <<queueVars, clientVars, server_running, conn, done, answer, late>>

Queued == connected \ (done \cup {conn})

Accept ==
    /\ server = "accept"
    /\ server' = "read"
    /\ conn' \in Queued
    /\ late' = IF server_running THEN late ELSE late + 1
    /\ UNCHANGED <<queueVars, clientVars, server_running, done, answer, sim, mutex_lost>>

\* recv returns what the client sent, also when it has left since.
Read ==
    /\ server = "read"
    /\ conn \in sent
    /\ server' = "handle"
    /\ UNCHANGED <<queueVars, clientVars, server_running, conn, done, answer, sim, mutex_lost,
                   late>>

\* Wrong: asks recv again.
ReadFails_Retry ==
    /\ server = "read"
    /\ conn \in left \ sent
    /\ UNCHANGED webVars

\* recv gives 0 or less: the client left before the end of its headers.
ReadFails ==
    /\ server = "read"
    /\ conn \in left \ sent
    /\ server' = "loop"
    /\ done' = done \cup {conn}
    /\ conn' = NoClient
    /\ UNCHANGED <<queueVars, clientVars, server_running, answer, sim, mutex_lost, late>>

\* The client left in the middle of the body: the result of read_http_body is not
\* looked at, and what came of the body is handled as if it were all of it.
ReadPart ==
    /\ server = "read"
    /\ conn \in left \ sent
    /\ kind[conn] \in Post
    /\ server' = "handle"
    /\ UNCHANGED <<queueVars, clientVars, server_running, conn, done, answer, sim, mutex_lost,
                   late>>

Answers(a) ==
    /\ server' = "send"
    /\ answer' = [answer EXCEPT ![conn] = a]
    /\ UNCHANGED <<clientVars, server_running, conn, done, mutex_lost, late>>

Asked(k) == server = "handle" /\ kind[conn] = k

\* What the request asks for is known, and its handler comes to pthread_mutex_lock ...
ComesToLock ==
    /\ server = "handle"
    /\ kind[conn] \in Locking
    /\ server' = "lock"
    /\ UNCHANGED <<queueVars, clientVars, server_running, conn, done, answer, sim, mutex_lost,
                   late>>

\* ... which returns unless the mutex is lost.
Locked(k) == server = "lock" /\ kind[conn] = k /\ ~ mutex_lost

\* Wrong: takes whatever is not running for waiting.
Snapshot_BySize ==
    [kind |-> "status",
     pending |-> size - Cardinality(TasksOf("RUNNING")),
     running |-> Cardinality(TasksOf("RUNNING")),
     completed |-> completed_tasks,
     failed |-> failed_tasks,
     total |-> total_tasks]

\* /api/status: everything is read in one critical section.
Snapshot ==
    [kind |-> "status",
     pending |-> Cardinality(TasksOf("PENDING")),
     running |-> Cardinality(TasksOf("RUNNING")),
     completed |-> completed_tasks,
     failed |-> failed_tasks,
     total |-> total_tasks]

HandleStatus ==
    /\ Locked("status")
    /\ Answers(Snapshot)
    /\ UNCHANGED <<queueVars, sim>>

HandleFile ==
    /\ Asked("file")
    /\ Answers([kind |-> "file"])
    /\ UNCHANGED <<queueVars, sim>>

\* A body without the fields it needs, or with values that are none; for a simulation,
\* malloc or pthread_create failed.
HandleError ==
    /\ server = "handle"
    /\ kind[conn] \in Post
    /\ Answers([kind |-> "error"])
    /\ UNCHANGED <<queueVars, sim>>

\* The id is the one enqueue_task assigned (EnqueueReply has the one it returns).
HandleAddTask ==
    /\ Locked("add")
    /\ IF is_queue_full
         THEN UNCHANGED queueVars /\ Answers([kind |-> "add", task_id |-> 0])
         ELSE /\ \E p \in Priority : EnqueueTask(p)
              /\ Answers([kind |-> "add", task_id |-> next_task_id])
    /\ UNCHANGED sim

Cancellable(id) == \E i \in InUse : Finds(id, i) /\ Pending(i)

\* Wrong: takes the task's presence for the success of cancel_task.
HandleCancelTask_IfKnown ==
    /\ Locked("cancel")
    /\ \E id \in 1..LastId :
          /\ IF Cancellable(id) THEN CancelTask(id) ELSE UNCHANGED queueVars
          /\ Answers([kind |-> "cancel", task_id |-> id, success |-> Known(id)])
    /\ UNCHANGED sim

HandleCancelTask ==
    /\ Locked("cancel")
    /\ \E id \in 1..LastId :
          /\ IF Cancellable(id) THEN CancelTask(id) ELSE UNCHANGED queueVars
          /\ Answers([kind |-> "cancel", task_id |-> id, success |-> Cancellable(id)])
    /\ UNCHANGED sim

HandleSimulation ==
    /\ Asked("simulate")
    /\ Answers([kind |-> "simulate", total |-> SimCount])
    /\ sim' = [sim EXCEPT ![conn] = SimCount]
    /\ UNCHANGED queueVars

\* run_simulation_thread: one task, or none when the queue is full.
SimulationStep(c) ==
    /\ sim[c] > 0
    /\ ~ mutex_lost
    /\ sim' = [sim EXCEPT ![c] = @ - 1]
    /\ IF is_queue_full THEN UNCHANGED queueVars ELSE \E p \in Priority : EnqueueTask(p)
    /\ UNCHANGED <<clientVars, server, server_running, conn, done, answer, mutex_lost, late>>

\* send, then close.
Reply ==
    /\ server = "send"
    /\ server' = "loop"
    /\ done' = done \cup {conn}
    /\ conn' = NoClient
    /\ UNCHANGED <<queueVars, clientVars, server_running, answer, sim, mutex_lost, late>>

\* Nobody handles SIGPIPE: sending to a client that has left may end the process.
BrokenPipe ==
    /\ server = "send"
    /\ conn \in left
    /\ ServerEnds
    /\ UNCHANGED <<queueVars, clientVars, server_running, conn, done, answer, late>>

\* SIGINT or SIGTERM
Signal ==
    /\ server # "gone"
    /\ server_running
    /\ server_running' = FALSE
    /\ UNCHANGED <<queueVars, clientVars, server, conn, done, answer, sim, mutex_lost, late>>

ServerStep ==
    \/ Loop \/ Accept \/ Read \/ ReadFails \/ ReadPart \/ Reply \/ BrokenPipe
    \/ ComesToLock \/ HandleStatus \/ HandleFile \/ HandleAddTask \/ HandleCancelTask
    \/ HandleSimulation \/ HandleError

\* What the workers and the scheduler do to the queue meanwhile ...
Work ==
    /\ \/ /\ ~ mutex_lost
          /\ \/ DequeueTask
             \/ \E id \in executing : Complete(id) \/ LaunchFails(id)
             \/ RemoveCompletedTasks
       \/ Tick
    /\ UNCHANGED <<clientVars, serverVars, mutex_lost>>

\* ... until one of them dies, with the tasks it holds, and perhaps with the mutex.
WorkerDies ==
    /\ \E ids \in SUBSET executing : WorkerLost(ids)
    /\ mutex_lost' \in {mutex_lost, TRUE}
    /\ UNCHANGED <<clientVars, serverVars>>

WebNext ==
    \/ ServerStep
    \/ Signal
    \/ Work
    \/ WorkerDies
    \/ \E c \in Clients : Connect(c) \/ SendRequest(c) \/ Leave(c) \/ SimulationStep(c)

\* The server's thread keeps running; clients, workers and signals owe nothing.
WebSpec == WebInit /\ [][WebNext]_webVars /\ WF_webVars(ServerStep)
-----------------------------------------------------------------------------
\* A status answer is one consistent picture: the tasks ever submitted are those it
\* says are waiting, running, completed or failed.
StatusAddsUp ==
    \A c \in Clients : answer[c].kind = "status" =>
        answer[c].total = answer[c].pending + answer[c].running
                          + answer[c].completed + answer[c].failed

\* A task whose cancellation was confirmed is never executed, although a worker may
\* have been about to take it.
CancelledNeverRuns ==
    \A c \in Clients : answer[c].kind = "cancel" /\ answer[c].success =>
        answer[c].task_id \notin executing \cup TasksOf("RUNNING") \cup TasksOf("COMPLETED")

\* After the signal at most one more connection is accepted: the flag is tested before
\* the accept that waits, not after it.
AtMostOneMore == late <= 1

\* The server sits in recv for a client that neither sends nor leaves, or in
\* pthread_mutex_lock for somebody who has died.
Stalled == server = "read" /\ conn \notin sent \cup left
Blocked == server = "lock" /\ mutex_lost

\* A request that was sent is answered and its connection closed, unless a client keeps
\* the server in recv for ever, or a dead worker in pthread_mutex_lock, or the server is
\* told to stop, or a client that left before its answer takes it along (SIGPIPE).
ServedOrStalled ==
    \A c \in Clients :
        \/ [] (c \notin sent)
        \/ <> (c \in done)
        \/ <> [] (Stalled \/ Blocked)
        \/ <> (server = "gone" /\ (~ server_running \/ conn \in left))

\* A signalled server ends, or waits for a connection that nobody makes any more, for a
\* silent client or for a lost mutex: these three are all that keeps it.
StopsUnlessItWaits ==
    \/ [] server_running
    \/ <> (server = "gone")
    \/ <> [] (server = "accept" /\ Queued = {})
    \/ <> [] (Stalled \/ Blocked)

\* What start_web_dashboard.sh promises: "Press Ctrl+C here to stop the web server".  With
\* no connection open, the server ends or somebody connects.
Idle == connected = done
CtrlCStops == ~ server_running /\ Idle ~> server = "gone" \/ ~ Idle
=============================================================================
