----------------------------- MODULE WorkerPool ----------------------------
(***************************************************************************)
(* The worker processes (worker.c) around the shared queue: the main loop  *)
(* with its mutex and condition variable, the detached executor threads,   *)
(* the signal handler, and the processes that submit and cancel tasks.     *)
(* One step is the code between two points at which another thread can     *)
(* interfere.  Which of the waiting tasks is the first one in the array is *)
(* TaskQueue's subject; here a worker takes any of them.                   *)
(***************************************************************************)
EXTENDS Integers, FiniteSets

CONSTANTS
    Workers,        \* the worker processes
    Tasks,          \* the ids of the tasks that may be submitted
    NoThread,       \* the holder of a free mutex
    MaxKills,       \* bound: how many workers are killed
    MaxSpurious     \* bound: how many spurious wakeups happen

ASSUME PoolAssumption ==
    /\ IsFiniteSet(Workers) /\ Workers # {}
    /\ Workers \cap Tasks = {}
    /\ NoThread \notin Workers \cup Tasks
    /\ MaxKills \in Nat
    /\ MaxSpurious \in Nat

VARIABLES
    \* in shared memory
    status,               \* of every task, "NONE" before its submission
    worker_id,            \* the worker that took the task
    mutex,                \* the thread that holds queue_mutex: a worker's main
                          \* thread, or the executor thread of a task
    waiters,              \* the workers registered on queue_cond
    shutdown_flag,
    num_active_workers,
    \* in the worker processes
    pc,                   \* where the main thread is
    task,                 \* the main thread's private copy of a task
    shutdown_requested,
    executor,             \* the executor thread of every task
    \* history of the environment
    killed, spurious

shared == <<status, worker_id, mutex, waiters, shutdown_flag, num_active_workers>>
local == <<pc, task, shutdown_requested, executor>>
vars == <<shared, local, killed, spurious>>

Location == {"unborn", "attach", "register", "top", "lock", "test", "wait", "blocked",
             "check", "take", "launch", "unregister", "exit", "gone"}

TypeOK ==
    /\ status \in [Tasks -> {"NONE", "PENDING", "RUNNING", "COMPLETED", "FAILED"}]
    /\ worker_id \in [Tasks -> Workers \cup {NoThread}]
    /\ mutex \in Workers \cup Tasks \cup {NoThread}
    /\ waiters \subseteq Workers
    /\ shutdown_flag \in BOOLEAN
    /\ num_active_workers \in Nat
    /\ pc \in [Workers -> Location]
    /\ task \in [Workers -> Tasks \cup {NoThread}]
    /\ shutdown_requested \in [Workers -> BOOLEAN]
    /\ executor \in [Tasks -> {"none", "sleeping", "updating", "done", "dead"}]
    /\ killed \subseteq Workers
    /\ spurious \in 0..MaxSpurious

Init ==
    /\ status = [t \in Tasks |-> "NONE"]
    /\ worker_id = [t \in Tasks |-> NoThread]
    /\ mutex = NoThread
    /\ waiters = {}
    /\ shutdown_flag = FALSE
    /\ num_active_workers = 0
    /\ pc = [w \in Workers |-> "attach"]
    /\ task = [w \in Workers |-> NoThread]
    /\ shutdown_requested = [w \in Workers |-> FALSE]
    /\ executor = [t \in Tasks |-> "none"]
    /\ killed = {}
    /\ spurious = 0
-----------------------------------------------------------------------------
Pending == {t \in Tasks : status[t] = "PENDING"}

ShuttingDown(w) == shutdown_requested[w] \/ shutdown_flag

Goes(w, from, to) ==
    /\ pc[w] = from
    /\ pc' = [pc EXCEPT ![w] = to]

Free == mutex = NoThread

Attach(w) ==
    /\ Goes(w, "attach", "register")
    /\ UNCHANGED <<shared, task, shutdown_requested, executor, killed, spurious>>

\* Wrong: counts down.
Register_Down(w) ==
    /\ Free
    /\ Goes(w, "register", "top")
    /\ num_active_workers' = num_active_workers - 1
    /\ UNCHANGED <<status, worker_id, mutex, waiters, shutdown_flag, task,
                   shutdown_requested, executor, killed, spurious>>

Register(w) ==
    /\ Free
    /\ Goes(w, "register", "top")
    /\ num_active_workers' = num_active_workers + 1
    /\ UNCHANGED <<status, worker_id, mutex, waiters, shutdown_flag, task,
                   shutdown_requested, executor, killed, spurious>>

\* The condition of the outer loop, read without the mutex.
EnterLoop(w) ==
    /\ Goes(w, "top", IF ShuttingDown(w) THEN "unregister" ELSE "lock")
    /\ UNCHANGED <<shared, task, shutdown_requested, executor, killed, spurious>>

\* Wrong: looks at the queue without the mutex.
Lock_Without(w) ==
    /\ Goes(w, "lock", "test")
    /\ UNCHANGED <<shared, task, shutdown_requested, executor, killed, spurious>>

Lock(w) ==
    /\ Free
    /\ Goes(w, "lock", "test")
    /\ mutex' = w
    /\ UNCHANGED <<status, worker_id, waiters, shutdown_flag, num_active_workers,
                   task, shutdown_requested, executor, killed, spurious>>

\* The condition of the inner loop.  Between it and pthread_cond_wait the worker
\* holds the mutex, which keeps out the submitters but no signal handler.
Test(w) ==
    /\ Goes(w, "test", IF Pending = {} /\ ~ ShuttingDown(w) THEN "wait" ELSE "check")
    /\ UNCHANGED <<shared, task, shutdown_requested, executor, killed, spurious>>

\* pthread_cond_wait registers the worker and releases the mutex in one step.
CondWait(w) ==
    /\ Goes(w, "wait", "blocked")
    /\ waiters' = waiters \cup {w}
    /\ mutex' = NoThread
    /\ UNCHANGED <<status, worker_id, shutdown_flag, num_active_workers, task,
                   shutdown_requested, executor, killed, spurious>>

\* A woken worker returns from pthread_cond_wait with the mutex.
Relock(w) ==
    /\ Free
    /\ w \notin waiters
    /\ Goes(w, "blocked", "test")
    /\ mutex' = w
    /\ UNCHANGED <<status, worker_id, waiters, shutdown_flag, num_active_workers,
                   task, shutdown_requested, executor, killed, spurious>>

Check(w) ==
    /\ Goes(w, "check", IF ShuttingDown(w) THEN "unregister" ELSE "take")
    /\ mutex' = IF ShuttingDown(w) THEN NoThread ELSE mutex
    /\ UNCHANGED <<status, worker_id, waiters, shutdown_flag, num_active_workers,
                   task, shutdown_requested, executor, killed, spurious>>

\* Wrong: marks its private copy as RUNNING, but not the task in the array.
Take_Unmarked(w) ==
    /\ pc[w] = "take"
    /\ mutex' = NoThread
    /\ IF Pending = {}
         THEN /\ pc' = [pc EXCEPT ![w] = "top"]
              /\ UNCHANGED <<worker_id, task>>
         ELSE /\ pc' = [pc EXCEPT ![w] = "launch"]
              /\ \E t \in Pending :
                    /\ worker_id' = [worker_id EXCEPT ![t] = w]
                    /\ task' = [task EXCEPT ![w] = t]
    /\ UNCHANGED <<status, waiters, shutdown_flag, num_active_workers,
                   shutdown_requested, executor, killed, spurious>>

\* Take a waiting task, or go round again when there is none after all.
Take(w) ==
    /\ pc[w] = "take"
    /\ mutex' = NoThread
    /\ IF Pending = {}
         THEN /\ pc' = [pc EXCEPT ![w] = "top"]
              /\ UNCHANGED <<status, worker_id, task>>
         ELSE /\ pc' = [pc EXCEPT ![w] = "launch"]
              /\ \E t \in Pending :
                    /\ status' = [status EXCEPT ![t] = "RUNNING"]
                    /\ worker_id' = [worker_id EXCEPT ![t] = w]
                    /\ task' = [task EXCEPT ![w] = t]
    /\ UNCHANGED <<waiters, shutdown_flag, num_active_workers, shutdown_requested,
                   executor, killed, spurious>>

\* execute_task: start a detached thread for the task.
Launch(w) ==
    /\ Goes(w, "launch", "top")
    /\ executor' = [executor EXCEPT ![task[w]] = "sleeping"]
    /\ task' = [task EXCEPT ![w] = NoThread]
    /\ UNCHANGED <<shared, shutdown_requested, killed, spurious>>

\* Wrong: tells nobody.
LaunchFails_Silently(w) ==
    /\ Goes(w, "launch", "top")
    /\ task' = [task EXCEPT ![w] = NoThread]
    /\ UNCHANGED <<shared, shutdown_requested, executor, killed, spurious>>

\* malloc or pthread_create fails: the worker itself reports the task as failed.
LaunchFails(w) ==
    /\ Free
    /\ Goes(w, "launch", "top")
    /\ status' = [status EXCEPT ![task[w]] = "FAILED"]
    /\ task' = [task EXCEPT ![w] = NoThread]
    /\ UNCHANGED <<worker_id, mutex, waiters, shutdown_flag, num_active_workers,
                   shutdown_requested, executor, killed, spurious>>

\* Wrong: does not look whether the scheduler has already taken it off the count.
Unregister_Unguarded(w) ==
    /\ Free
    /\ Goes(w, "unregister", "exit")
    /\ num_active_workers' = num_active_workers - 1
    /\ UNCHANGED <<status, worker_id, mutex, waiters, shutdown_flag, task,
                   shutdown_requested, executor, killed, spurious>>

Unregister(w) ==
    /\ Free
    /\ Goes(w, "unregister", "exit")
    /\ num_active_workers' = IF num_active_workers > 0 THEN num_active_workers - 1
                                                       ELSE num_active_workers
    /\ UNCHANGED <<status, worker_id, mutex, waiters, shutdown_flag, task,
                   shutdown_requested, executor, killed, spurious>>

\* The end of a process ends its threads, wherever they are.
EndThreadsOf(w) ==
    executor' = [t \in Tasks |->
        IF worker_id[t] = w /\ executor[t] \in {"sleeping", "updating"} THEN "dead"
                                                                        ELSE executor[t]]

Exit(w) ==
    /\ Goes(w, "exit", "gone")
    /\ EndThreadsOf(w)
    /\ UNCHANGED <<shared, task, shutdown_requested, killed, spurious>>

WorkerStep(w) ==
    \/ Attach(w) \/ Register(w) \/ EnterLoop(w) \/ Lock(w) \/ Test(w) \/ CondWait(w)
    \/ Relock(w) \/ Check(w) \/ Take(w) \/ Launch(w) \/ LaunchFails(w)
    \/ Unregister(w) \/ Exit(w)
-----------------------------------------------------------------------------
\* task_executor_thread: the sleep is over and update_task_status locks.
BeginUpdate(t) ==
    /\ Free
    /\ executor[t] = "sleeping"
    /\ executor' = [executor EXCEPT ![t] = "updating"]
    /\ mutex' = t
    /\ UNCHANGED <<status, worker_id, waiters, shutdown_flag, num_active_workers, pc,
                   task, shutdown_requested, killed, spurious>>

\* Wrong: returns without unlocking.
FinishUpdate_Locked(t) ==
    /\ executor[t] = "updating"
    /\ executor' = [executor EXCEPT ![t] = "done"]
    /\ status' = [status EXCEPT ![t] = "COMPLETED"]
    /\ UNCHANGED <<mutex, worker_id, waiters, shutdown_flag, num_active_workers, pc, task,
                   shutdown_requested, killed, spurious>>

FinishUpdate(t) ==
    /\ executor[t] = "updating"
    /\ executor' = [executor EXCEPT ![t] = "done"]
    /\ status' = [status EXCEPT ![t] = "COMPLETED"]
    /\ mutex' = NoThread
    /\ UNCHANGED <<worker_id, waiters, shutdown_flag, num_active_workers, pc, task,
                   shutdown_requested, killed, spurious>>

ExecutorStep(t) == BeginUpdate(t) \/ FinishUpdate(t)
-----------------------------------------------------------------------------
\* pthread_cond_signal
SignalOne ==
    IF waiters = {} THEN UNCHANGED waiters
                    ELSE \E w \in waiters : waiters' = waiters \ {w}

\* Wrong: wakes nobody.
Submit_Silently(t) ==
    /\ Free
    /\ status[t] = "NONE"
    /\ status' = [status EXCEPT ![t] = "PENDING"]
    /\ UNCHANGED <<worker_id, mutex, waiters, shutdown_flag, num_active_workers, local,
                   killed, spurious>>

\* enqueue_task, from the command line, the web server or a simulation
Submit(t) ==
    /\ Free
    /\ status[t] = "NONE"
    /\ status' = [status EXCEPT ![t] = "PENDING"]
    /\ SignalOne
    /\ UNCHANGED <<worker_id, mutex, shutdown_flag, num_active_workers, local, killed,
                   spurious>>

\* cancel_task, from the web server
Cancel(t) ==
    /\ Free
    /\ t \in Pending
    /\ status' = [status EXCEPT ![t] = "FAILED"]
    /\ UNCHANGED <<worker_id, mutex, waiters, shutdown_flag, num_active_workers, local,
                   killed, spurious>>

Alive(w) == pc[w] \notin {"unborn", "gone"}

\* signal_handler, on SIGINT or SIGTERM, in the middle of anything: the flag is
\* set and the waiters are woken without the mutex.
HandleSignal(w) ==
    /\ Alive(w)
    /\ shutdown_requested' = [shutdown_requested EXCEPT ![w] = TRUE]
    /\ IF pc[w] = "attach"
         THEN UNCHANGED <<shutdown_flag, waiters>>
         ELSE shutdown_flag' = TRUE /\ waiters' = {}
    /\ UNCHANGED <<status, worker_id, mutex, num_active_workers, pc, task, executor,
                   killed, spurious>>

SpuriousWakeup(w) ==
    /\ spurious < MaxSpurious
    /\ spurious' = spurious + 1
    /\ Alive(w)
    /\ w \in waiters
    /\ waiters' = waiters \ {w}
    /\ UNCHANGED <<status, worker_id, mutex, shutdown_flag, num_active_workers, local,
                   killed>>

\* SIGKILL: the mutex stays held by whoever held it, and a place among the waiters
\* stays taken, so that a later pthread_cond_signal may be spent on it.
Kill(w) ==
    /\ Cardinality(killed) < MaxKills
    /\ Alive(w)
    /\ pc' = [pc EXCEPT ![w] = "gone"]
    /\ killed' = killed \cup {w}
    /\ EndThreadsOf(w)
    /\ UNCHANGED <<shared, task, shutdown_requested, spurious>>

Next ==
    \/ \E w \in Workers : WorkerStep(w) \/ SpuriousWakeup(w) \/ Kill(w)
                            \/ (~ shutdown_requested[w] /\ HandleSignal(w))
    \/ \E t \in Tasks : ExecutorStep(t) \/ Submit(t) \/ Cancel(t)

\* Every thread that can take a step takes one: the operating system schedules
\* processes and threads fairly.  Nothing obliges anybody to submit, cancel,
\* signal or kill, nor the system to wake a worker for no reason.
Fairness ==
    /\ \A w \in Workers : WF_vars(WorkerStep(w))
    /\ \A t \in Tasks : WF_vars(ExecutorStep(t))

Spec == Init /\ [][Next]_vars /\ Fairness
-----------------------------------------------------------------------------
Undisturbed == killed = {} /\ \A w \in Workers : ~ ShuttingDown(w)

\* No wakeup is missed: while a task is waiting, and nobody shuts down or was
\* killed, some worker is on its way to test the queue, although enqueue_task
\* signals only one of them and another may get the task first.
NoMissedWakeup ==
    Pending # {} /\ Undisturbed =>
        \E w \in Workers : w \notin waiters /\ pc[w] # "gone"

\* Who holds a private copy of t: main threads about to launch it, and its executor.
Holders(t) == {w \in Workers : pc[w] = "launch" /\ task[w] = t}

\* A task has one holder at most, and while it has one it is RUNNING in the array:
\* it is neither taken by a second worker nor cancelled nor finished twice.
HeldOnce ==
    \A t \in Tasks :
        /\ \A v, w \in Holders(t) : v = w
        /\ executor[t] # "none" => Holders(t) = {}
        /\ Holders(t) # {} \/ executor[t] \in {"sleeping", "updating"} =>
               status[t] = "RUNNING"

\* A RUNNING task is in somebody's hands, unless the process that took it has ended:
\* the end of a worker is the only way to strand a task in RUNNING, and a worker that
\* leaves its loop in good order strands the tasks of its threads like a killed one.
RunningIsInHand ==
    \A t \in Tasks : status[t] = "RUNNING" =>
        \/ Holders(t) # {}
        \/ executor[t] \in {"sleeping", "updating"}
        \/ pc[worker_id[t]] = "gone"

\* A waiting task is started or cancelled unless somebody shuts down or is killed.
WaitingIsServed ==
    \A t \in Tasks : status[t] = "PENDING" ~> (status[t] # "PENDING" \/ ~ Undisturbed)

\* A started task gets its outcome unless somebody shuts down or is killed.
StartedIsFinished ==
    \A t \in Tasks :
        status[t] = "RUNNING" ~> (status[t] \in {"COMPLETED", "FAILED"} \/ ~ Undisturbed)
=============================================================================
