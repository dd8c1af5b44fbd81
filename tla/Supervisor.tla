----------------------------- MODULE Supervisor ----------------------------
(***************************************************************************)
(* The scheduler process (scheduler.c) over the worker processes: it       *)
(* starts them, looks after them every WORKER_CHECK_INTERVAL seconds, and  *)
(* on SIGINT or SIGTERM ends them one after the other in cleanup_resources.*)
(* SIGCHLD is ignored, so a worker that ends leaves no status behind.      *)
(***************************************************************************)
EXTENDS WorkerPool

CONSTANTS
    NUM_WORKERS,
    MaxFaults       \* bound: how many times fork or execl fails

ASSUME SupervisorAssumption ==
    /\ NUM_WORKERS \in Nat \ {0}
    /\ Workers = 0..(NUM_WORKERS - 1)
    /\ MaxFaults \in Nat

VARIABLES
    sched_pc,              \* where the scheduler is
    i,                     \* the loop variable of spawning and of the cleanup
    worker_pids,           \* whether the slot holds the pid of a child
    num_workers_running,
    sched_shutdown,        \* the scheduler's own shutdown_requested
    sigterm,               \* the workers with a SIGTERM to be delivered
    stray,                 \* the children whose execl failed
    faults

scheduler == <<sched_pc, i, worker_pids, num_workers_running, sched_shutdown>>
signals == <<sigterm, stray, faults>>
allVars == <<vars, scheduler, signals>>

SupervisorTypeOK ==
    /\ TypeOK
    /\ sched_pc \in {"spawn", "test", "sleep", "count", "clean", "terminate", "reap",
                     "gone"}
    /\ i \in 0..NUM_WORKERS
    /\ worker_pids \in [Workers -> BOOLEAN]
    /\ num_workers_running \in 0..NUM_WORKERS
    /\ sched_shutdown \in BOOLEAN
    /\ sigterm \subseteq Workers
    /\ stray \subseteq Workers
    /\ faults \in 0..MaxFaults

SupervisorInit ==
    /\ status = [t \in Tasks |-> "NONE"]
    /\ worker_id = [t \in Tasks |-> NoThread]
    /\ mutex = NoThread
    /\ waiters = {}
    /\ shutdown_flag = FALSE
    /\ num_active_workers = 0
    /\ pc = [w \in Workers |-> "unborn"]
    /\ task = [w \in Workers |-> NoThread]
    /\ shutdown_requested = [w \in Workers |-> FALSE]
    /\ executor = [t \in Tasks |-> "none"]
    /\ killed = {}
    /\ spurious = 0
    /\ sched_pc = "spawn"
    /\ i = 0
    /\ worker_pids = [w \in Workers |-> FALSE]
    /\ num_workers_running = NUM_WORKERS
    /\ sched_shutdown = FALSE
    /\ sigterm = {}
    /\ stray = {}
    /\ faults = 0
-----------------------------------------------------------------------------
\* kill(pid, 0) = 0: the child, or what is left of it after a failed execl, runs.
Running(w) == Alive(w) \/ w \in stray

\* waitpid(pid, &status, WNOHANG) for a child of a process that ignores SIGCHLD: 0
\* while the child runs and -1 (ECHILD) afterwards, never the pid.
WaitPidNoHang(w) == IF Running(w) THEN 0 ELSE -1

Watched == {w \in Workers : w < num_workers_running /\ worker_pids[w]}

SetFlagAndBroadcast == shutdown_flag' = TRUE /\ waiters' = {}

At(from, to) == sched_pc = from /\ sched_pc' = to

\* One round of the loop in main: fork succeeds, and so does execl in the child.
Spawn ==
    /\ sched_pc = "spawn" /\ i < NUM_WORKERS
    /\ i' = i + 1
    /\ worker_pids' = [worker_pids EXCEPT ![i] = TRUE]
    /\ pc' = [pc EXCEPT ![i] = "attach"]
    /\ UNCHANGED <<shared, task, shutdown_requested, executor, killed, spurious,
                   sched_pc, num_workers_running, sched_shutdown, signals>>

\* fork fails: one worker less is counted, but its slot is not closed up.
ForkFails ==
    /\ sched_pc = "spawn" /\ i < NUM_WORKERS
    /\ faults < MaxFaults
    /\ faults' = faults + 1
    /\ i' = i + 1
    /\ num_workers_running' = num_workers_running - 1
    /\ UNCHANGED <<vars, sched_pc, worker_pids, sched_shutdown, sigterm, stray>>

\* fork succeeds and execl fails: the child is still a copy of the scheduler.
ExecFails ==
    /\ sched_pc = "spawn" /\ i < NUM_WORKERS
    /\ faults < MaxFaults
    /\ faults' = faults + 1
    /\ i' = i + 1
    /\ worker_pids' = [worker_pids EXCEPT ![i] = TRUE]
    /\ stray' = stray \cup {i}
    /\ UNCHANGED <<vars, sched_pc, num_workers_running, sched_shutdown, sigterm>>

\* The copy calls exit(1), and with it the cleanup_resources it inherited: it ends the
\* workers it knows of, which are not its children (waitpid returns at once), and
\* sets the flag of everybody.
StrayExits(w) ==
    LET before == 0..(w - 1)
        counted == NUM_WORKERS - Cardinality({v \in before : ~ worker_pids[v]})
    IN  /\ w \in stray
        /\ stray' = stray \ {w}
        /\ sigterm' = (sigterm \ {w}) \cup
               {v \in before : v < counted /\ worker_pids[v] /\ Running(v)}
        /\ SetFlagAndBroadcast
        /\ UNCHANGED <<status, worker_id, mutex, num_active_workers, local, killed,
                       spurious, scheduler, faults>>

Spawned ==
    /\ i = NUM_WORKERS
    /\ At("spawn", "test")
    /\ UNCHANGED <<vars, i, worker_pids, num_workers_running, sched_shutdown, signals>>

\* The loop of monitor_workers looks at the scheduler's own flag only.
TestLoop ==
    /\ At("test", IF sched_shutdown THEN "terminate" ELSE "sleep")
    /\ i' = 0
    /\ UNCHANGED <<vars, worker_pids, num_workers_running, sched_shutdown, signals>>

\* The search for workers that have died, and their respawning.
CheckWorkers ==
    /\ At("sleep", "count")
    /\ LET reborn == {w \in Watched : WaitPidNoHang(w) > 0}
       IN  /\ pc' = [w \in Workers |-> IF w \in reborn THEN "attach" ELSE pc[w]]
           /\ shutdown_requested' =
                  [w \in Workers |-> shutdown_requested[w] /\ w \notin reborn]
    /\ UNCHANGED <<shared, task, executor, killed, spurious, i, worker_pids,
                   num_workers_running, sched_shutdown, signals>>

\* Wrong: counts the pids without asking whether the processes still run.
Count_Pids ==
    /\ Free
    /\ At("count", "clean")
    /\ num_active_workers' = Cardinality(Watched)
    /\ UNCHANGED <<status, worker_id, mutex, waiters, shutdown_flag, local, killed,
                   spurious, i, worker_pids, num_workers_running, sched_shutdown,
                   signals>>

Count ==
    /\ Free
    /\ At("count", "clean")
    /\ num_active_workers' = Cardinality({w \in Watched : Running(w)})
    /\ UNCHANGED <<status, worker_id, mutex, waiters, shutdown_flag, local, killed,
                   spurious, i, worker_pids, num_workers_running, sched_shutdown,
                   signals>>

\* Every CLEANUP_INTERVAL seconds remove_completed_tasks needs the mutex as well; the
\* entries it drops concern no worker (TaskQueue has what it does).
Clean(due) ==
    /\ due => Free
    /\ At("clean", "test")
    /\ UNCHANGED <<vars, i, worker_pids, num_workers_running, sched_shutdown, signals>>

\* cleanup_resources: one worker after the other.
Terminate ==
    /\ sched_pc = "terminate" /\ i < num_workers_running
    /\ IF worker_pids[i]
         THEN /\ sched_pc' = "reap"
              /\ sigterm' = IF Running(i) THEN sigterm \cup {i} ELSE sigterm
              /\ UNCHANGED i
         ELSE /\ i' = i + 1
              /\ UNCHANGED <<sched_pc, sigterm>>
    /\ UNCHANGED <<vars, worker_pids, num_workers_running, sched_shutdown, stray, faults>>

\* Wrong: does not wait.
Reap_AtOnce ==
    /\ At("reap", "terminate")
    /\ i' = i + 1
    /\ UNCHANGED <<vars, worker_pids, num_workers_running, sched_shutdown, signals>>

\* Wrong: waits for a status, which the ignored SIGCHLD never leaves.
Reap_Status ==
    /\ At("reap", "terminate")
    /\ WaitPidNoHang(i) > 0
    /\ i' = i + 1
    /\ UNCHANGED <<vars, worker_pids, num_workers_running, sched_shutdown, signals>>

\* waitpid(pid, NULL, 0) returns when the child has ended.
Reap ==
    /\ At("reap", "terminate")
    /\ ~ Running(i)
    /\ i' = i + 1
    /\ UNCHANGED <<vars, worker_pids, num_workers_running, sched_shutdown, signals>>

Finish ==
    /\ i = num_workers_running
    /\ At("terminate", "gone")
    /\ SetFlagAndBroadcast
    /\ UNCHANGED <<status, worker_id, mutex, num_active_workers, local, killed, spurious,
                   i, worker_pids, num_workers_running, sched_shutdown, signals>>

\* The scheduler's signal_handler.
SignalScheduler ==
    /\ sched_pc # "gone"
    /\ ~ sched_shutdown
    /\ sched_shutdown' = TRUE
    /\ SetFlagAndBroadcast
    /\ UNCHANGED <<status, worker_id, mutex, num_active_workers, local, killed, spurious,
                   sched_pc, i, worker_pids, num_workers_running, signals>>

\* A SIGTERM of the scheduler reaches a worker: signal_handler runs, the scheduler's
\* in a child whose execl failed.
Deliver(w) ==
    /\ w \in sigterm
    /\ sigterm' = sigterm \ {w}
    /\ IF Alive(w)
         THEN HandleSignal(w)
         ELSE /\ IF w \in stray THEN SetFlagAndBroadcast
                                ELSE UNCHANGED <<shutdown_flag, waiters>>
              /\ UNCHANGED <<status, worker_id, mutex, num_active_workers, local,
                             killed, spurious>>
    /\ UNCHANGED <<scheduler, stray, faults>>

\* ... or it comes before main has installed the handler, and ends the process.
DeliverEarly(w) ==
    /\ w \in sigterm
    /\ pc[w] = "attach"
    /\ sigterm' = sigterm \ {w}
    /\ pc' = [pc EXCEPT ![w] = "gone"]
    /\ UNCHANGED <<shared, task, shutdown_requested, executor, killed, spurious,
                   scheduler, stray, faults>>

SchedulerStep ==
    \/ Spawn \/ ForkFails \/ ExecFails \/ Spawned \/ TestLoop \/ CheckWorkers \/ Count
    \/ (\E due \in BOOLEAN : Clean(due))
    \/ Terminate \/ Reap \/ Finish

PoolStep == Next /\ UNCHANGED <<scheduler, signals>>

SupervisorNext ==
    \/ PoolStep
    \/ SchedulerStep
    \/ SignalScheduler
    \/ \E w \in Workers : Deliver(w) \/ DeliverEarly(w) \/ StrayExits(w)

\* Processes are scheduled fairly and signals arrive.  The scheduler has nothing to
\* wait for but its sleep, the mutex and waitpid.
SupervisorFairness ==
    /\ \A w \in Workers :
          /\ WF_allVars(WorkerStep(w) /\ UNCHANGED <<scheduler, signals>>)
          /\ WF_allVars(Deliver(w) \/ DeliverEarly(w))
          /\ WF_allVars(StrayExits(w))
    /\ \A t \in Tasks : WF_allVars(ExecutorStep(t) /\ UNCHANGED <<scheduler, signals>>)
    /\ WF_allVars(SchedulerStep)

SupervisorSpec == SupervisorInit /\ [][SupervisorNext]_allVars /\ SupervisorFairness
-----------------------------------------------------------------------------
Live == {w \in Workers : Running(w)}

\* A worker asleep on queue_cond that was asked to stop and that no broadcast is left
\* to wake: the handler ran between its test of the flags and pthread_cond_wait.
LostWakeup == \E w \in waiters : pc[w] = "blocked" /\ ShuttingDown(w)

\* The mutex is not robust: the end of its holder leaves it locked for good.
DeadHolder ==
    \/ mutex \in Workers /\ pc[mutex] = "gone"
    \/ mutex \in Tasks /\ executor[mutex] = "dead"

\* When the scheduler has gone so have its workers, whatever they were doing.  A failed
\* fork lowers num_workers_running and leaves a gap in worker_pids: for each of them the
\* worker with the highest number is passed over, and nobody else is.
LeavesNoWorker ==
    sched_pc = "gone" =>
        \A w \in Live : w >= NUM_WORKERS - Cardinality({v \in Workers : ~ worker_pids[v]})

\* A shutdown of the scheduler comes to its end except in two ways: a worker sleeps
\* through its SIGTERM, or the mutex is lost with a thread that held it.
ShutdownEndsOrIsStuck ==
    \/ [] ~ sched_shutdown
    \/ <> (sched_pc = "gone")
    \/ <> [] (LostWakeup \/ DeadHolder)

\* The workers add and subtract themselves in num_active_workers while the scheduler
\* overwrites it: it is wrong for a while, but it settles on the number of processes
\* that run, unless the scheduler leaves, the mutex is lost or a fork failed.
CountSettles ==
    \/ <> [] (num_active_workers = Cardinality(Live))
    \/ <> sched_shutdown
    \/ <> [] DeadHolder
    \/ <> (num_workers_running < NUM_WORKERS)

\* README.md: "Worker processes are monitored and respawned if they crash".
WorkersAreRespawned == \A w \in Workers : w \in killed ~> (Alive(w) \/ sched_shutdown)

\* README.md: "Graceful shutdown and resource cleanup".
ShutdownCompletes == sched_shutdown ~> sched_pc = "gone"
=============================================================================
