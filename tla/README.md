# The multi-process task scheduler in TLA+

A scheduler process starts a pool of worker processes; the workers, the scheduler, a
web server and command-line helpers share one task queue in System V shared memory.
These modules model the queue, the workers, the scheduler, the web server and its
page, and the scripts that start and stop them. TLC checks them on small instances, and
TLAPS proves the safety properties of all of them for every value of the constants. Paths
are relative to the repository.

## Inventory

| Part | State | Operations | Talks to the others by |
|---|---|---|---|
| Task queue (`src/task_queue.c`, `.h`) | the array `tasks` of which `size` cells are in use, `next_task_id`, three counters, `num_active_workers`, `shutdown_flag`, a process-shared mutex and condition variable | `init/attach/detach/destroy_shared_memory`, `enqueue_task`, `dequeue_task` (no caller), `update_task_status`, `cancel_task`, `remove_completed_tasks`, counts | shared memory, under `queue_mutex` except for the flag and for the id that `enqueue_task` returns |
| Worker (`src/worker.c`) | `shutdown_requested`, where its main thread is, a private copy of a task, detached executor threads | register, main loop, `execute_task`, executor threads, signal handler, unregister | mutex, condition variable, flag, signals |
| Scheduler (`src/scheduler.c`) | `worker_pids`, `num_workers_running`, `shutdown_requested` | `spawn_worker`, `monitor_workers`, `cleanup_resources`, signal handler | fork/exec, SIGTERM, waitpid, the queue |
| Web server (`src/web_server.c`) | `server_running`, simulation threads | one request at a time: snapshots, submit, simulate, cancel | HTTP, the queue |
| Dashboard (`web/`) | chart data, the last tasks | refresh every 2 s, forms | HTTP |
| Scripts (`scripts/`) | pid files | start, stop, add, report | processes, the queue |
| Logger, formatting (`logger.c`, `common.c`) | a file | `log_message` | none |

What is hard here: an id read after the unlock; one wakeup per task shared by many
sleepers; flags set by signal handlers outside the mutex; processes that end while their
threads hold the mutex, or with work in hand; workers and monitor writing the same
counter; forks and execs that fail in the middle of start-up; counters kept in several
places; an array that must stay sorted through insertion, status changes and compaction.
`hazards` in PROJECT.json lists them by line with the properties that cover them.

What makes each part correct:

- queue: sorted by priority and age; most urgent task first; every task counted once;
  outcomes are final; only outdated results are dropped; a held task stays where it is.
- workers: no missed wakeup; no task executed twice; waiting tasks are served and started
  tasks finished while nobody shuts down or is killed.
- scheduler: a shutdown comes to its end and leaves no worker (but one per failed fork); the
  count it publishes is right; dead workers are replaced (they are not).
- web server: what it answers is what the queue decided; a request is answered unless a
  silent client or the mutex of a dead worker stalls the server; SIGTERM ends it (it does
  not, before a further connection).
- scripts: a started scheduler works on a fresh, initialized segment and is served; what a
  cleanup leaves behind is only what it had no way to find.
- dashboard: what is shown is no older than the refresh that shows it; every completion is
  plotted once; one interval at most; a card ends up with the number of the last refresh.

## Modules

| Module | What it is |
|---|---|
| `PriorityArray` | the enumerations of `common.h`; sortedness and the insertion position |
| `PrioritySchedule` | abstract: what the queue promises, with no array, capacity or clock |
| `TaskQueue` | the array and every operation on it; implements `PrioritySchedule` |
| `TaskQueue_proof` | its proofs |
| `InsertPosition`, `InsertPosition_proof` | the binary search of `enqueue_task`, iteration by iteration, and its proofs |
| `EnqueueReply` | `TaskQueue` plus clients between the unlock and `return task->id` |
| `TaskCleanup` | `TaskQueue` plus history variables, to state the comment of `remove_completed_tasks` |
| `TaskCleanup_proof` | what is true of that comment, with its proof |
| `WorkerPool` | workers, executors, mutex, condition variable, signal handlers, kills |
| `WorkerPool_proof` | its proofs |
| `Supervisor`, `Supervisor_proof` | `WorkerPool` under a scheduler process, and its proofs |
| `WebServer`, `WebServer_proof` | the request loop of the web server and its simulation threads, over `TaskQueue`, and its proofs |
| `Startup`, `Startup_proof` | the life of the segment and of the processes on it, under the scripts, and its proofs |
| `Dashboard` | the page: overlapping refreshes, interval, animations, throughput chart |
| `Dashboard_proof` | its proofs |
| `MC*` | model values; each `MC*.cfg` gives the constants of one run |

Operators with an underscore and a comment that begins with "Wrong:"
(`CancelTask_Uncounted`, `Lock_Without`, ...) are variants with a plausible bug. No
specification uses them; PROJECT.json (`mutants`) names for each property a variant
which, put in the place of the right operator, the run rejects.

### How state and actions correspond to the code

**TaskQueue.** Every function of `task_queue.c` holds `queue_mutex` from its first
access to its last (but for the returned id), so each is one action. The array is
0-based and has all its cells, also those above `size`, which keep their old contents as
in C. `DequeueTask` is what `worker_main_loop` does under the mutex (`dequeue_task` is
the same loop, without callers). `executing` stands for the private copies in the
worker processes; `Complete`, `LaunchFails` and `WorkerLost` are the three ways in which
such a copy ends. `RemoveCompletedTasks` is the compaction loop, written as the order-
preserving map from the new cells to the kept ones. A task's name, thread id,
creation and start time are left out: no operation of the queue reads them.
`end_time` stays because the cleanup does.

**InsertPosition.** `left`, `right`, `mid`, `insert_pos` as in the code.
`TaskQueue` uses the result (`IsInsertPos`) in one step: the search runs under the mutex.

**WorkerPool.** `pc` is the place of a worker's main thread, and a step is the code
between two points where somebody else can interfere: the outer loop's condition,
`pthread_mutex_lock`, the inner condition, `pthread_cond_wait` (which registers the
waiter and unlocks in one step), the wakeup, the second check, the taking of the task,
the launch. Between `Test` and `CondWait` a signal handler may run; that is why they are
two steps. `waiters` is the condition variable: a signal removes one waiter, a broadcast
all, a spurious wakeup any. `mutex` has the thread that holds it and is not robust.
`executor` is the thread of every task. The end of a process (`Exit`, `Kill`) ends its
threads wherever they are, also inside `update_task_status`; a normal `Exit` unmaps
the segment first, with the same outcome for a thread that touches it. Which pending task
comes first is TaskQueue's subject; here a worker takes any. The capacity of the queue is
TaskQueue's as well.

**Supervisor.** `sched_pc` and `i` are the scheduler's place and loop variable.
SIGCHLD is ignored, so `waitpid(..., WNOHANG)` gives 0 for a child that runs and -1 for
one that ended (`WaitPidNoHang`), and the respawning in `CheckWorkers` is there but never
taken. `ForkFails` and `ExecFails` are the failures of `spawn_worker`; after a failed
`execl` the child runs the inherited `cleanup_resources` (`StrayExits`). `Terminate` and
`Reap` are the two halves of a round of `cleanup_resources`; SIGTERM is delivered later
(`Deliver`), possibly before the worker has installed its handler (`DeliverEarly`).
`remove_completed_tasks` changes nothing this module has, but it needs the mutex (`Clean`).

**WebServer.** `server` is the place of the main thread: the test of `server_running`, `accept`,
`recv`, the handler, its `pthread_mutex_lock`, `send` and `close`. Each handler reaches the
queue in at most one critical section, so what follows the lock is one action, with the
`TaskQueue` operation it calls. The mutex is not robust: `mutex_lost` says that it is held by
somebody who has ended, a worker (`WorkerDies`) or a simulation thread that the end of the
server took along (`ServerEnds`); from then on nobody gets past a lock (`Locked`). A living
holder releases the mutex after one step, so it needs no variable here. A client connects,
sends a whole request or leaves at some point before; `recv` then fails in the headers
(`ReadFails`, the connection is closed) or in the body (`ReadPart`: the result is not looked at
and the request goes on). `HandleError` stands for every 400 and for the 500s of `malloc` and
`pthread_create`. `sim` is what each simulation thread has yet to add; a full queue drops a
task. `BrokenPipe` is SIGPIPE, which nobody handles. `signal()` restarts `accept` and `recv`
(the Makefile defines `_GNU_SOURCE`), so `Signal` sets the flag and nothing else. `Work` is
what workers and the scheduler's cleanup do to the queue in between. The text of the task list and of
the exports is not modelled: they read the queue in one critical section and change nothing.

**Startup.** A segment goes by the name of the scheduler that created it, and `key` is the one
that `SHM_KEY` leads to: `ipcrm` frees the key at once, and who has the segment attached keeps it.
`Get`, `Initialize`, `GetExisting` are the steps of `init_shared_memory` between which others
act: the key leads to a segment before `ready` (its mutex initialized) and before its
flag is cleared. The scheduler attaches by the id it has, worker and web server by the key
(`WorkerAttach`, `WebAttach`). `destroy_shared_memory` is commented out, so `Finish` leaves the
segment and its `shutdown_flag`. `SignalWorkers` has the three kinds of child a SIGTERM
may meet: before `execl` (the scheduler's handler and its memory), before `signal` in
`main`, and in the loop; it comes from the worker's scheduler (`Terminate`) or from anybody else
(`SignalWorker`). `ForkFails`, `ExecFails` and `KillWorker` are the other ways to lose a worker; a
child whose `execl` failed runs the inherited `cleanup_resources`, which sets the flag of the
scheduler's queue. `told` and `orphaned` remember which living schedulers have a worker that
was signalled, or lost their pid file to `make distclean`. `StartScheduler` to `Started` are `start_scheduler.sh`, `StartCleanup`
to `Remove` are `cleanup.sh`, with a step for each of its kills because processes
react between SIGTERM and SIGKILL; `StartWeb`, `Settle`, `Interrupt`, `WaitReturns` are
`start_web_dashboard.sh` in a terminal of its own. A script knows a process by its pid file, the
workers by their command line. Taken from how the scripts are used: one operator runs those
for the scheduler one at a time, starts `./scheduler` by hand only when none runs, and the
`sleep 2` of `start_scheduler.sh` is long enough for the scheduler and its worker to start or
fail. The pool is one worker; what it does with the queue is `WorkerPool`'s subject, and a
second one would attach to the same segment by the same key.

**Dashboard.** `open` holds the refreshes under way, each with the answers it has so far: a call of
`updateDashboard` is suspended in `Promise.all` until the last (`Shows`) or the first failed
one (`Fails`), and any other callback of the page runs meanwhile. The queue behind the server
is how many tasks wait and how many are completed, enough to tell any two moments apart
(`Time`). `card` and `anims` are one number card with its running animations: each starts
from the number it finds and ends with its own, and since all take half a second the oldest ends
first. `refreshIntervalId` and `intervals` are kept apart, for the page could lose an
interval. The fetches of the workers are like the two that are here.

## Runs

| Run | Constants | States | Shows |
|---|---|---|---|
| `task_queue` | 3 cells, 4 ids, 4 clock ticks, age limit 1 | 373,554 | seven properties of the queue, among them the refinement of `PrioritySchedule` |
| `insert_position` | arrays of up to 8 tasks, every sorted contents | 2,306 | the search is right, stays in bounds, halves, ends |
| `worker_pool` | 2 workers, 2 tasks, 1 kill, 1 spurious wakeup | 137,163 | no missed wakeup, no double execution, tasks are served and finished |
| `supervisor` | 2 workers, 1 task, 1 kill, 1 failed fork or execl | 341,197 | whom a shutdown leaves, whether it ends, and the worker count |
| `web_server` | 2 clients, 1 cell, 2 ids, 2 clock ticks, simulations of 1 task | 1,032,626 | answers agree with the queue; what stalls the server and what stops it |
| `startup` | 2 schedulers, 1 web server or 1 incident of a worker | 746,272 | whose segment everybody is on, whether it is ready, and that a started scheduler is served |
| `dashboard` | 1 task, 2 refreshes under way, 2 animations | 485,565 | what the page shows, plots and settles on; its one interval |
| `cleanup_leak` | 2 cells | violation | a task that failed to launch is never removed |
| `enqueue_reply` | 3 cells, 2 clients | violation | a client is told another client's id |
| `respawn` | 1 worker, 1 kill | violation | a killed worker is not replaced |
| `shutdown_hang` | 1 worker, no task | violation | a worker sleeps through its SIGTERM and the scheduler waits for ever |
| `web_stop` | as `web_server` | violation | Ctrl+C does not stop a web server to which nobody connects |

The five violations are disagreements between the code and a comment, a message or
README.md; `findings` in PROJECT.json quotes both sides.

**Bounds.** `MAX_TASKS = 3` lets the array be empty, full, insert in front, in the middle
and at the end, and compact with a gap; `LastId = 4` makes cells be used again, and
`LastTime = 4` with `MaxAge = 1` has results that are recent, at the limit and over
it. Eight cells take the search through up to four iterations with both roundings. Two workers and
two tasks are what a stolen wakeup takes: one is signalled, the other takes the task. One
kill at any point meets every holder of the mutex and every sleeper. In `Supervisor` one
failed fork shifts the slots, and one stray child meets siblings in every state. The
limits on ids, time, kills, faults, spurious wakeups, launches, refreshes and animations are
guards in the actions, named `LastId`, `LastTime`, `MaxKills`, `MaxFaults`, `MaxSpurious`,
`SimCount`, `MaxLaunches`, `MaxWebLaunches`, `MaxIncidents`, `MaxTasks`, `MaxOpen`, `MaxAnims`. One
cell in `WebServer` makes both submitters meet a full queue, the simulation drop a task, and the
cleanup free the cell again; two clients are one that is served and one that waits behind it. In `Startup` the second scheduler is the one that may meet the segment,
the pid file, the worker or the web server of the first. `MaxIncidents = 1` bounds the web servers
started and the workers struck (by a failure of fork or execl, a signal or a kill) together:
each behaviour has one of them, at any point, since a web server and a worker do not touch each
other's state but through the segment and its flag, which a web server never writes. In
`Dashboard` two refreshes are one that overtakes the other, one task has its two changes between
them, and two animations are one that passes the number of the other; the states in which the
two exceptions of `PlottedOnce` and `CardSettles` apply are reached.

**Deadlock** is checked for the queue (`LaunchFails`, `WorkerLost` and the cleanup are always
possible, so it is no strong statement) and switched off where the system may stop: the
search ends, the pool stops after a shutdown, so does the web server, and in `Startup` nobody has
to launch anything once the launches are used up. The page never stops.

**Fairness.** Weak fairness for every worker's main thread, every executor, the
scheduler and the delivery of a signal sent: the operating system schedules threads, sleeps
end, and a mutex that is free again and again is got (a step that locks waits for it to be
free; each holder releases it after one step). No
fairness for submissions, cancellations, kills, signals from outside or spurious wakeups.
`WaitingIsServed` and `StartedIsFinished` are stated for as long as nobody shuts down or is
killed, since a killed holder of the mutex stops everybody for ever. The launch may fail, but
it may not be postponed for ever. `InsertPosition` is
straight-line code under a lock. In `WebServer` only the server's main thread is fair: a client
may stay silent for ever, a simulation thread may sleep for ever, and nobody has to connect.
`ServedOrStalled` and `StopsUnlessItWaits` therefore name what they exclude: a silent client in
`recv`, a lost mutex in `pthread_mutex_lock`, and `accept` with nobody waiting. That the server
gets a mutex which is not lost needs no more than its own fairness: the holders are workers and
simulation threads inside a critical section. In `Startup` the schedulers and the start of
their workers (`WorkerStarts`) are fair (the system runs them); scripts, signals, crashes and the web server are not.
In `Dashboard` the server answers, a refresh with its answers is shown, animations end and the
interval comes round; nobody has to press a button or look at the tab, and a refresh may fail
at any time, so that `EventuallyShown` excepts a page with the red light.

**What the exceptions in the properties say of the code.** `InheritsOnlyByHand`: started without
the script, a scheduler takes over the segment of the last one with its `shutdown_flag`
still set, and its workers leave at once. `RegisteredServes` and `StartedIsServed`: `make distclean`
removes `scheduler.pid` before it calls `cleanup.sh`, which then takes the workers and the
segment from a scheduler it cannot find (`orphaned`); one SIGTERM to a worker, or a failed `execl`,
marks the queue of a scheduler that nobody told to stop (`told`, "failed"), and a worker that was
never forked or was killed is not replaced (`NoWorker`). Each of these exceptions was left out in
turn, and the run then fails. `ServedOrStalled` and `StopsUnlessItWaits`: a worker that dies with
the mutex leaves the server in `pthread_mutex_lock`, where SIGTERM does not reach it (`Blocked`);
a client that leaves may take the server along (SIGPIPE). `LeavesNoWorker`: a failed fork makes
`num_workers_running` too small for the slots, and the worker with the highest number is
neither told to stop nor waited for. `RunningIsInHand`: the tasks of a worker that ended stay
RUNNING for ever. `ReadyWhenUsed` and `WebIsCurrent`: a web server in its
first second, or after Ctrl+C in its terminal, has no pid file and survives a cleanup on the
removed segment. `OneTimer`: a page opened in a background tab is not paused, whatever
the comment above `visibilitychange` says.

## Proofs

All of them hold for any capacity, number of workers, tasks and bounds, under the named
assumptions of the modules (`QueueAssumption`, `SearchAssumption`, `PoolAssumption`,
`SupervisorAssumption`, `ServerAssumption`, `StartupAssumption`, `DashboardAssumption`:
positive capacity, natural bounds, a finite non-empty set of workers, under a scheduler its
slots, finitely many clients, distinct ids, a `None` that is nothing else). Every safety property
of a passing run, and every action property and the refinement, is a theorem; the names
are in `theorems` of PROJECT.json.

*TaskQueue.* The inductive invariant is `TypeOK`, `QueueOrdered`, `ExecutingIsRunning`, and two
facts about ids: those in the array were issued (`IdsIssued`) and are distinct
(`IdsDistinct`). Order alone is not inductive: a new task goes behind its equals, and
that it is younger than they are needs `IdsIssued`; that an update by id hits the
task the worker holds needs `IdsDistinct`. `StatisticsBalance` then follows from how one
operation moves at most one id between the four sets, counted with the cardinality lemmas
`OneMore` and `OneLess`. The refinement maps every step to a step of `PrioritySchedule` or to a
stutter: `DequeueTask` takes the first pending cell, which by `QueueOrdered` is before
every other waiting task.

*InsertPosition.* The invariant is the textbook one: left of `left` at least as urgent,
from `right` on less urgent, `insert_pos = right`.

*TaskCleanup.* The run `cleanup_leak` refutes the comment in `remove_completed_tasks` with one
task. `CleanupLeavesOnlyUnstamped` says that there are no others like it: a finished task that was
already too old at the last cleanup and is still there is FAILED with `end_time` 0, which only
the report of a failed launch writes. By `Stamped` an `end_time` that is not 0 is the time
of the outcome; by `StampedIsRecent` the cleanup has tested it.

*WorkerPool.* The invariant says who holds the mutex (`LockHeld`), that a worker about to
wait found nothing and nothing came since (`TestedEmpty`: a submitter would need the
mutex), that only sleepers are on the list (`WaitersSleep`), that the loop is left for a
signal only (`LeavesForAReason`), and that a task in a worker's hand or thread is RUNNING
under that worker's id (`HandIsRunning`, `ThreadIsRunning`). `NoMissedWakeup` is inductive
with these: a submission wakes a waiter if there is one, and if there is none nobody sleeps.

*Supervisor.* `SupervisorInv` has the pool's invariant as a part, and the actions of the pool keep
it by the pool's own proof (`NextHolds`). What is left for the scheduler's: that
announcing a shutdown, counting and giving birth keep it, so that `HeldOnce` and `RunningIsInHand` hold
under the scheduler as well. `LeavesNoWorker` needs the whole history of the slots: they are filled from
the left, and nobody runs whose slot is empty (`SlotsInOrder`); the gaps are as many as the workers
that are not counted (`GapsCounted`); and those that `cleanup_resources` has passed belong to workers
that have ended (`Reaped`). `Announced` says that no
SIGTERM of the scheduler is under way before `shutdown_flag` is set.

*WebServer.* Every step of the server, of its simulation threads and of the workers beside
it is a step of `TaskQueue` or leaves the queue alone (`QueueStep`). This is a theorem of its own,
`ServerImplementsQueue`, from which the theorems about the queue follow for the server, among them
that it implements `PrioritySchedule` (`ServerImplementsSchedule`). Inside the proof it gives
the queue's invariant and `StatisticsBalance`, which is all `StatusAddsUp` needs. That a
cancelled task is not executing when the answer is written says nothing of later steps; what is
inductive is `Settled`: its id was issued, nobody holds it, and a cell that still has it
says FAILED (`SettledStays`, by `EnqueueMoves`, `RemoveMoves` and the effect of a status change).
`AtMostOneMore` comes from `LateIsLast`: between a late `accept` and the next there is the test of
the flag, which nobody sets again. `IsFiniteSet(Clients)` is there so that connections can be counted.

*Startup.* The invariant follows the key. While a scheduler starts, the operator's script
waits and no other one starts (`OneAtATime`), and the key leads to its segment, or to none before
`shmget` (`KeyHolds`). While there are workers the key stays where it is (`WorkersFollow`),
for `cleanup.sh` frees it only after it has killed them; a segment with an owner is
not inherited (`OneOwner`), and a scheduler that has come to its workers is in the pid file and
past its initialization (`Initialized`, `Registered`). Its segment is marked only by itself or by its
own worker, which has that segment too (`WorkersFollow`); what a signal to any set of workers
changes is the lemma `SignalEffect`. For web servers the invariant says at which
step of `cleanup.sh` which of them are still alive (`WebSeen`). `InheritsOnlyByHand`,
`RegisteredServes`, `ReadyWhenUsed` and `WebIsCurrent` are parts of it or follow from it. That
`WebIsCurrent` needs no exception for a cleanup in progress came out of this proof.

*Dashboard.* Every moment that the page has seen, in an answer or at the start of a refresh,
was a moment of the queue, and the queue only moves on; so any two of them are ordered
by `Leq` (`Chain`), none is ahead of the queue (`SeenBefore`), and no answer is behind the
start of its refresh (`AnsweredSince`). None of this depends on the order in which the answers
arrive. `PlottedOnce` needs it, for `Time` alone does not order the completions: as long
as the page has not gone back, `Chain` says that the next count is no smaller
(`ShowsForward`). `CardSettles` follows from where the youngest animation ends (`LastGoesThere`),
`OneTimer` from a page that was opened in the background being hidden until it is shown.

Model-checked only: liveness (`WaitingIsServed`, `StartedIsFinished`,
`ShutdownEndsOrIsStuck`, `CountSettles`, `Terminates`, `ServedOrStalled`,
`StopsUnlessItWaits`, `StartedIsServed`, `EventuallyShown`), which is out of reach of the prover:
the arguments rest on fairness, and so on ENABLED. Of termination the part that is
an action property, `Halves`, is proved. The five violations are counterexamples and need no proof.

## Plan

Done: `PriorityArray`, `PrioritySchedule`, `TaskQueue`, `InsertPosition`, `EnqueueReply`,
`TaskCleanup`, `WorkerPool`, `Supervisor`, `WebServer`, `Startup`, `Dashboard`, in that order, and
the proofs of every safety property of the passing runs. Left are:

1. what is true of the id that `enqueue_task` returns: that it is the client's own unless somebody
   inserts or compacts between the unlock and the read (`EnqueueReply`);
2. an abstract life of a task (submitted, started once, finished or cancelled) that `WorkerPool`
   implements, as `TaskQueue` implements `PrioritySchedule`;
3. the safety part of a shutdown: which workers can still sleep once every SIGTERM was delivered.

## Not modelled

- The logger and the formatting functions: output that nothing else reads. Lines of two threads
  of one worker may be mixed (`logger.c:57`), and so may `localtime`'s buffer.
- The text of the task list and of the exports, with its length: they read the queue under the mutex.
- Durations: `usleep` of a 32-bit product (`worker.c:39`) and the progress formula are single
  expressions that no other state depends on, and a property of them could only repeat them.
- The forms, the task dialog, the filter and the charts of `dashboard.js` other than the
  throughput: they send one request or redraw what is there. The page and the style sheet.
- `monitor.sh` and `report.sh`, which print; `add_task.sh` and `runSimulation.sh`, which are clients of
  `enqueue_task` like those of `EnqueueReply`.
- What a handler that calls functions that are not async-signal-safe may do inside
  the C library: each handler is one step. Failures of `shmget` and `shmat` for lack of resources.
- `dequeue_task`, `destroy_shared_memory` and the `_safe` counts, which have no callers.
