----------------------------- MODULE TaskQueue -----------------------------
(***************************************************************************)
(* The task array in shared memory (task_queue.c) and the operations that  *)
(* the workers, the scheduler, the web server and the command line apply   *)
(* to it.  Each operation holds queue_mutex from its first access to its   *)
(* last, so each is one action here; what happens between the operations,  *)
(* and around the mutex, is the subject of WorkerPool and EnqueueReply.    *)
(* The C array is 0-based and so is this one.  A cell at or above size     *)
(* keeps whatever was last written to it.                                  *)
(***************************************************************************)
EXTENDS PriorityArray, FiniteSets

CONSTANTS
    MAX_TASKS,   \* config.h: the capacity of the array
    MaxAge,      \* config.h: COMPLETED_TASK_MAX_AGE
    LastId,      \* bound: no task with a larger id is submitted
    LastTime     \* bound: the clock stops here

ASSUME QueueAssumption ==
    /\ MAX_TASKS \in Nat \ {0}
    /\ MaxAge \in Nat
    /\ LastId \in Nat
    /\ LastTime \in Nat \ {0}

VARIABLES
    tasks,            \* the array, of which the first size cells are in use
    size,
    next_task_id,
    total_tasks,
    completed_tasks,
    failed_tasks,
    now,              \* time(NULL)
    executing         \* the ids of the tasks some worker or executor thread
                      \* holds a private copy of and will report on

vars == <<tasks, size, next_task_id, total_tasks, completed_tasks,
          failed_tasks, now, executing>>

Cell == 0..(MAX_TASKS - 1)
InUse == 0..(size - 1)

Task == [id : Nat, priority : Priority, status : TaskStatus, end_time : Nat]

TypeOK ==
    /\ tasks \in [Cell -> Task]
    /\ size \in 0..MAX_TASKS
    /\ next_task_id \in Nat \ {0}
    /\ total_tasks \in Nat
    /\ completed_tasks \in Nat
    /\ failed_tasks \in Nat
    /\ now \in Nat \ {0}
    /\ executing \subseteq Nat

\* shmget returns zero-filled memory; init_shared_memory then sets the counters.
ZeroTask == [id |-> 0, priority |-> PRIORITY_HIGH, status |-> "PENDING",
             end_time |-> 0]

Init ==
    /\ tasks = [i \in Cell |-> ZeroTask]
    /\ size = 0
    /\ next_task_id = 1
    /\ total_tasks = 0
    /\ completed_tasks = 0
    /\ failed_tasks = 0
    /\ now = 1
    /\ executing = {}
-----------------------------------------------------------------------------
\* Wrong: lets one task too many in.
is_queue_full_OffByOne == size > MAX_TASKS

is_queue_full == size >= MAX_TASKS

\* Cell i holds the task find_task_by_id returns for id: the first match.
Finds(id, i) ==
    /\ i \in InUse
    /\ tasks[i].id = id
    /\ \A j \in 0..(i-1) : tasks[j].id # id

Known(id) == \E i \in InUse : tasks[i].id = id

Pending(i) == tasks[i].status = "PENDING"

NewTask(p) ==
    [id |-> next_task_id, priority |-> p, status |-> "PENDING", end_time |-> 0]

\* Make room at pos and write the new task there.
InsertAt(pos, p) ==
    /\ tasks' = [i \in Cell |->
                   IF i = pos THEN NewTask(p)
                   ELSE IF i \in (pos+1)..size THEN tasks[i-1]
                   ELSE tasks[i]]
    /\ next_task_id' = next_task_id + 1
    /\ size' = size + 1
    /\ total_tasks' = total_tasks + 1

\* Wrong: compares with >=, which puts a task in front of the older ones of its priority.
InsertPos_BeforeEquals(p, pos) ==
    /\ pos \in 0..size
    /\ \A i \in InUse : IF i < pos THEN tasks[i].priority < p ELSE tasks[i].priority >= p

\* The position the binary search finds; InsertPosition models the search.
InsertPos(p, pos) == IsInsertPos([i \in InUse |-> tasks[i].priority], size, p, pos)

EnqueueTask(p) ==
    /\ next_task_id <= LastId
    /\ ~ is_queue_full
    /\ \E pos \in 0..size : InsertPos(p, pos) /\ InsertAt(pos, p)
    /\ UNCHANGED <<completed_tasks, failed_tasks, now, executing>>

\* Wrong: the loop that looks for a waiting task does not stop at the first.
FirstPending_Any(i) == Pending(i)

\* A worker takes the first PENDING task, which is the most urgent one.
FirstPending(i) == Pending(i) /\ \A j \in 0..(i-1) : ~ Pending(j)

DequeueTask ==
    /\ \E i \in InUse :
          /\ FirstPending(i)
          /\ tasks' = [tasks EXCEPT ![i].status = "RUNNING"]
          /\ executing' = executing \cup {tasks[i].id}
    /\ UNCHANGED <<size, next_task_id, total_tasks, completed_tasks,
                   failed_tasks, now>>
-----------------------------------------------------------------------------
\* By how much a change from old to new changes the number of tasks in s.
CounterChange(old, new, s) ==
    IF new = s /\ old # s THEN 1 ELSE IF old = s /\ new # s THEN -1 ELSE 0

\* update_task_status; stamped says that the caller passed a time_field.
UpdateTaskStatus(id, new, stamped) ==
    IF Known(id)
      THEN \E i \in InUse :
             /\ Finds(id, i)
             /\ tasks' = [tasks EXCEPT
                   ![i].status = new,
                   ![i].end_time = IF stamped /\ new \in Terminal THEN now ELSE @]
             /\ completed_tasks' = completed_tasks
                   + CounterChange(tasks[i].status, new, "COMPLETED")
             /\ failed_tasks' = failed_tasks
                   + CounterChange(tasks[i].status, new, "FAILED")
      ELSE UNCHANGED <<tasks, completed_tasks, failed_tasks>>

\* The end of an executor thread.  When the first update does not find the
\* task, neither does the second, which would have reported it as failed.
Complete(id) ==
    /\ UpdateTaskStatus(id, "COMPLETED", TRUE)
    /\ executing' = executing \ {id}
    /\ UNCHANGED <<size, next_task_id, total_tasks, now>>

\* malloc or pthread_create failed: the worker reports the task as failed,
\* without a time.
LaunchFails(id) ==
    /\ UpdateTaskStatus(id, "FAILED", FALSE)
    /\ executing' = executing \ {id}
    /\ UNCHANGED <<size, next_task_id, total_tasks, now>>

\* A worker process ends, normally or not, and takes its threads with it.
WorkerLost(ids) ==
    /\ executing' = executing \ ids
    /\ UNCHANGED <<tasks, size, next_task_id, total_tasks, completed_tasks,
                   failed_tasks, now>>

\* Wrong: does not count the cancelled task.
CancelTask_Uncounted(id) ==
    /\ \E i \in InUse :
          /\ Finds(id, i)
          /\ Pending(i)
          /\ tasks' = [tasks EXCEPT ![i].status = "FAILED", ![i].end_time = now]
    /\ UNCHANGED <<size, next_task_id, total_tasks, completed_tasks, failed_tasks, now,
                   executing>>

\* Wrong: cancels a task that is no longer waiting.
CancelTask_AnyStatus(id) ==
    /\ \E i \in InUse :
          /\ Finds(id, i)
          /\ tasks' = [tasks EXCEPT ![i].status = "FAILED", ![i].end_time = now]
    /\ failed_tasks' = failed_tasks + 1
    /\ UNCHANGED <<size, next_task_id, total_tasks, completed_tasks, now, executing>>

CancelTask(id) ==
    /\ \E i \in InUse :
          /\ Finds(id, i)
          /\ Pending(i)
          /\ tasks' = [tasks EXCEPT ![i].status = "FAILED", ![i].end_time = now]
    /\ failed_tasks' = failed_tasks + 1
    /\ UNCHANGED <<size, next_task_id, total_tasks, completed_tasks, now,
                   executing>>
-----------------------------------------------------------------------------
Outdated(i) ==
    /\ tasks[i].status \in Terminal
    /\ tasks[i].end_time > 0
    /\ now - tasks[i].end_time > MaxAge

\* from[j] is the cell whose task moves to cell j: the first n cells receive
\* the tasks that are kept, in the order they had.
Compacts(n, from) ==
    /\ \A j, k \in 0..(n-1) : j < k => from[j] < from[k]
    /\ \A i \in InUse : ~ Outdated(i) => \E j \in 0..(n-1) : from[j] = i

\* Wrong: shortens the array without moving the tasks that are kept.
RemoveCompletedTasks_NoCopy ==
    /\ \E n \in 0..size :
         \E from \in [0..(n-1) -> {i \in InUse : ~ Outdated(i)}] :
            Compacts(n, from) /\ size' = n
    /\ UNCHANGED <<tasks, next_task_id, total_tasks, completed_tasks, failed_tasks, now,
                   executing>>

RemoveCompletedTasks ==
    /\ \E n \in 0..size :
         \E from \in [0..(n-1) -> {i \in InUse : ~ Outdated(i)}] :
            /\ Compacts(n, from)
            /\ tasks' = [j \in Cell |-> IF j < n THEN tasks[from[j]] ELSE tasks[j]]
            /\ size' = n
    /\ UNCHANGED <<next_task_id, total_tasks, completed_tasks, failed_tasks,
                   now, executing>>

Tick ==
    /\ now < LastTime
    /\ now' = now + 1
    /\ UNCHANGED <<tasks, size, next_task_id, total_tasks, completed_tasks,
                   failed_tasks, executing>>

\* What happens to the array other than its periodic cleanup.
Activity ==
    \/ \E p \in Priority : EnqueueTask(p)
    \/ DequeueTask
    \/ \E id \in executing : Complete(id) \/ LaunchFails(id)
    \/ \E ids \in SUBSET executing : WorkerLost(ids)
    \/ \E id \in 1..(next_task_id - 1) : CancelTask(id)
    \/ Tick

Next == Activity \/ RemoveCompletedTasks

Spec == Init /\ [][Next]_vars
-----------------------------------------------------------------------------
TasksOf(status) == {tasks[i].id : i \in {j \in InUse : tasks[j].status = status}}

\* The array stays sorted by priority, and equal priorities by age, whatever
\* mixture of insertions, status changes and compactions it went through:
\* the binary search of enqueue_task and "first pending task is highest
\* priority" in the workers both rest on it.
QueueOrdered ==
    \A i, j \in InUse : i < j =>
        \/ tasks[i].priority < tasks[j].priority
        \/ tasks[i].priority = tasks[j].priority /\ tasks[i].id < tasks[j].id

\* The counters of the status page add up: every task ever submitted is
\* waiting, running, counted once as completed or counted once as failed,
\* also after its cell was given to another task.
StatisticsBalance ==
    total_tasks = Cardinality(TasksOf("PENDING")) + Cardinality(TasksOf("RUNNING"))
                    + completed_tasks + failed_tasks

\* A task some worker holds is RUNNING in the array until that worker reports:
\* it is not cancelled, removed or reported by anybody else in between, so an
\* executor's update always finds its task (the else branch of
\* task_executor_thread is dead).
ExecutingIsRunning == executing \subseteq TasksOf("RUNNING")

\* Nobody overturns an outcome, although update_task_status would let its
\* callers: the status of a task only moves along the lifecycle of the README,
\* or from PENDING to FAILED, and a result keeps the end_time it has.
Advances(old, new) ==
    \/ new.status = old.status /\ new.end_time = old.end_time
    \/ old.status = "PENDING" /\ new.status \in {"RUNNING", "FAILED"}
    \/ old.status = "RUNNING" /\ new.status \in Terminal

MovesAlongLifecycle ==
    \A i \in InUse, j \in 0..(size' - 1) :
        tasks'[j].id = tasks[i].id => Advances(tasks[i], tasks'[j])

LifecycleOnly == [][MovesAlongLifecycle]_vars

\* Only a task with an outcome that is older than the limit leaves the array:
\* compaction drops no waiting and no running task and no recent result.
KeepsWhatIsNotOutdated ==
    \A i \in InUse :
        Outdated(i) \/ \E j \in 0..(size' - 1) : tasks'[j].id = tasks[i].id

OnlyOutdatedLeave == [][KeepsWhatIsNotOutdated]_vars

\* The waiting tasks as the submitters see them.
Entry(i) == [id |-> tasks[i].id, priority |-> tasks[i].priority]
Waiting == {Entry(i) : i \in {j \in InUse : Pending(j)}}

Schedule == INSTANCE PrioritySchedule WITH
    waiting <- Waiting,
    running <- TasksOf("RUNNING"),
    completed <- completed_tasks,
    failed <- failed_tasks,
    nextId <- next_task_id

\* The array, with its capacity and its compaction, implements the abstract
\* schedule: in particular a worker always starts the most urgent waiting task
\* and no task is started twice.
ImplementsSchedule == Schedule!Spec
=============================================================================
