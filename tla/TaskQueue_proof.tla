-------------------------- MODULE TaskQueue_proof --------------------------
(***************************************************************************)
(* The invariants of the shared array, for every capacity, every age limit *)
(* and every bound.  IInv is inductive; the two facts it adds to the       *)
(* checked invariants are that ids in use are distinct and were issued.    *)
(***************************************************************************)
EXTENDS TaskQueue, FiniteSetTheorems, TLAPS

IdsIssued == \A i \in InUse : tasks[i].id \in 1..(next_task_id - 1)

IdsDistinct == \A i, j \in InUse : tasks[i].id = tasks[j].id => i = j

IInv ==
    /\ TypeOK
    /\ IdsIssued
    /\ IdsDistinct
    /\ QueueOrdered
    /\ ExecutingIsRunning

\* What the operations that write the status of one task have in common: the
\* cell i gets status s, and ids and priorities stay where they are.
SetsStatus(i, s) ==
    /\ i \in InUse
    /\ tasks' \in [Cell -> Task]
    /\ \A j \in Cell : /\ tasks'[j].id = tasks[j].id
                       /\ tasks'[j].priority = tasks[j].priority
                       /\ tasks'[j].status = IF j = i THEN s ELSE tasks[j].status
                       /\ j # i => tasks'[j].end_time = tasks[j].end_time
    /\ UNCHANGED <<size, next_task_id, total_tasks, now>>

-----------------------------------------------------------------------------
LEMMA InUseIsCell == TypeOK => InUse \subseteq Cell
  BY QueueAssumption DEF TypeOK, InUse, Cell

LEMMA InitInv == Init => IInv
  BY QueueAssumption DEF Init, IInv, TypeOK, IdsIssued, IdsDistinct, QueueOrdered,
     ExecutingIsRunning, TasksOf, InUse, Cell, ZeroTask, Task, Priority,
     PRIORITY_HIGH, TaskStatus

LEMMA DequeueEffect ==
  ASSUME IInv, DequeueTask
  PROVE  \E i \in InUse :
            /\ SetsStatus(i, "RUNNING")
            /\ FirstPending(i)
            /\ executing' = executing \cup {tasks[i].id}
            /\ UNCHANGED <<completed_tasks, failed_tasks>>
  <1>1. PICK i \in InUse : /\ FirstPending(i)
                           /\ tasks' = [tasks EXCEPT ![i].status = "RUNNING"]
                           /\ executing' = executing \cup {tasks[i].id}
    BY DEF DequeueTask
  <1>2. SetsStatus(i, "RUNNING")
    BY <1>1, InUseIsCell DEF IInv, TypeOK, SetsStatus, DequeueTask, Task, TaskStatus
  <1>3. QED
    BY <1>1, <1>2 DEF DequeueTask

LEMMA CancelEffect ==
  ASSUME IInv, NEW id, CancelTask(id)
  PROVE  \E i \in InUse :
            /\ SetsStatus(i, "FAILED")
            /\ Pending(i)
            /\ failed_tasks' = failed_tasks + 1
            /\ UNCHANGED <<completed_tasks, executing>>
  <1>1. PICK i \in InUse :
           /\ Pending(i)
           /\ tasks' = [tasks EXCEPT ![i].status = "FAILED", ![i].end_time = now]
    BY DEF CancelTask
  <1>2. SetsStatus(i, "FAILED")
    BY <1>1, InUseIsCell DEF IInv, TypeOK, SetsStatus, CancelTask, Task, TaskStatus
  <1>3. QED
    BY <1>1, <1>2 DEF CancelTask

\* A report about a task somebody holds: it finds the task, and finds it RUNNING.
LEMMA ReportEffect ==
  ASSUME IInv, NEW id \in executing, NEW s \in Terminal, NEW stamped \in BOOLEAN,
         UpdateTaskStatus(id, s, stamped),
         UNCHANGED <<size, next_task_id, total_tasks, now>>
  PROVE  \E i \in InUse :
            /\ SetsStatus(i, s)
            /\ tasks[i].id = id
            /\ tasks[i].status = "RUNNING"
            /\ completed_tasks' = completed_tasks + (IF s = "COMPLETED" THEN 1 ELSE 0)
            /\ failed_tasks' = failed_tasks + (IF s = "FAILED" THEN 1 ELSE 0)
  <1>1. PICK k \in InUse : tasks[k].id = id /\ tasks[k].status = "RUNNING"
    BY DEF IInv, ExecutingIsRunning, TasksOf
  <1>2. Known(id)
    BY <1>1 DEF Known
  <1>3. PICK i \in InUse :
           /\ Finds(id, i)
           /\ tasks' = [tasks EXCEPT
                 ![i].status = s,
                 ![i].end_time = IF stamped /\ s \in Terminal THEN now ELSE @]
           /\ completed_tasks' = completed_tasks
                 + CounterChange(tasks[i].status, s, "COMPLETED")
           /\ failed_tasks' = failed_tasks
                 + CounterChange(tasks[i].status, s, "FAILED")
    BY <1>2 DEF UpdateTaskStatus
  <1>4. tasks[i].id = id /\ tasks[i].status = "RUNNING"
    BY <1>1, <1>3 DEF Finds, IInv, IdsDistinct
  <1>5. SetsStatus(i, s)
    BY <1>3, InUseIsCell DEF IInv, TypeOK, SetsStatus, Task, TaskStatus, Terminal
  <1>6. /\ completed_tasks' = completed_tasks + (IF s = "COMPLETED" THEN 1 ELSE 0)
        /\ failed_tasks' = failed_tasks + (IF s = "FAILED" THEN 1 ELSE 0)
    BY <1>3, <1>4 DEF CounterChange
  <1>7. QED
    BY <1>4, <1>5, <1>6

\* The properties of the array that writing a status cannot disturb.
KeyInv == IdsIssued /\ IdsDistinct /\ QueueOrdered

LEMMA SetsStatusKeepsKeys ==
  ASSUME IInv, NEW i, NEW s, SetsStatus(i, s)
  PROVE  KeyInv'
  <1>1. InUse' = InUse /\ InUse \subseteq Cell
    BY InUseIsCell DEF SetsStatus, InUse, IInv
  <1>2. \A j \in InUse : tasks'[j].id = tasks[j].id /\ tasks'[j].priority = tasks[j].priority
    BY <1>1 DEF SetsStatus
  <1>3. IdsIssued' /\ IdsDistinct'
    BY <1>1, <1>2 DEF IInv, IdsIssued, IdsDistinct, SetsStatus
  <1>4. QueueOrdered'
    BY <1>1, <1>2 DEF IInv, QueueOrdered
  <1>5. QED
    BY <1>3, <1>4 DEF KeyInv

-----------------------------------------------------------------------------
\* Inserting behind the tasks of the same or a higher priority.
LEMMA EnqueueInv ==
  ASSUME IInv, NEW p \in Priority, EnqueueTask(p)
  PROVE  IInv'
  <1> USE QueueAssumption
  <1>1. PICK pos \in 0..size : InsertPos(p, pos) /\ InsertAt(pos, p)
    BY DEF EnqueueTask
  <1>2. /\ size \in Nat /\ size < MAX_TASKS /\ size' = size + 1
        /\ next_task_id' = next_task_id + 1 /\ next_task_id \in Nat \ {0}
        /\ \A i \in Cell : tasks[i] \in Task
    BY <1>1 DEF EnqueueTask, is_queue_full, InsertAt, IInv, TypeOK
  <1>3. NewTask(p) \in Task
    BY <1>2 DEF NewTask, Task, TaskStatus
  <1>4. \A i \in Cell : tasks'[i] = IF i = pos THEN NewTask(p)
                                    ELSE IF i \in (pos+1)..size THEN tasks[i-1]
                                    ELSE tasks[i]
    BY <1>1 DEF InsertAt
  <1>5. tasks' \in [Cell -> Task]
    <2>1. \A i \in Cell : i \in (pos+1)..size => i-1 \in Cell
      BY <1>2 DEF Cell
    <2>2. \A i \in Cell : tasks'[i] \in Task
      BY <1>2, <1>3, <1>4, <2>1
    <2>3. QED
      BY <1>1, <2>2 DEF InsertAt
  <1>6. TypeOK'
    BY <1>1, <1>2, <1>5 DEF TypeOK, IInv, EnqueueTask, InsertAt
  <1>7. /\ tasks'[pos] = NewTask(p)
        /\ \A i \in InUse' : i < pos => tasks'[i] = tasks[i] /\ i \in InUse
        /\ \A i \in InUse' : i > pos => tasks'[i] = tasks[i-1] /\ i-1 \in InUse
    BY <1>2, <1>4 DEF InUse, Cell
  <1>8. IdsIssued' /\ IdsDistinct'
    <2>1. NewTask(p).id = next_task_id
      BY DEF NewTask
    <2>2. \A i \in InUse : tasks[i].id \in 1..(next_task_id - 1)
      BY DEF IInv, IdsIssued
    <2>3. \A i \in InUse' : i = pos \/ i < pos \/ i > pos
      BY <1>2 DEF InUse
    <2>4. IdsIssued'
      BY <1>2, <1>7, <2>1, <2>2, <2>3 DEF IdsIssued
    <2>5. \A i, j \in InUse' : tasks'[i].id = tasks'[j].id => i = j
      <3> SUFFICES ASSUME NEW i \in InUse', NEW j \in InUse', i < j
                   PROVE  tasks'[i].id # tasks'[j].id
        BY <1>2 DEF InUse
      <3>1. CASE i < pos /\ j < pos
        <4>1. i # j
          BY <1>2 DEF InUse
        <4>2. QED
          BY <1>7, <3>1, <4>1 DEF IInv, IdsDistinct
      <3>2. CASE i < pos /\ j = pos
        BY <1>2, <1>7, <2>1, <2>2, <3>2
      <3>3. CASE i < pos /\ j > pos
        <4>1. i # j - 1
          BY <1>2, <3>3 DEF InUse
        <4>2. QED
          BY <1>7, <3>3, <4>1 DEF IInv, IdsDistinct
      <3>4. CASE i = pos
        <4>1. j > pos
          BY <3>4
        <4>2. QED
          BY <1>2, <1>7, <2>1, <2>2, <3>4, <4>1
      <3>5. CASE i > pos
        <4>1. j > pos /\ i - 1 # j - 1
          BY <1>2, <3>5 DEF InUse
        <4>2. QED
          BY <1>7, <3>5, <4>1 DEF IInv, IdsDistinct
      <3>6. QED
        BY <2>3, <3>1, <3>2, <3>3, <3>4, <3>5
    <2>6. QED
      BY <2>4, <2>5 DEF IdsDistinct
  <1>9. QueueOrdered'
    <2>1. NewTask(p).id = next_task_id /\ NewTask(p).priority = p
      BY DEF NewTask
    <2>2. \A i \in InUse : /\ tasks[i].priority \in Int
                           /\ IF i < pos THEN tasks[i].priority <= p
                                         ELSE tasks[i].priority > p
      BY <1>1, <1>2, InUseIsCell DEF InsertPos, IsInsertPos, InUse, IInv, Task, Priority,
         PRIORITY_HIGH, PRIORITY_MEDIUM, PRIORITY_LOW
    <2>3. \A i \in InUse : tasks[i].id \in Nat /\ tasks[i].id < next_task_id
      BY <1>2 DEF IInv, IdsIssued
    <2>4. SUFFICES ASSUME NEW i \in InUse', NEW j \in InUse', i < j
                   PROVE  \/ tasks'[i].priority < tasks'[j].priority
                          \/ /\ tasks'[i].priority = tasks'[j].priority
                             /\ tasks'[i].id < tasks'[j].id
      BY DEF QueueOrdered
    <2>5. i \in Int /\ j \in Int /\ p \in Int
      BY <1>2 DEF InUse, Priority, PRIORITY_HIGH, PRIORITY_MEDIUM, PRIORITY_LOW
    <2>6. CASE j < pos
      BY <1>7, <2>4, <2>5, <2>6 DEF IInv, QueueOrdered
    <2>7. CASE j = pos
      BY <1>2, <1>7, <2>1, <2>2, <2>3, <2>4, <2>5, <2>7
    <2>8. CASE j > pos
      <3>1. tasks'[j] = tasks[j-1] /\ j-1 \in InUse /\ j-1 >= pos
        BY <1>7, <2>5, <2>8
      <3>2. CASE i < pos
        BY <1>7, <2>5, <3>1, <3>2 DEF IInv, QueueOrdered
      <3>3. CASE i = pos
        BY <1>7, <2>1, <2>2, <2>5, <3>1, <3>3
      <3>4. CASE i > pos
        BY <1>7, <2>4, <2>5, <3>1, <3>4 DEF IInv, QueueOrdered
      <3>5. QED
        BY <2>5, <3>2, <3>3, <3>4
    <2>9. QED
      BY <2>5, <2>6, <2>7, <2>8
  <1>10. ExecutingIsRunning'
    <2>1. SUFFICES ASSUME NEW id \in executing
                   PROVE  id \in TasksOf("RUNNING")'
      BY DEF ExecutingIsRunning, EnqueueTask
    <2>2. PICK i \in InUse : tasks[i].id = id /\ tasks[i].status = "RUNNING"
      BY DEF IInv, ExecutingIsRunning, TasksOf
    <2>3. CASE i < pos
      <3>1. i \in InUse' /\ tasks'[i] = tasks[i]
        BY <1>2, <1>7, <2>3 DEF InUse
      <3>2. QED
        BY <2>2, <3>1 DEF TasksOf
    <2>4. CASE i >= pos
      <3>1. i+1 \in InUse' /\ i+1 > pos /\ (i+1)-1 = i
        BY <1>2, <2>4 DEF InUse
      <3>2. tasks'[i+1] = tasks[i]
        BY <1>7, <3>1
      <3>3. QED
        BY <2>2, <3>1, <3>2 DEF TasksOf
    <2>5. QED
      BY <1>2, <2>3, <2>4 DEF InUse
  <1>11. QED
    BY <1>6, <1>8, <1>9, <1>10 DEF IInv

-----------------------------------------------------------------------------
\* Compaction moves every kept task to a cell of its own, in order.
LEMMA RemoveEffect ==
  ASSUME IInv, RemoveCompletedTasks
  PROVE  \E n \in 0..size : \E from \in [0..(n-1) -> InUse] :
            /\ \A j, k \in 0..(n-1) : j < k => from[j] < from[k]
            /\ \A i \in InUse : ~ Outdated(i) => \E j \in 0..(n-1) : from[j] = i
            /\ \A j \in 0..(n-1) : tasks'[j] = tasks[from[j]] /\ ~ Outdated(from[j])
            /\ tasks' \in [Cell -> Task]
            /\ size' = n
  <1> USE QueueAssumption
  <1>1. PICK n \in 0..size : \E from \in [0..(n-1) -> {i \in InUse : ~ Outdated(i)}] :
           /\ Compacts(n, from)
           /\ tasks' = [j \in Cell |-> IF j < n THEN tasks[from[j]] ELSE tasks[j]]
           /\ size' = n
    BY DEF RemoveCompletedTasks
  <1>2. PICK from \in [0..(n-1) -> {i \in InUse : ~ Outdated(i)}] :
           /\ Compacts(n, from)
           /\ tasks' = [j \in Cell |-> IF j < n THEN tasks[from[j]] ELSE tasks[j]]
           /\ size' = n
    BY <1>1
  <1>3. n \in Nat /\ size \in Nat /\ n <= size /\ size <= MAX_TASKS
    BY DEF IInv, TypeOK
  <1>4. /\ from \in [0..(n-1) -> InUse]
        /\ \A j \in 0..(n-1) : j \in Cell /\ from[j] \in Cell /\ ~ Outdated(from[j])
    BY <1>3, InUseIsCell DEF Cell, IInv
  <1>5. \A j \in 0..(n-1) : tasks'[j] = tasks[from[j]]
    BY <1>2, <1>3, <1>4
  <1>6. tasks' \in [Cell -> Task]
    <2>1. \A j \in Cell : j < n => j \in 0..(n-1)
      BY <1>3 DEF Cell
    <2>2. \A j \in Cell : (IF j < n THEN tasks[from[j]] ELSE tasks[j]) \in Task
      BY <1>4, <2>1 DEF IInv, TypeOK
    <2>3. QED
      BY <1>2, <2>2
  <1>7. QED
    BY <1>2, <1>4, <1>5, <1>6 DEF Compacts

LEMMA RemoveInv ==
  ASSUME IInv, RemoveCompletedTasks
  PROVE  IInv'
  <1>1. PICK n \in 0..size : \E from \in [0..(n-1) -> InUse] :
            /\ \A j, k \in 0..(n-1) : j < k => from[j] < from[k]
            /\ \A i \in InUse : ~ Outdated(i) => \E j \in 0..(n-1) : from[j] = i
            /\ \A j \in 0..(n-1) : tasks'[j] = tasks[from[j]] /\ ~ Outdated(from[j])
            /\ tasks' \in [Cell -> Task]
            /\ size' = n
    BY RemoveEffect
  <1>2. PICK from \in [0..(n-1) -> InUse] :
            /\ \A j, k \in 0..(n-1) : j < k => from[j] < from[k]
            /\ \A i \in InUse : ~ Outdated(i) => \E j \in 0..(n-1) : from[j] = i
            /\ \A j \in 0..(n-1) : tasks'[j] = tasks[from[j]] /\ ~ Outdated(from[j])
            /\ tasks' \in [Cell -> Task]
            /\ size' = n
    BY <1>1
  <1>3. /\ InUse' = 0..(n-1)
        /\ UNCHANGED <<next_task_id, executing>>
        /\ \A j \in InUse' : from[j] \in InUse /\ tasks'[j] = tasks[from[j]]
        /\ \A i \in InUse : i \in Int
        /\ \A j \in InUse' : j \in Int
    <2>1. InUse' = 0..(n-1)
      BY <1>2 DEF InUse
    <2>2. \A j \in 0..(n-1) : from[j] \in InUse
      OBVIOUS
    <2>3. \A i \in InUse : i \in Int
      BY DEF InUse
    <2>4. UNCHANGED <<next_task_id, executing>>
      BY DEF RemoveCompletedTasks
    <2>5. \A j \in InUse' : tasks'[j] = tasks[from[j]] /\ j \in Int
      BY <1>2, <2>1
    <2>6. QED
      BY <2>1, <2>2, <2>3, <2>4, <2>5
  <1>4. TypeOK'
    BY QueueAssumption, <1>2 DEF TypeOK, IInv, RemoveCompletedTasks
  <1>5. IdsIssued'
    BY <1>3 DEF IInv, IdsIssued
  <1>6. \A j, k \in InUse' : j < k => from[j] < from[k]
    BY <1>2, <1>3
  <1>7. IdsDistinct'
    <2>1. SUFFICES ASSUME NEW j \in InUse', NEW k \in InUse',
                          tasks'[j].id = tasks'[k].id
                   PROVE  j = k
      BY DEF IdsDistinct
    <2>2. from[j] \in InUse /\ from[k] \in InUse
      BY <1>3
    <2>3. tasks[from[j]].id = tasks[from[k]].id
      BY <1>3, <2>1
    <2>4. from[j] = from[k]
      BY <2>2, <2>3 DEF IInv, IdsDistinct
    <2>5. from[j] \in Int /\ j \in Int /\ k \in Int
      BY <1>3, <2>2
    <2>6. QED
      BY <1>6, <2>4, <2>5
  <1>8. QueueOrdered'
    <2>1. SUFFICES ASSUME NEW i \in InUse', NEW j \in InUse', i < j
                   PROVE  \/ tasks'[i].priority < tasks'[j].priority
                          \/ /\ tasks'[i].priority = tasks'[j].priority
                             /\ tasks'[i].id < tasks'[j].id
      BY DEF QueueOrdered
    <2>2. from[i] \in InUse /\ from[j] \in InUse /\ from[i] < from[j]
      BY <1>3, <1>6, <2>1
    <2>3. tasks'[i] = tasks[from[i]] /\ tasks'[j] = tasks[from[j]]
      BY <1>3
    <2>4. QED
      BY <2>2, <2>3 DEF IInv, QueueOrdered
  <1>9. ExecutingIsRunning'
    <2>1. SUFFICES ASSUME NEW id \in executing
                   PROVE  id \in TasksOf("RUNNING")'
      BY <1>3 DEF ExecutingIsRunning
    <2>2. PICK i \in InUse : tasks[i].id = id /\ tasks[i].status = "RUNNING"
      BY DEF IInv, ExecutingIsRunning, TasksOf
    <2>3. ~ Outdated(i)
      BY <2>2 DEF Outdated, Terminal
    <2>4. PICK j \in InUse' : from[j] = i
      BY <1>2, <1>3, <2>3
    <2>5. tasks'[j].id = id /\ tasks'[j].status = "RUNNING"
      BY <1>3, <2>2, <2>4
    <2>6. QED
      BY <2>5 DEF TasksOf
  <1>10. QED
    BY <1>4, <1>5, <1>7, <1>8, <1>9 DEF IInv

-----------------------------------------------------------------------------
LEMMA DequeueInv ==
  ASSUME IInv, DequeueTask
  PROVE  IInv'
  <1>1. PICK i \in InUse :
            /\ SetsStatus(i, "RUNNING")
            /\ FirstPending(i)
            /\ executing' = executing \cup {tasks[i].id}
            /\ UNCHANGED <<completed_tasks, failed_tasks>>
    BY DequeueEffect
  <1>2. InUse' = InUse /\ InUse \subseteq Cell
    BY <1>1, InUseIsCell DEF SetsStatus, InUse, IInv
  <1>3. tasks[i].id \in Nat
    BY <1>2 DEF IInv, TypeOK, Task
  <1>4. TypeOK'
    BY <1>1, <1>3 DEF IInv, TypeOK, SetsStatus
  <1>5. ExecutingIsRunning'
    <2>1. SUFFICES ASSUME NEW id \in executing'
                   PROVE  \E j \in InUse : tasks'[j].id = id /\ tasks'[j].status = "RUNNING"
      BY <1>2 DEF ExecutingIsRunning, TasksOf
    <2>2. PICK j \in InUse : tasks[j].id = id /\ (j = i \/ tasks[j].status = "RUNNING")
      BY <1>1 DEF IInv, ExecutingIsRunning, TasksOf
    <2>3. QED
      BY <1>1, <1>2, <2>2 DEF SetsStatus
  <1>6. QED
    BY <1>1, <1>4, <1>5, SetsStatusKeepsKeys DEF KeyInv, IInv

LEMMA CancelInv ==
  ASSUME IInv, NEW id, CancelTask(id)
  PROVE  IInv'
  <1>1. PICK i \in InUse :
            /\ SetsStatus(i, "FAILED")
            /\ Pending(i)
            /\ failed_tasks' = failed_tasks + 1
            /\ UNCHANGED <<completed_tasks, executing>>
    BY CancelEffect
  <1>2. InUse' = InUse /\ InUse \subseteq Cell
    BY <1>1, InUseIsCell DEF SetsStatus, InUse, IInv
  <1>3. TypeOK'
    BY <1>1 DEF IInv, TypeOK, SetsStatus
  <1>4. ExecutingIsRunning'
    <2>1. SUFFICES ASSUME NEW e \in executing
                   PROVE  \E j \in InUse : tasks'[j].id = e /\ tasks'[j].status = "RUNNING"
      BY <1>1, <1>2 DEF ExecutingIsRunning, TasksOf
    <2>2. PICK j \in InUse : tasks[j].id = e /\ tasks[j].status = "RUNNING"
      BY DEF IInv, ExecutingIsRunning, TasksOf
    <2>3. QED
      BY <1>1, <1>2, <2>2 DEF SetsStatus, Pending
  <1>5. QED
    BY <1>1, <1>3, <1>4, SetsStatusKeepsKeys DEF KeyInv, IInv

\* A report ends the holding of the task, so the other holders keep theirs.
LEMMA ReportInv ==
  ASSUME IInv, NEW id \in executing, NEW s \in Terminal, NEW stamped \in BOOLEAN,
         UpdateTaskStatus(id, s, stamped),
         executing' = executing \ {id},
         UNCHANGED <<size, next_task_id, total_tasks, now>>
  PROVE  IInv'
  <1>1. PICK i \in InUse :
            /\ SetsStatus(i, s)
            /\ tasks[i].id = id
            /\ tasks[i].status = "RUNNING"
            /\ completed_tasks' = completed_tasks + (IF s = "COMPLETED" THEN 1 ELSE 0)
            /\ failed_tasks' = failed_tasks + (IF s = "FAILED" THEN 1 ELSE 0)
    BY ReportEffect
  <1>2. InUse' = InUse /\ InUse \subseteq Cell
    BY <1>1, InUseIsCell DEF SetsStatus, InUse, IInv
  <1>3. TypeOK'
    BY <1>1 DEF IInv, TypeOK, SetsStatus
  <1>4. ExecutingIsRunning'
    <2>1. SUFFICES ASSUME NEW e \in executing, e # id
                   PROVE  \E j \in InUse : tasks'[j].id = e /\ tasks'[j].status = "RUNNING"
      BY <1>2 DEF ExecutingIsRunning, TasksOf
    <2>2. PICK j \in InUse : tasks[j].id = e /\ tasks[j].status = "RUNNING"
      BY DEF IInv, ExecutingIsRunning, TasksOf
    <2>3. QED
      BY <1>1, <1>2, <2>1, <2>2 DEF SetsStatus
  <1>5. QED
    BY <1>1, <1>3, <1>4, SetsStatusKeepsKeys DEF KeyInv, IInv

LEMMA IdleInv ==
  ASSUME IInv,
         UNCHANGED <<tasks, size, next_task_id, total_tasks, completed_tasks, failed_tasks>>,
         executing' \subseteq executing, now' \in Nat \ {0}
  PROVE  IInv'
  BY DEF IInv, TypeOK, IdsIssued, IdsDistinct, QueueOrdered, ExecutingIsRunning, TasksOf,
     InUse

LEMMA NextInv == IInv /\ [Next]_vars => IInv'
  <1> SUFFICES ASSUME IInv, [Next]_vars
               PROVE  IInv'
    OBVIOUS
  <1>1. CASE \E p \in Priority : EnqueueTask(p)
    BY <1>1, EnqueueInv
  <1>2. CASE DequeueTask
    BY <1>2, DequeueInv
  <1>3. ASSUME NEW id \in executing, Complete(id)
        PROVE  IInv'
    <2>1. "COMPLETED" \in Terminal /\ TRUE \in BOOLEAN
      BY DEF Terminal
    <2>2. QED
      BY <1>3, <2>1, ReportInv DEF Complete
  <1>4. ASSUME NEW id \in executing, LaunchFails(id)
        PROVE  IInv'
    <2>1. "FAILED" \in Terminal /\ FALSE \in BOOLEAN
      BY DEF Terminal
    <2>2. QED
      BY <1>4, <2>1, ReportInv DEF LaunchFails
  <1>5. ASSUME NEW ids \in SUBSET executing, WorkerLost(ids)
        PROVE  IInv'
    BY <1>5, IdleInv DEF WorkerLost, IInv, TypeOK
  <1>6. ASSUME NEW id, CancelTask(id)
        PROVE  IInv'
    BY <1>6, CancelInv
  <1>7. CASE Tick
    BY <1>7, IdleInv DEF Tick, IInv, TypeOK
  <1>8. CASE RemoveCompletedTasks
    BY <1>8, RemoveInv
  <1>9. CASE UNCHANGED vars
    BY <1>9, IdleInv DEF vars, IInv, TypeOK
  <1>10. QED
    BY <1>1, <1>2, <1>3, <1>4, <1>5, <1>6, <1>7, <1>8, <1>9 DEF Next, Activity

LEMMA Invariance == Spec => []IInv
  BY InitInv, NextInv, PTL DEF Spec

\* The array, the counters and the holders keep their types for every capacity;
\* in particular size never exceeds MAX_TASKS and no counter goes below zero.
THEOREM TypeCorrect == Spec => []TypeOK
  BY Invariance, PTL DEF IInv

\* The array is always sorted by priority and, within a priority, by age, as
\* the binary search of enqueue_task and the workers' scan assume.
THEOREM AlwaysOrdered == Spec => []QueueOrdered
  BY Invariance, PTL DEF IInv

\* Nobody touches a task while a worker holds it.
THEOREM HeldTasksAreRunning == Spec => []ExecutingIsRunning
  BY Invariance, PTL DEF IInv

-----------------------------------------------------------------------------
\* The effect of the operations on the sets of unfinished tasks, on which both
\* the statistics and the abstract schedule depend.

LEMMA InitSets == Init => Waiting = {} /\ TasksOf("PENDING") = {} /\ TasksOf("RUNNING") = {}
  BY DEF Init, Waiting, TasksOf, InUse

LEMMA EnqueueSets ==
  ASSUME IInv, NEW p \in Priority, EnqueueTask(p)
  PROVE  /\ Waiting' = Waiting \cup {[id |-> next_task_id, priority |-> p]}
         /\ TasksOf("PENDING")' = TasksOf("PENDING") \cup {next_task_id}
         /\ TasksOf("RUNNING")' = TasksOf("RUNNING")
  <1> USE QueueAssumption
  <1>1. PICK pos \in 0..size : InsertAt(pos, p)
    BY DEF EnqueueTask
  <1>2. size \in Nat /\ size < MAX_TASKS /\ size' = size + 1
    BY <1>1 DEF EnqueueTask, is_queue_full, InsertAt, IInv, TypeOK
  <1>3. /\ pos \in InUse' /\ tasks'[pos] = NewTask(p)
        /\ \A i \in InUse : i < pos => i \in InUse' /\ tasks'[i] = tasks[i]
        /\ \A i \in InUse : i >= pos => i+1 \in InUse' /\ tasks'[i+1] = tasks[i]
        /\ \A i \in InUse' : \/ i = pos
                             \/ i \in InUse /\ tasks'[i] = tasks[i]
                             \/ i-1 \in InUse /\ tasks'[i] = tasks[i-1]
    BY <1>1, <1>2 DEF InsertAt, InUse, Cell
  <1>4. \A i \in InUse : \E j \in InUse' : tasks'[j] = tasks[i]
    <2>1. \A i \in InUse : i < pos \/ i >= pos
      BY <1>2 DEF InUse
    <2>2. QED
      BY <1>3, <2>1
  <1>5. \A i \in InUse' : i = pos \/ \E j \in InUse : tasks'[i] = tasks[j]
    BY <1>3
  <1>6. /\ NewTask(p).id = next_task_id /\ NewTask(p).priority = p
        /\ NewTask(p).status = "PENDING"
    BY DEF NewTask
  <1>7. Waiting' = Waiting \cup {[id |-> next_task_id, priority |-> p]}
    <2>1. ASSUME NEW w \in Waiting'
          PROVE  w \in Waiting \/ w = [id |-> next_task_id, priority |-> p]
      <3>1. PICK i \in InUse' : /\ w = [id |-> tasks'[i].id, priority |-> tasks'[i].priority]
                                /\ tasks'[i].status = "PENDING"
        BY <2>1 DEF Waiting, Entry, Pending
      <3>2. CASE i = pos
        BY <1>3, <1>6, <3>1, <3>2
      <3>3. CASE \E j \in InUse : tasks'[i] = tasks[j]
        BY <3>1, <3>3 DEF Waiting, Entry, Pending
      <3>4. QED
        BY <1>5, <3>2, <3>3
    <2>2. ASSUME NEW w \in Waiting
          PROVE  w \in Waiting'
      <3>1. PICK i \in InUse : w = Entry(i) /\ Pending(i)
        BY <2>2 DEF Waiting
      <3>2. PICK j \in InUse' : tasks'[j] = tasks[i]
        BY <1>4
      <3>3. Pending(j)' /\ w = Entry(j)'
        BY <3>1, <3>2 DEF Pending, Entry
      <3>4. QED
        BY <3>3 DEF Waiting
    <2>3. [id |-> next_task_id, priority |-> p] \in Waiting'
      <3>1. Pending(pos)' /\ Entry(pos)' = [id |-> next_task_id, priority |-> p]
        BY <1>3, <1>6 DEF Pending, Entry
      <3>2. QED
        BY <1>3, <3>1 DEF Waiting
    <2>4. QED
      BY <2>1, <2>2, <2>3
  <1>8. TasksOf("PENDING")' = TasksOf("PENDING") \cup {next_task_id}
    BY <1>3, <1>4, <1>5, <1>6 DEF TasksOf
  <1>9. TasksOf("RUNNING")' = TasksOf("RUNNING")
    BY <1>3, <1>4, <1>5, <1>6 DEF TasksOf
  <1>10. QED
    BY <1>7, <1>8, <1>9

\* A task stops waiting: it starts, or it is cancelled.
LEMMA LeavesWaiting ==
  ASSUME IInv, NEW i \in InUse, Pending(i), NEW s \in {"RUNNING", "FAILED"},
         SetsStatus(i, s)
  PROVE  /\ Entry(i) \in Waiting
         /\ tasks[i].id \in TasksOf("PENDING")
         /\ tasks[i].id \notin TasksOf("RUNNING")
         /\ Waiting' = Waiting \ {Entry(i)}
         /\ TasksOf("PENDING")' = TasksOf("PENDING") \ {tasks[i].id}
         /\ TasksOf("RUNNING")' =
              IF s = "RUNNING" THEN TasksOf("RUNNING") \cup {tasks[i].id}
                               ELSE TasksOf("RUNNING")
  <1>1. /\ InUse' = InUse
        /\ \A j \in InUse : /\ tasks'[j].id = tasks[j].id
                            /\ tasks'[j].priority = tasks[j].priority
                            /\ tasks'[j].status = IF j = i THEN s ELSE tasks[j].status
    BY InUseIsCell DEF SetsStatus, InUse, IInv
  <1>2. \A j \in InUse : tasks[j].id = tasks[i].id => j = i
    BY DEF IInv, IdsDistinct
  <1>3. tasks[i].status = "PENDING"
    BY DEF Pending
  <1>4. Entry(i) \in Waiting
    BY DEF Waiting
  <1>5. tasks[i].id \in TasksOf("PENDING") /\ tasks[i].id \notin TasksOf("RUNNING")
    BY <1>2, <1>3 DEF TasksOf
  <1>6. TasksOf("PENDING")' = TasksOf("PENDING") \ {tasks[i].id}
    BY <1>1, <1>2, <1>3 DEF TasksOf
  <1>7. TasksOf("RUNNING")' = IF s = "RUNNING" THEN TasksOf("RUNNING") \cup {tasks[i].id}
                                               ELSE TasksOf("RUNNING")
    BY <1>1, <1>2, <1>3 DEF TasksOf
  <1>8. Waiting' = Waiting \ {Entry(i)}
    <2>1. \A j \in InUse : Entry(j)' = Entry(j)
      BY <1>1 DEF Entry
    <2>2. \A j \in InUse : Pending(j)' <=> Pending(j) /\ j # i
      BY <1>1, <1>3 DEF Pending
    <2>3. \A j \in InUse : Entry(j) = Entry(i) => j = i
      BY <1>2 DEF Entry
    <2>4. QED
      BY <1>1, <2>1, <2>2, <2>3 DEF Waiting
  <1>9. QED
    BY <1>4, <1>5, <1>6, <1>7, <1>8

\* A started task gets its outcome.
LEMMA LeavesRunning ==
  ASSUME IInv, NEW i \in InUse, tasks[i].status = "RUNNING", NEW s \in Terminal,
         SetsStatus(i, s)
  PROVE  /\ tasks[i].id \in TasksOf("RUNNING")
         /\ Waiting' = Waiting
         /\ TasksOf("PENDING")' = TasksOf("PENDING")
         /\ TasksOf("RUNNING")' = TasksOf("RUNNING") \ {tasks[i].id}
  <1>1. /\ InUse' = InUse
        /\ \A j \in InUse : /\ tasks'[j].id = tasks[j].id
                            /\ tasks'[j].priority = tasks[j].priority
                            /\ tasks'[j].status = IF j = i THEN s ELSE tasks[j].status
    BY InUseIsCell DEF SetsStatus, InUse, IInv
  <1>2. \A j \in InUse : tasks[j].id = tasks[i].id => j = i
    BY DEF IInv, IdsDistinct
  <1>3. tasks[i].id \in TasksOf("RUNNING")
    BY DEF TasksOf
  <1>4. TasksOf("PENDING")' = TasksOf("PENDING")
    BY <1>1 DEF TasksOf, Terminal
  <1>5. TasksOf("RUNNING")' = TasksOf("RUNNING") \ {tasks[i].id}
    BY <1>1, <1>2 DEF TasksOf, Terminal
  <1>6. Waiting' = Waiting
    <2>1. \A j \in InUse : Entry(j)' = Entry(j)
      BY <1>1 DEF Entry
    <2>2. \A j \in InUse : Pending(j)' <=> Pending(j)
      BY <1>1 DEF Pending, Terminal
    <2>3. QED
      BY <1>1, <2>1, <2>2 DEF Waiting
  <1>7. QED
    BY <1>3, <1>4, <1>5, <1>6

\* Compaction removes only tasks with an outcome.
LEMMA RemoveSets ==
  ASSUME IInv, RemoveCompletedTasks
  PROVE  /\ Waiting' = Waiting
         /\ TasksOf("PENDING")' = TasksOf("PENDING")
         /\ TasksOf("RUNNING")' = TasksOf("RUNNING")
  <1>1. PICK n \in 0..size : \E from \in [0..(n-1) -> InUse] :
            /\ \A i \in InUse : ~ Outdated(i) => \E j \in 0..(n-1) : from[j] = i
            /\ \A j \in 0..(n-1) : tasks'[j] = tasks[from[j]]
            /\ size' = n
    BY RemoveEffect
  <1>2. PICK from \in [0..(n-1) -> InUse] :
            /\ \A i \in InUse : ~ Outdated(i) => \E j \in 0..(n-1) : from[j] = i
            /\ \A j \in 0..(n-1) : tasks'[j] = tasks[from[j]]
            /\ size' = n
    BY <1>1
  <1>3. InUse' = 0..(n-1)
    BY <1>2 DEF InUse
  <1>4. \A j \in InUse' : \E i \in InUse : tasks'[j] = tasks[i]
    <2>1. \A j \in 0..(n-1) : from[j] \in InUse
      OBVIOUS
    <2>2. QED
      BY <1>2, <1>3, <2>1
  <1>5. \A i \in InUse : tasks[i].status \notin Terminal =>
                           \E j \in InUse' : tasks'[j] = tasks[i]
    BY <1>2, <1>3 DEF Outdated
  <1>6. TasksOf("PENDING")' = TasksOf("PENDING")
    BY <1>4, <1>5 DEF TasksOf, Terminal
  <1>7. TasksOf("RUNNING")' = TasksOf("RUNNING")
    BY <1>4, <1>5 DEF TasksOf, Terminal
  <1>8. Waiting' = Waiting
    <2>1. ASSUME NEW w \in Waiting'
          PROVE  w \in Waiting
      <3>1. PICK j \in InUse' : w = Entry(j)' /\ Pending(j)'
        BY <2>1 DEF Waiting
      <3>2. PICK i \in InUse : tasks'[j] = tasks[i]
        BY <1>4
      <3>3. Pending(i) /\ w = Entry(i)
        BY <3>1, <3>2 DEF Pending, Entry
      <3>4. QED
        BY <3>3 DEF Waiting
    <2>2. ASSUME NEW w \in Waiting
          PROVE  w \in Waiting'
      <3>1. PICK i \in InUse : w = Entry(i) /\ Pending(i)
        BY <2>2 DEF Waiting
      <3>2. PICK j \in InUse' : tasks'[j] = tasks[i]
        BY <1>5, <3>1 DEF Pending, Terminal
      <3>3. Pending(j)' /\ w = Entry(j)'
        BY <3>1, <3>2 DEF Pending, Entry
      <3>4. QED
        BY <3>3 DEF Waiting
    <2>3. QED
      BY <2>1, <2>2
  <1>9. QED
    BY <1>6, <1>7, <1>8

-----------------------------------------------------------------------------
LEMMA FiniteTasks ==
  ASSUME IInv, NEW s
  PROVE  /\ IsFiniteSet(TasksOf(s))
         /\ Cardinality(TasksOf(s)) \in Nat
  <1>1. next_task_id - 1 \in Int
    BY DEF IInv, TypeOK
  <1>2. TasksOf(s) \in SUBSET (1..(next_task_id - 1))
    BY DEF IInv, IdsIssued, TasksOf
  <1>3. IsFiniteSet(TasksOf(s))
    BY <1>1, <1>2, FS_Interval, FS_Subset
  <1>4. QED
    BY <1>3, FS_CardinalityType

LEMMA OneMore ==
  ASSUME NEW S, IsFiniteSet(S), NEW x, x \notin S, NEW T, T = S \cup {x}
  PROVE  Cardinality(T) = Cardinality(S) + 1
  BY FS_AddElement

LEMMA OneLess ==
  ASSUME NEW S, IsFiniteSet(S), NEW x, x \in S, NEW T, T = S \ {x}
  PROVE  Cardinality(T) = Cardinality(S) - 1
  BY FS_RemoveElement

LEMMA BalanceInductive == IInv /\ StatisticsBalance /\ [Next]_vars => StatisticsBalance'
  <1> SUFFICES ASSUME IInv, StatisticsBalance, [Next]_vars
               PROVE  StatisticsBalance'
    OBVIOUS
  <1> DEFINE P == TasksOf("PENDING")
             R == TasksOf("RUNNING")
  <1>1. /\ IsFiniteSet(P) /\ Cardinality(P) \in Nat
        /\ IsFiniteSet(R) /\ Cardinality(R) \in Nat
    BY FiniteTasks
  <1>2. total_tasks \in Nat /\ completed_tasks \in Nat /\ failed_tasks \in Nat
    BY DEF IInv, TypeOK
  <1>3. total_tasks = Cardinality(P) + Cardinality(R) + completed_tasks + failed_tasks
    BY DEF StatisticsBalance
  <1>4. SUFFICES total_tasks' = Cardinality(P') + Cardinality(R')
                                  + completed_tasks' + failed_tasks'
    BY DEF StatisticsBalance
  <1> HIDE DEF P, R
  <1>5. ASSUME NEW p \in Priority, EnqueueTask(p)
        PROVE  total_tasks' = Cardinality(P') + Cardinality(R')
                                  + completed_tasks' + failed_tasks'
    <2>1. next_task_id \notin P
      BY DEF IInv, TypeOK, IdsIssued, TasksOf, P
    <2>2. P' = P \cup {next_task_id} /\ R' = R
      BY <1>5, EnqueueSets DEF P, R
    <2>3. Cardinality(P') = Cardinality(P) + 1
      BY <1>1, <2>1, <2>2, OneMore
    <2>4. total_tasks' = total_tasks + 1 /\ UNCHANGED <<completed_tasks, failed_tasks>>
      BY <1>5 DEF EnqueueTask, InsertAt
    <2>5. QED
      BY <1>1, <1>2, <1>3, <2>2, <2>3, <2>4
  <1>6. CASE DequeueTask
    <2>1. PICK i \in InUse : /\ SetsStatus(i, "RUNNING")
                             /\ Pending(i)
                             /\ UNCHANGED <<completed_tasks, failed_tasks>>
      BY <1>6, DequeueEffect DEF FirstPending
    <2>2. /\ tasks[i].id \in P /\ tasks[i].id \notin R
          /\ P' = P \ {tasks[i].id} /\ R' = R \cup {tasks[i].id}
      BY <2>1, LeavesWaiting DEF P, R
    <2>3. Cardinality(P') = Cardinality(P) - 1
      BY <1>1, <2>2, OneLess
    <2>4. Cardinality(R') = Cardinality(R) + 1
      BY <1>1, <2>2, OneMore
    <2>5. QED
      BY <1>1, <1>2, <1>3, <2>1, <2>3, <2>4 DEF SetsStatus
  <1>7. ASSUME NEW id \in executing, NEW s \in Terminal, NEW stamped \in BOOLEAN,
               UpdateTaskStatus(id, s, stamped),
               UNCHANGED <<size, next_task_id, total_tasks, now>>
        PROVE  total_tasks' = Cardinality(P') + Cardinality(R')
                                  + completed_tasks' + failed_tasks'
    <2>1. PICK i \in InUse :
            /\ SetsStatus(i, s)
            /\ tasks[i].status = "RUNNING"
            /\ completed_tasks' = completed_tasks + (IF s = "COMPLETED" THEN 1 ELSE 0)
            /\ failed_tasks' = failed_tasks + (IF s = "FAILED" THEN 1 ELSE 0)
      BY <1>7, ReportEffect
    <2>2. tasks[i].id \in R /\ P' = P /\ R' = R \ {tasks[i].id}
      BY <2>1, LeavesRunning DEF P, R
    <2>3. Cardinality(R') = Cardinality(R) - 1
      BY <1>1, <2>2, OneLess
    <2>4. Cardinality(P') = Cardinality(P) /\ total_tasks' = total_tasks
      BY <1>7, <2>2
    <2>5. \/ completed_tasks' = completed_tasks + 1 /\ failed_tasks' = failed_tasks
          \/ completed_tasks' = completed_tasks /\ failed_tasks' = failed_tasks + 1
      BY <1>2, <2>1 DEF Terminal
    <2>6. QED
      BY <1>1, <1>2, <1>3, <2>3, <2>4, <2>5
  <1>8. ASSUME NEW id \in executing, Complete(id) \/ LaunchFails(id)
        PROVE  total_tasks' = Cardinality(P') + Cardinality(R')
                                  + completed_tasks' + failed_tasks'
    <2>1. "COMPLETED" \in Terminal /\ "FAILED" \in Terminal
      BY DEF Terminal
    <2>2. QED
      BY <1>7, <1>8, <2>1 DEF Complete, LaunchFails
  <1>9. ASSUME NEW id, CancelTask(id)
        PROVE  total_tasks' = Cardinality(P') + Cardinality(R')
                                  + completed_tasks' + failed_tasks'
    <2>1. PICK i \in InUse : /\ SetsStatus(i, "FAILED")
                             /\ Pending(i)
                             /\ failed_tasks' = failed_tasks + 1
                             /\ UNCHANGED completed_tasks
      BY <1>9, CancelEffect
    <2>2. tasks[i].id \in P /\ P' = P \ {tasks[i].id} /\ R' = R
      BY <2>1, LeavesWaiting DEF P, R
    <2>3. Cardinality(P') = Cardinality(P) - 1
      BY <1>1, <2>2, OneLess
    <2>4. QED
      BY <1>1, <1>2, <1>3, <2>1, <2>2, <2>3 DEF SetsStatus
  <1>10. CASE RemoveCompletedTasks
    BY <1>3, <1>10, RemoveSets DEF RemoveCompletedTasks, P, R
  <1>11. CASE \/ \E ids \in SUBSET executing : WorkerLost(ids)
              \/ Tick
              \/ UNCHANGED vars
    <2>1. UNCHANGED <<tasks, size, total_tasks, completed_tasks, failed_tasks>>
      BY <1>11 DEF WorkerLost, Tick, vars
    <2>2. P' = P /\ R' = R
      BY <2>1 DEF TasksOf, InUse, P, R
    <2>3. QED
      BY <1>3, <2>1, <2>2
  <1>12. QED
    BY <1>5, <1>6, <1>8, <1>9, <1>10, <1>11 DEF Next, Activity

\* Every task ever submitted is accounted for exactly once, for ever: the
\* counters and the unfinished tasks add up to total_tasks.
THEOREM StatisticsAlwaysBalance == Spec => []StatisticsBalance
  <1>1. Init => StatisticsBalance
    BY InitSets, FS_EmptySet DEF Init, StatisticsBalance
  <1>2. QED
    BY <1>1, BalanceInductive, Invariance, PTL DEF Spec

-----------------------------------------------------------------------------
\* Nobody waiting is served before the first pending task of a sorted array.
LEMMA FirstPendingIsMostUrgent ==
  ASSUME IInv, NEW i \in InUse, FirstPending(i)
  PROVE  \A w \in Waiting \ {Entry(i)} : Schedule!Before(Entry(i), w)
  <1>1. SUFFICES ASSUME NEW w \in Waiting, w # Entry(i)
                 PROVE  Schedule!Before(Entry(i), w)
    OBVIOUS
  <1>2. PICK j \in InUse : w = Entry(j) /\ Pending(j)
    BY DEF Waiting
  <1>3. i < j
    BY <1>1, <1>2 DEF FirstPending, InUse
  <1>4. \/ tasks[i].priority < tasks[j].priority
        \/ tasks[i].priority = tasks[j].priority /\ tasks[i].id < tasks[j].id
    BY <1>3 DEF IInv, QueueOrdered
  <1>5. QED
    BY <1>2, <1>4 DEF Schedule!Before, Entry

LEMMA StepImplements == IInv /\ [Next]_vars => [Schedule!Next]_(Schedule!vars)
  <1> SUFFICES ASSUME IInv, [Next]_vars
               PROVE  Schedule!Next \/ UNCHANGED Schedule!vars
    OBVIOUS
  <1>1. ASSUME NEW p \in Priority, EnqueueTask(p)
        PROVE  Schedule!Submit(p)
    BY <1>1, EnqueueSets DEF EnqueueTask, InsertAt, Schedule!Submit
  <1>2. ASSUME DequeueTask
        PROVE  \E t \in Waiting : Schedule!Start(t)
    <2>1. PICK i \in InUse : /\ SetsStatus(i, "RUNNING")
                             /\ FirstPending(i)
                             /\ UNCHANGED <<completed_tasks, failed_tasks>>
      BY <1>2, DequeueEffect
    <2>2. /\ Entry(i) \in Waiting
          /\ Waiting' = Waiting \ {Entry(i)}
          /\ TasksOf("RUNNING")' = TasksOf("RUNNING") \cup {tasks[i].id}
      BY <2>1, LeavesWaiting DEF FirstPending
    <2>3. Entry(i).id = tasks[i].id
      BY DEF Entry
    <2>4. Schedule!Start(Entry(i))
      BY <2>1, <2>2, <2>3, FirstPendingIsMostUrgent DEF Schedule!Start, SetsStatus
    <2>5. QED
      BY <2>2, <2>4
  <1>3. ASSUME NEW id \in executing, Complete(id)
        PROVE  \E r \in TasksOf("RUNNING") : Schedule!Finish(r)
    <2>1. PICK i \in InUse : /\ SetsStatus(i, "COMPLETED")
                             /\ tasks[i].status = "RUNNING"
                             /\ completed_tasks' = completed_tasks + 1
                             /\ failed_tasks' = failed_tasks + 0
      BY <1>3, ReportEffect DEF Complete, Terminal
    <2>2. /\ tasks[i].id \in TasksOf("RUNNING")
          /\ Waiting' = Waiting
          /\ TasksOf("RUNNING")' = TasksOf("RUNNING") \ {tasks[i].id}
      BY <2>1, LeavesRunning DEF Terminal
    <2>3. failed_tasks' = failed_tasks
      BY <2>1 DEF IInv, TypeOK
    <2>4. Schedule!Finish(tasks[i].id)
      BY <2>1, <2>2, <2>3 DEF Schedule!Finish, SetsStatus
    <2>5. QED
      BY <2>2, <2>4
  <1>4. ASSUME NEW id \in executing, LaunchFails(id)
        PROVE  \E r \in TasksOf("RUNNING") : Schedule!Fail(r)
    <2>1. PICK i \in InUse : /\ SetsStatus(i, "FAILED")
                             /\ tasks[i].status = "RUNNING"
                             /\ completed_tasks' = completed_tasks + 0
                             /\ failed_tasks' = failed_tasks + 1
      BY <1>4, ReportEffect DEF LaunchFails, Terminal
    <2>2. /\ tasks[i].id \in TasksOf("RUNNING")
          /\ Waiting' = Waiting
          /\ TasksOf("RUNNING")' = TasksOf("RUNNING") \ {tasks[i].id}
      BY <2>1, LeavesRunning DEF Terminal
    <2>3. completed_tasks' = completed_tasks
      BY <2>1 DEF IInv, TypeOK
    <2>4. Schedule!Fail(tasks[i].id)
      BY <2>1, <2>2, <2>3 DEF Schedule!Fail, SetsStatus
    <2>5. QED
      BY <2>2, <2>4
  <1>5. ASSUME NEW id, CancelTask(id)
        PROVE  \E t \in Waiting : Schedule!Withdraw(t)
    <2>1. PICK i \in InUse : /\ SetsStatus(i, "FAILED")
                             /\ Pending(i)
                             /\ failed_tasks' = failed_tasks + 1
                             /\ UNCHANGED completed_tasks
      BY <1>5, CancelEffect
    <2>2. /\ Entry(i) \in Waiting
          /\ Waiting' = Waiting \ {Entry(i)}
          /\ TasksOf("RUNNING")' = TasksOf("RUNNING")
      BY <2>1, LeavesWaiting
    <2>3. Schedule!Withdraw(Entry(i))
      BY <2>1, <2>2 DEF Schedule!Withdraw, SetsStatus
    <2>4. QED
      BY <2>2, <2>3
  <1>6. ASSUME RemoveCompletedTasks
        PROVE  UNCHANGED Schedule!vars
    BY <1>6, RemoveSets DEF RemoveCompletedTasks, Schedule!vars
  <1>7. CASE \/ \E ids \in SUBSET executing : WorkerLost(ids)
             \/ Tick
             \/ UNCHANGED vars
    <2>1. UNCHANGED <<tasks, size, next_task_id, completed_tasks, failed_tasks>>
      BY <1>7 DEF WorkerLost, Tick, vars
    <2>2. QED
      BY <2>1 DEF Schedule!vars, Waiting, TasksOf, InUse, Entry, Pending
  <1>8. QED
    BY <1>1, <1>2, <1>3, <1>4, <1>5, <1>6, <1>7 DEF Next, Activity, Schedule!Next,
       Priority, Schedule!Priority, PRIORITY_HIGH, PRIORITY_MEDIUM, PRIORITY_LOW,
       Schedule!PRIORITY_HIGH, Schedule!PRIORITY_MEDIUM, Schedule!PRIORITY_LOW

\* The array implements the abstract schedule for every capacity: the most
\* urgent waiting task is the one that starts, no task starts twice, and every
\* outcome is counted once.
THEOREM QueueImplementsSchedule == Spec => ImplementsSchedule
  <1>1. Init => Schedule!Init
    BY InitSets DEF Init, Schedule!Init
  <1>2. QED
    BY <1>1, StepImplements, Invariance, PTL DEF Spec, ImplementsSchedule, Schedule!Spec

-----------------------------------------------------------------------------
\* Where the tasks of the array come from and go to in one step.

LEMMA EnqueueMoves ==
  ASSUME IInv, NEW p \in Priority, EnqueueTask(p)
  PROVE  /\ \A i \in InUse : \E j \in InUse' : tasks'[j] = tasks[i]
         /\ \A j \in InUse' : \/ tasks'[j].id = next_task_id
                              \/ \E i \in InUse : tasks'[j] = tasks[i]
  <1> USE QueueAssumption
  <1>1. PICK pos \in 0..size : InsertAt(pos, p)
    BY DEF EnqueueTask
  <1>2. size \in Nat /\ size < MAX_TASKS /\ size' = size + 1
    BY <1>1 DEF EnqueueTask, is_queue_full, InsertAt, IInv, TypeOK
  <1>3. /\ tasks'[pos].id = next_task_id
        /\ \A i \in InUse : i < pos => i \in InUse' /\ tasks'[i] = tasks[i]
        /\ \A i \in InUse : i >= pos => i+1 \in InUse' /\ tasks'[i+1] = tasks[i]
        /\ \A i \in InUse' : \/ i = pos
                             \/ i \in InUse /\ tasks'[i] = tasks[i]
                             \/ i-1 \in InUse /\ tasks'[i] = tasks[i-1]
    BY <1>1, <1>2 DEF InsertAt, InUse, Cell, NewTask
  <1>4. \A i \in InUse : i < pos \/ i >= pos
    BY <1>2 DEF InUse
  <1>5. QED
    BY <1>3, <1>4

LEMMA RemoveMoves ==
  ASSUME IInv, RemoveCompletedTasks
  PROVE  /\ \A i \in InUse : ~ Outdated(i) => \E j \in InUse' : tasks'[j] = tasks[i]
         /\ \A j \in InUse' : \E i \in InUse : tasks'[j] = tasks[i]
  <1>1. PICK n \in 0..size : \E from \in [0..(n-1) -> InUse] :
            /\ \A i \in InUse : ~ Outdated(i) => \E j \in 0..(n-1) : from[j] = i
            /\ \A j \in 0..(n-1) : tasks'[j] = tasks[from[j]]
            /\ size' = n
    BY RemoveEffect
  <1>2. PICK from \in [0..(n-1) -> InUse] :
            /\ \A i \in InUse : ~ Outdated(i) => \E j \in 0..(n-1) : from[j] = i
            /\ \A j \in 0..(n-1) : tasks'[j] = tasks[from[j]]
            /\ size' = n
    BY <1>1
  <1>3. InUse' = 0..(n-1) /\ \A j \in 0..(n-1) : from[j] \in InUse
    BY <1>2 DEF InUse
  <1>4. QED
    BY <1>2, <1>3

\* Every step other than an insertion or a compaction leaves the array alone or
\* writes one status, and then an admissible one.
LEMMA OtherSteps ==
  ASSUME IInv, [Activity]_vars
  PROVE  \/ \E p \in Priority : EnqueueTask(p)
         \/ UNCHANGED <<tasks, size>>
         \/ \E i \in InUse, s \in TaskStatus :
               /\ SetsStatus(i, s)
               /\ \/ tasks[i].status = "PENDING" /\ s \in {"RUNNING", "FAILED"}
                  \/ tasks[i].status = "RUNNING" /\ s \in Terminal
  <1>1. ASSUME DequeueTask
        PROVE  \E i \in InUse : SetsStatus(i, "RUNNING") /\ tasks[i].status = "PENDING"
    BY <1>1, DequeueEffect DEF FirstPending, Pending
  <1>2. ASSUME NEW id, CancelTask(id)
        PROVE  \E i \in InUse : SetsStatus(i, "FAILED") /\ tasks[i].status = "PENDING"
    BY <1>2, CancelEffect DEF Pending
  <1>3. ASSUME NEW id \in executing, Complete(id)
        PROVE  \E i \in InUse : SetsStatus(i, "COMPLETED") /\ tasks[i].status = "RUNNING"
    BY <1>3, ReportEffect DEF Complete, Terminal
  <1>4. ASSUME NEW id \in executing, LaunchFails(id)
        PROVE  \E i \in InUse : SetsStatus(i, "FAILED") /\ tasks[i].status = "RUNNING"
    BY <1>4, ReportEffect DEF LaunchFails, Terminal
  <1>5. CASE \/ \E ids \in SUBSET executing : WorkerLost(ids)
             \/ Tick
             \/ UNCHANGED vars
    BY <1>5 DEF WorkerLost, Tick, vars
  <1>6. QED
    BY <1>1, <1>2, <1>3, <1>4, <1>5 DEF Activity, TaskStatus, Terminal

LEMMA StepKeeps == IInv /\ [Next]_vars => [KeepsWhatIsNotOutdated]_vars
  <1> DEFINE Stays(i) == \E j \in 0..(size' - 1) : tasks'[j].id = tasks[i].id
  <1> SUFFICES ASSUME IInv, [Next]_vars
               PROVE  \A i \in InUse : Outdated(i) \/ Stays(i)
    BY DEF KeepsWhatIsNotOutdated
  <1>1. InUse' = 0..(size' - 1)
    BY DEF InUse
  <1>2. CASE \E p \in Priority : EnqueueTask(p)
    BY <1>1, <1>2, EnqueueMoves
  <1>3. CASE RemoveCompletedTasks
    BY <1>1, <1>3, RemoveMoves
  <1>4. CASE UNCHANGED <<tasks, size>>
    BY <1>4 DEF InUse
  <1>5. ASSUME NEW i \in InUse, NEW s \in TaskStatus, SetsStatus(i, s)
        PROVE  \A k \in InUse : Stays(k)
    BY <1>1, <1>5, InUseIsCell DEF SetsStatus, InUse, IInv
  <1>6. QED
    BY <1>2, <1>3, <1>4, <1>5, OtherSteps DEF Next, vars

\* Compaction takes nothing but old results out of the array, and nothing else
\* takes anything out of it.
THEOREM NothingElseLeaves == Spec => OnlyOutdatedLeave
  BY StepKeeps, Invariance, PTL DEF Spec, OnlyOutdatedLeave

LEMMA StepAdvances == IInv /\ [Next]_vars => [MovesAlongLifecycle]_vars
  <1> SUFFICES ASSUME IInv, [Next]_vars, NEW i \in InUse, NEW j \in InUse',
                      tasks'[j].id = tasks[i].id
               PROVE  Advances(tasks[i], tasks'[j])
    BY DEF MovesAlongLifecycle, InUse
  <1>1. ASSUME NEW k \in InUse, tasks'[j] = tasks[k]
        PROVE  tasks'[j] = tasks[i]
    BY <1>1 DEF IInv, IdsDistinct
  <1>2. ASSUME tasks'[j] = tasks[i]
        PROVE  Advances(tasks[i], tasks'[j])
    BY <1>2 DEF Advances
  <1>3. CASE \E p \in Priority : EnqueueTask(p)
    <2>1. tasks[i].id # next_task_id
      BY DEF IInv, TypeOK, IdsIssued
    <2>2. QED
      BY <1>1, <1>2, <1>3, <2>1, EnqueueMoves
  <1>4. CASE RemoveCompletedTasks
    BY <1>1, <1>2, <1>4, RemoveMoves
  <1>5. CASE UNCHANGED <<tasks, size>>
    BY <1>1, <1>2, <1>5 DEF InUse
  <1>6. ASSUME NEW k \in InUse, NEW s \in TaskStatus, SetsStatus(k, s),
               \/ tasks[k].status = "PENDING" /\ s \in {"RUNNING", "FAILED"}
               \/ tasks[k].status = "RUNNING" /\ s \in Terminal
        PROVE  Advances(tasks[i], tasks'[j])
    <2>1. j \in InUse /\ j \in Cell
      BY <1>6, InUseIsCell DEF SetsStatus, InUse, IInv
    <2>2. j = i
      BY <1>6, <2>1 DEF SetsStatus, IInv, IdsDistinct
    <2>3. CASE i = k
      BY <1>6, <2>1, <2>2, <2>3 DEF SetsStatus, Advances
    <2>4. CASE i # k
      BY <1>6, <2>1, <2>2, <2>4 DEF SetsStatus, Advances
    <2>5. QED
      BY <2>3, <2>4
  <1>7. QED
    BY <1>3, <1>4, <1>5, <1>6, OtherSteps DEF Next, vars

\* No outcome is ever overturned and no started task is started again or
\* cancelled, although update_task_status checks no such thing.
THEOREM StatusOnlyAdvances == Spec => LifecycleOnly
  BY StepAdvances, Invariance, PTL DEF Spec, LifecycleOnly
=============================================================================
