------------------------- MODULE TaskCleanup_proof -------------------------
(***************************************************************************)
(* What remove_completed_tasks does achieve, for every capacity and every  *)
(* age limit: the tasks it should have removed and did not are those that  *)
(* failed without a time.  The run that refutes the comment in the code    *)
(* shows one such task; here it is proved that there are no others.        *)
(***************************************************************************)
EXTENDS TaskCleanup, TaskQueue_proof

\* The end_time of a task is the time of its outcome; only a task that its worker
\* could not launch has an outcome and no end_time.
Stamped ==
    \A i \in InUse :
        /\ tasks[i].status \notin Terminal => tasks[i].end_time = 0
        /\ tasks[i].status = "COMPLETED" => tasks[i].end_time # 0
        /\ tasks[i].end_time # 0 => tasks[i].end_time = endedAt[tasks[i].id]

\* What has an end_time and is still there was not old at the last cleanup.
StampedIsRecent ==
    \A i \in InUse :
        tasks[i].end_time # 0 => lastCleanup - tasks[i].end_time <= MaxAge

CleanupInv ==
    /\ IInv
    /\ next_task_id <= LastId + 1
    /\ endedAt \in [1..LastId -> Nat]
    /\ lastCleanup \in 0..now
    /\ Stamped
    /\ StampedIsRecent

\* remove_completed_tasks keeps a task that is unfinished, recent, or one its worker
\* reported as failed without a time.
KeepsOnlyUnfinishedRecentOrUnstamped ==
    \A i \in InUse : tasks[i].status \in Terminal =>
        \/ lastCleanup - endedAt[tasks[i].id] <= MaxAge
        \/ tasks[i].status = "FAILED" /\ tasks[i].end_time = 0

-----------------------------------------------------------------------------
LEMMA CleanupInitInv == CleanupInit => CleanupInv
  <1> SUFFICES ASSUME CleanupInit PROVE CleanupInv
    OBVIOUS
  <1>1. IInv
    BY InitInv DEF CleanupInit
  <1>2. InUse = {}
    BY DEF CleanupInit, Init, InUse
  <1>3. Stamped /\ StampedIsRecent
    BY <1>2 DEF Stamped, StampedIsRecent
  <1>4. /\ next_task_id <= LastId + 1
        /\ endedAt \in [1..LastId -> Nat]
        /\ lastCleanup \in 0..now
    BY QueueAssumption DEF CleanupInit, Init
  <1> QED
    BY <1>1, <1>3, <1>4 DEF CleanupInv

-----------------------------------------------------------------------------
\* Where the tasks of the array come from when it is not cleaned up: untouched, new, or
\* one that was unfinished and got another status, with a time or without.
Kept(j) == \E i \in InUse : tasks'[j] = tasks[i]

New(j) == tasks'[j].status = "PENDING" /\ tasks'[j].end_time = 0

Changed(j) ==
    \E i \in InUse :
        /\ tasks'[j].id = tasks[i].id
        /\ tasks[i].status \notin Terminal
        /\ \/ tasks'[j].status \in Terminal /\ tasks'[j].end_time = now
           \/ /\ tasks'[j].status \in {"RUNNING", "FAILED"}
              /\ tasks'[j].end_time = tasks[i].end_time

\* A cell that gets a status and perhaps a time is the only one that changes.
LEMMA OneCellChanges ==
  ASSUME IInv, NEW i \in InUse, tasks[i].status \notin Terminal,
         NEW s, NEW t, UNCHANGED size,
         tasks' = [tasks EXCEPT ![i].status = s, ![i].end_time = t],
         \/ s \in Terminal /\ t = now
         \/ s \in {"RUNNING", "FAILED"} /\ t = tasks[i].end_time
  PROVE  \A j \in InUse' : Kept(j) \/ Changed(j)
  <1>1. InUse' = InUse /\ InUse \subseteq Cell /\ tasks \in [Cell -> Task]
    BY InUseIsCell DEF IInv, TypeOK, InUse
  <1>2. ASSUME NEW j \in InUse, j # i
        PROVE  Kept(j)
    BY <1>1, <1>2 DEF Kept
  <1>3. tasks'[i].id = tasks[i].id /\ tasks'[i].status = s /\ tasks'[i].end_time = t
    BY <1>1 DEF Task
  <1>4. Changed(i)
    BY <1>3 DEF Changed
  <1> QED
    BY <1>1, <1>2, <1>4

LEMMA DequeueOrigins ==
  ASSUME IInv, DequeueTask
  PROVE  \A j \in InUse' : Kept(j) \/ Changed(j)
  <1>1. PICK i \in InUse : Pending(i) /\ tasks' = [tasks EXCEPT ![i].status = "RUNNING"]
    BY DEF DequeueTask, FirstPending
  <1>2. tasks \in [Cell -> Task] /\ i \in Cell
    BY InUseIsCell DEF IInv, TypeOK
  <1>3. tasks' = [tasks EXCEPT ![i].status = "RUNNING", ![i].end_time = tasks[i].end_time]
    BY <1>1, <1>2 DEF Task
  <1> QED
    BY <1>1, <1>3, OneCellChanges DEF Pending, Terminal, DequeueTask

LEMMA CancelOrigins ==
  ASSUME IInv, NEW id, CancelTask(id)
  PROVE  \A j \in InUse' : Kept(j) \/ Changed(j)
  <1>1. PICK i \in InUse :
           /\ Pending(i)
           /\ tasks' = [tasks EXCEPT ![i].status = "FAILED", ![i].end_time = now]
    BY DEF CancelTask
  <1> QED
    BY <1>1, OneCellChanges DEF Pending, Terminal, CancelTask

\* A report hits the RUNNING task it is about.
LEMMA ReportOrigins ==
  ASSUME IInv, NEW id \in executing, NEW s \in Terminal, NEW stamped \in BOOLEAN,
         stamped \/ s = "FAILED", UpdateTaskStatus(id, s, stamped), UNCHANGED size
  PROVE  \A j \in InUse' : Kept(j) \/ Changed(j)
  <1>1. PICK k \in InUse : tasks[k].id = id /\ tasks[k].status = "RUNNING"
    BY DEF IInv, ExecutingIsRunning, TasksOf
  <1>2. Known(id)
    BY <1>1 DEF Known
  <1>3. PICK i \in InUse :
           /\ Finds(id, i)
           /\ tasks' = [tasks EXCEPT
                 ![i].status = s,
                 ![i].end_time = IF stamped /\ s \in Terminal THEN now ELSE @]
    BY <1>2 DEF UpdateTaskStatus
  <1>4. tasks[i].status = "RUNNING"
    BY <1>1, <1>3 DEF Finds, IInv, IdsDistinct
  <1>5. tasks \in [Cell -> Task] /\ i \in Cell
    BY InUseIsCell DEF IInv, TypeOK
  <1>6. CASE stamped
    <2>1. tasks' = [tasks EXCEPT ![i].status = s, ![i].end_time = now]
      BY <1>3, <1>6
    <2> QED
      BY <1>4, <2>1, OneCellChanges DEF Terminal
  <1>7. CASE ~ stamped
    <2>1. tasks' = [tasks EXCEPT ![i].status = s, ![i].end_time = tasks[i].end_time]
      BY <1>3, <1>5, <1>7 DEF Task
    <2> QED
      BY <1>4, <1>7, <2>1, OneCellChanges DEF Terminal
  <1> QED
    BY <1>6, <1>7

LEMMA EnqueueOrigins ==
  ASSUME IInv, NEW p \in Priority, EnqueueTask(p)
  PROVE  \A j \in InUse' : Kept(j) \/ New(j)
  <1>1. PICK pos \in 0..size : InsertAt(pos, p)
    BY DEF EnqueueTask
  <1>2. size \in Nat /\ size < MAX_TASKS /\ MAX_TASKS \in Nat
    BY QueueAssumption DEF EnqueueTask, is_queue_full, IInv, TypeOK
  <1>3. /\ size' = size + 1
        /\ InUse' = 0..size
        /\ \A j \in 0..size : tasks'[j] = IF j = pos THEN NewTask(p)
                                          ELSE IF j \in (pos+1)..size THEN tasks[j-1]
                                          ELSE tasks[j]
    BY <1>1, <1>2 DEF InsertAt, InUse, Cell
  <1>4. ASSUME NEW j \in 0..size
        PROVE  Kept(j) \/ New(j)
    <2>1. CASE j = pos
      BY <1>3, <2>1 DEF New, NewTask
    <2>2. CASE j < pos
      BY <1>2, <1>3, <2>2 DEF Kept, InUse
    <2>3. CASE j > pos
      BY <1>2, <1>3, <2>3 DEF Kept, InUse
    <2> QED
      BY <1>2, <2>1, <2>2, <2>3
  <1> QED
    BY <1>3, <1>4

LEMMA Origins ==
  ASSUME IInv, [Activity]_vars
  PROVE  \A j \in InUse' : Kept(j) \/ New(j) \/ Changed(j)
  <1>1. CASE \E p \in Priority : EnqueueTask(p)
    BY <1>1, EnqueueOrigins
  <1>2. CASE DequeueTask
    BY <1>2, DequeueOrigins
  <1>3. CASE \E id \in 1..(next_task_id - 1) : CancelTask(id)
    BY <1>3, CancelOrigins
  <1>4. ASSUME NEW id \in executing, Complete(id)
        PROVE  \A j \in InUse' : Kept(j) \/ New(j) \/ Changed(j)
    BY <1>4, ReportOrigins DEF Complete, Terminal
  <1>5. ASSUME NEW id \in executing, LaunchFails(id)
        PROVE  \A j \in InUse' : Kept(j) \/ New(j) \/ Changed(j)
    BY <1>5, ReportOrigins DEF LaunchFails, Terminal
  <1>6. CASE \/ \E ids \in SUBSET executing : WorkerLost(ids)
             \/ Tick
             \/ UNCHANGED vars
    <2>1. UNCHANGED <<tasks, size>>
      BY <1>6 DEF WorkerLost, Tick, vars
    <2> QED
      BY <2>1 DEF Kept, InUse
  <1> QED
    BY <1>1, <1>2, <1>3, <1>4, <1>5, <1>6 DEF Activity

\* The ids in the array are those endedAt is about.
LEMMA IdsInUse ==
  ASSUME CleanupInv
  PROVE  \A i \in InUse : tasks[i].id \in 1..LastId
  BY QueueAssumption DEF CleanupInv, IInv, TypeOK, IdsIssued

LEMMA BoundsKept ==
  ASSUME CleanupInv, [Next]_vars
  PROVE  next_task_id' <= LastId + 1 /\ now' \in Nat /\ now' >= now
  <1>1. now \in Nat /\ next_task_id \in Nat /\ LastId \in Nat /\ next_task_id <= LastId + 1
    BY QueueAssumption DEF CleanupInv, IInv, TypeOK
  <1>2. CASE \E p \in Priority : EnqueueTask(p)
    BY <1>1, <1>2 DEF EnqueueTask, InsertAt
  <1>3. CASE Tick
    BY <1>1, <1>3 DEF Tick
  <1>4. CASE ~ Tick /\ ~ \E p \in Priority : EnqueueTask(p)
    <2>1. UNCHANGED <<next_task_id, now>>
      BY <1>4 DEF Next, Activity, DequeueTask, Complete, LaunchFails, WorkerLost,
         CancelTask, RemoveCompletedTasks, vars
    <2> QED
      BY <1>1, <2>1
  <1> QED
    BY <1>2, <1>3, <1>4

-----------------------------------------------------------------------------
\* A task with an outcome has had it before the step or gets it at this moment.
LEMMA ActivityStamps ==
  ASSUME CleanupInv, Activity, UNCHANGED lastCleanup,
         endedAt' = [id \in 1..LastId |-> IF id \in Ended' \ Ended THEN now
                                                                    ELSE endedAt[id]]
  PROVE  /\ endedAt' \in [1..LastId -> Nat]
         /\ Stamped'
         /\ StampedIsRecent'
  <1>0. /\ IInv /\ IInv'
        /\ now \in Nat \ {0} /\ lastCleanup \in 0..now /\ MaxAge \in Nat
        /\ \A i \in InUse : tasks[i].id \in 1..LastId
    BY NextInv, IdsInUse, QueueAssumption DEF CleanupInv, IInv, TypeOK, Next
  <1>1. endedAt' \in [1..LastId -> Nat]
    BY <1>0 DEF CleanupInv
  <1>2. ASSUME NEW j \in InUse'
        PROVE  /\ tasks'[j].status \notin Terminal => tasks'[j].end_time = 0
               /\ tasks'[j].status = "COMPLETED" => tasks'[j].end_time # 0
               /\ tasks'[j].end_time # 0 => tasks'[j].end_time = endedAt'[tasks'[j].id]
               /\ tasks'[j].end_time # 0 => lastCleanup' - tasks'[j].end_time <= MaxAge
    <2>1. CASE Kept(j)
      <3>1. PICK i \in InUse : tasks'[j] = tasks[i]
        BY <2>1 DEF Kept
      <3>2. /\ tasks[i].status \notin Terminal => tasks[i].end_time = 0
            /\ tasks[i].status = "COMPLETED" => tasks[i].end_time # 0
            /\ tasks[i].end_time # 0 => tasks[i].end_time = endedAt[tasks[i].id]
            /\ tasks[i].end_time # 0 => lastCleanup - tasks[i].end_time <= MaxAge
        BY DEF CleanupInv, Stamped, StampedIsRecent
      <3>3. tasks[i].status \in Terminal => tasks[i].id \in Ended
        BY DEF Ended, TasksOf, Terminal
      <3>4. tasks[i].end_time # 0 => endedAt'[tasks[i].id] = endedAt[tasks[i].id]
        BY <1>0, <3>2, <3>3
      <3> QED
        BY <3>1, <3>2, <3>4
    <2>2. CASE New(j)
      BY <2>2 DEF New, Terminal
    <2>3. CASE Changed(j)
      <3>1. PICK i \in InUse :
               /\ tasks'[j].id = tasks[i].id
               /\ tasks[i].status \notin Terminal
               /\ \/ tasks'[j].status \in Terminal /\ tasks'[j].end_time = now
                  \/ /\ tasks'[j].status \in {"RUNNING", "FAILED"}
                     /\ tasks'[j].end_time = tasks[i].end_time
        BY <2>3 DEF Changed
      <3>2. tasks[i].end_time = 0
        BY <3>1 DEF CleanupInv, Stamped
      <3>3. CASE tasks'[j].status \in Terminal /\ tasks'[j].end_time = now
        <4>1. tasks[i].id \notin Ended
          BY <1>0, <3>1 DEF Ended, TasksOf, Terminal, IInv, IdsDistinct
        <4>2. tasks[i].id \in Ended'
          BY <3>1, <3>3 DEF Ended, TasksOf, Terminal
        <4>3. endedAt'[tasks[i].id] = now
          BY <1>0, <4>1, <4>2
        <4> QED
          BY <1>0, <3>1, <3>3, <4>3
      <3>4. CASE /\ tasks'[j].status \in {"RUNNING", "FAILED"}
                 /\ tasks'[j].end_time = tasks[i].end_time
        BY <3>2, <3>4
      <3> QED
        BY <3>1, <3>3, <3>4
    <2> QED
      BY <1>0, <2>1, <2>2, <2>3, Origins
  <1>3. Stamped'
    BY <1>2 DEF Stamped
  <1>4. StampedIsRecent'
    BY <1>2 DEF StampedIsRecent
  <1> QED
    BY <1>1, <1>3, <1>4

\* What a cleanup leaves is what it tested: it has no time or is recent.
LEMMA CleanupStamps ==
  ASSUME CleanupInv, RemoveCompletedTasks, lastCleanup' = now, UNCHANGED endedAt
  PROVE  Stamped' /\ StampedIsRecent'
  <1>1. now \in Nat /\ \A i \in InUse : tasks[i].end_time \in Nat
    BY InUseIsCell DEF CleanupInv, IInv, TypeOK, Task
  <1>2. \A j \in InUse' : \E i \in InUse : tasks'[j] = tasks[i] /\ ~ Outdated(i)
    <2>1. PICK n \in 0..size : \E from \in [0..(n-1) -> InUse] :
             /\ \A j \in 0..(n-1) : tasks'[j] = tasks[from[j]] /\ ~ Outdated(from[j])
             /\ size' = n
      BY RemoveEffect DEF CleanupInv
    <2>2. PICK from \in [0..(n-1) -> InUse] :
             /\ \A j \in 0..(n-1) : tasks'[j] = tasks[from[j]] /\ ~ Outdated(from[j])
             /\ size' = n
      BY <2>1
    <2> QED
      BY <2>2 DEF InUse
  <1>3. Stamped'
    BY <1>2 DEF CleanupInv, Stamped
  <1>4. ASSUME NEW j \in InUse', tasks'[j].end_time # 0
        PROVE  now - tasks'[j].end_time <= MaxAge
    <2>1. PICK i \in InUse : tasks'[j] = tasks[i] /\ ~ Outdated(i)
      BY <1>2
    <2>2. tasks[i].status \in Terminal
      BY <1>4, <2>1 DEF CleanupInv, Stamped
    <2>3. MaxAge \in Nat
      BY QueueAssumption
    <2> QED
      BY <1>1, <1>4, <2>1, <2>2, <2>3 DEF Outdated
  <1> QED
    BY <1>3, <1>4 DEF StampedIsRecent

LEMMA CleanupNextInv == CleanupInv /\ [CleanupNext]_cleanupVars => CleanupInv'
  <1> SUFFICES ASSUME CleanupInv, [CleanupNext]_cleanupVars PROVE CleanupInv'
    OBVIOUS
  <1>1. [Next]_vars
    BY DEF CleanupNext, cleanupVars, Next
  <1>2. IInv' /\ next_task_id' <= LastId + 1 /\ now' \in Nat /\ now' >= now
    BY <1>1, NextInv, BoundsKept DEF CleanupInv
  <1>3. now \in Nat /\ lastCleanup \in 0..now /\ endedAt \in [1..LastId -> Nat]
    BY DEF CleanupInv, IInv, TypeOK
  <1>4. lastCleanup' \in {lastCleanup, now}
    BY DEF CleanupNext, cleanupVars
  <1>5. lastCleanup' \in 0..now'
    BY <1>2, <1>3, <1>4
  <1>6. endedAt' \in [1..LastId -> Nat] /\ Stamped' /\ StampedIsRecent'
    <2>1. CASE /\ Activity
               /\ endedAt' = [id \in 1..LastId |-> IF id \in Ended' \ Ended THEN now
                                                                ELSE endedAt[id]]
               /\ UNCHANGED lastCleanup
      BY <2>1, ActivityStamps
    <2>2. CASE RemoveCompletedTasks /\ lastCleanup' = now /\ UNCHANGED endedAt
      BY <1>3, <2>2, CleanupStamps
    <2>3. CASE UNCHANGED cleanupVars
      BY <2>3 DEF cleanupVars, vars, CleanupInv, Stamped, StampedIsRecent, InUse
    <2> QED
      BY <2>1, <2>2, <2>3 DEF CleanupNext
  <1> QED
    BY <1>2, <1>5, <1>6 DEF CleanupInv

\* After a cleanup nothing that is finished and was old then is left, except tasks
\* that a worker reported as failed without a time.
THEOREM CleanupLeavesOnlyUnstamped == CleanupSpec => []KeepsOnlyUnfinishedRecentOrUnstamped
  <1>1. CleanupInv => KeepsOnlyUnfinishedRecentOrUnstamped
    BY DEF CleanupInv, Stamped, StampedIsRecent, KeepsOnlyUnfinishedRecentOrUnstamped, Terminal
  <1> QED
    BY <1>1, CleanupInitInv, CleanupNextInv, PTL DEF CleanupSpec
=============================================================================
