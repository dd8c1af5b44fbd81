-------------------------- MODULE Supervisor_proof -------------------------
(***************************************************************************)
(* Proofs about the scheduler and its pool, for any number of workers and  *)
(* any number of kills and of failed forks and execs.  The inductive       *)
(* invariant of WorkerPool holds in a supervised pool as well.             *)
(***************************************************************************)
EXTENDS Supervisor, WorkerPool_proof, FiniteSetTheorems

Ending == {"terminate", "reap", "gone"}

\* The slots are filled from below, and nobody runs whose slot is empty.
SlotsInOrder ==
    /\ \A w \in Workers : sched_pc = "spawn" /\ ~ (w < i) => ~ worker_pids[w]
    /\ \A w \in Workers : ~ worker_pids[w] => pc[w] = "unborn" /\ w \notin stray
    /\ sched_pc = "spawn" => num_workers_running + i >= NUM_WORKERS

\* The slots that a failed fork has left empty are the workers that are not counted.
Gaps == {w \in Workers : (sched_pc = "spawn" => w < i) /\ ~ worker_pids[w]}
GapsCounted == num_workers_running = NUM_WORKERS - Cardinality(Gaps)

\* What the cleanup has passed does not run, and will not run again.
Reaped ==
    /\ sched_pc \in Ending => \A w \in Workers : w < i /\ worker_pids[w] => ~ Running(w)
    /\ sched_pc \in {"terminate", "reap"} => i <= num_workers_running
    /\ sched_pc = "reap" => i < num_workers_running
    /\ sched_pc = "gone" => i = num_workers_running

\* Whoever is told to end can read why.
Announced ==
    /\ sched_shutdown \/ sigterm # {} => shutdown_flag
    /\ sched_pc \in Ending => sched_shutdown

SupervisorInv ==
    /\ SupervisorTypeOK
    /\ IInv
    /\ SlotsInOrder
    /\ GapsCounted
    /\ Reaped
    /\ Announced

USE SupervisorAssumption, PoolAssumption DEF scheduler, signals, shared, local
-----------------------------------------------------------------------------
(* What the scheduler does to the pool.                                    *)

\* The flag is set, the sleepers are woken and the workers are counted: nothing that the
\* pool's invariant forbids.
LEMMA AnnouncementKeeps ==
    ASSUME IInv,
           shutdown_flag' \in BOOLEAN, shutdown_flag => shutdown_flag',
           waiters' \subseteq waiters,
           num_active_workers' \in Nat,
           shutdown_requested' \in [Workers -> BOOLEAN],
           \A w \in Workers : shutdown_requested[w] => shutdown_requested'[w],
           UNCHANGED <<status, worker_id, mutex, pc, task, executor, killed, spurious>>
    PROVE  IInv'
<1>1. TypeOK'
  BY DEF IInv, TypeOK
<1>2. \A w \in Workers : ShuttingDown(w) => ShuttingDown(w)'
  BY DEF ShuttingDown
<1>3. LockHeld' /\ WaitersSleep' /\ HandIsRunning' /\ ThreadIsRunning'
  BY DEF IInv, LockHeld, WaitersSleep, HandIsRunning, ThreadIsRunning
<1>4. TestedEmpty' /\ LeavesForAReason'
  BY <1>2 DEF IInv, TestedEmpty, LeavesForAReason, Pending
<1>5. RunningIsInHand'
  BY DEF IInv, RunningIsInHand, Holders
<1>6. NoMissedWakeup'
  <2>1. Undisturbed' => Undisturbed
    BY <1>2 DEF Undisturbed
  <2> QED BY <2>1 DEF IInv, NoMissedWakeup, Pending
<1> QED BY <1>1, <1>3, <1>4, <1>5, <1>6 DEF IInv

\* A new worker holds nothing.
LEMMA BirthKeeps ==
    ASSUME IInv, NEW w \in Workers, pc[w] = "unborn",
           pc' = [pc EXCEPT ![w] = "attach"],
           UNCHANGED <<shared, task, shutdown_requested, executor, killed, spurious>>
    PROVE  IInv'
<1>1. \A v \in Workers : pc'[v] = IF v = w THEN "attach" ELSE pc[v]
  BY DEF IInv, TypeOK
<1>2. TypeOK'
  BY <1>1 DEF IInv, TypeOK, Location
<1>3. LockHeld' /\ WaitersSleep' /\ HandIsRunning' /\ ThreadIsRunning'
  BY <1>1 DEF IInv, LockHeld, WaitersSleep, HandIsRunning, ThreadIsRunning
<1>4. TestedEmpty' /\ LeavesForAReason'
  BY <1>1 DEF IInv, TestedEmpty, LeavesForAReason, Pending, ShuttingDown
<1>5. RunningIsInHand'
  BY <1>1 DEF IInv, RunningIsInHand, Holders, ThreadIsRunning
<1>6. NoMissedWakeup'
  BY <1>1 DEF IInv, NoMissedWakeup, Pending, Undisturbed, ShuttingDown
<1> QED BY <1>2, <1>3, <1>4, <1>5, <1>6 DEF IInv

\* Neither does one that SIGTERM ends before main has set its handler.
LEMMA EarlyEndKeeps ==
    ASSUME IInv, NEW w \in Workers, pc[w] = "attach", shutdown_flag,
           pc' = [pc EXCEPT ![w] = "gone"],
           UNCHANGED <<shared, task, shutdown_requested, executor, killed, spurious>>
    PROVE  IInv'
<1>1. \A v \in Workers : pc'[v] = IF v = w THEN "gone" ELSE pc[v]
  BY DEF IInv, TypeOK
<1>2. TypeOK'
  BY <1>1 DEF IInv, TypeOK, Location
<1>3. LockHeld' /\ WaitersSleep' /\ HandIsRunning' /\ ThreadIsRunning'
  BY <1>1 DEF IInv, LockHeld, WaitersSleep, HandIsRunning, ThreadIsRunning
<1>4. TestedEmpty' /\ LeavesForAReason'
  BY <1>1 DEF IInv, TestedEmpty, LeavesForAReason, Pending, ShuttingDown
<1>5. RunningIsInHand'
  BY <1>1 DEF IInv, RunningIsInHand, Holders, ThreadIsRunning
<1>6. NoMissedWakeup'
  <2>1. ~ Undisturbed'
    BY DEF Undisturbed, ShuttingDown
  <2> QED BY <2>1 DEF NoMissedWakeup
<1> QED BY <1>2, <1>3, <1>4, <1>5, <1>6 DEF IInv
-----------------------------------------------------------------------------
\* In the pool nobody is born or comes back, and the flag is never cleared.
LEMMA PoolEffect ==
    ASSUME TypeOK, Next
    PROVE  /\ \A w \in Workers : pc[w] \in {"unborn", "gone"} => pc'[w] = pc[w]
           /\ shutdown_flag => shutdown_flag'
<1> USE DEF TypeOK
<1>1. ASSUME NEW v \in Workers, WorkerStep(v)
      PROVE  /\ pc[v] \notin {"unborn", "gone"}
             /\ \A w \in Workers : w # v => pc'[w] = pc[w]
             /\ UNCHANGED shutdown_flag
  BY <1>1 DEF WorkerStep, Attach, Register, EnterLoop, Lock, Test, CondWait, Relock, Check,
    Take, Launch, LaunchFails, Unregister, Exit, Goes
<1>2. ASSUME NEW v \in Workers, Kill(v)
      PROVE  /\ pc[v] \notin {"unborn", "gone"}
             /\ \A w \in Workers : w # v => pc'[w] = pc[w]
             /\ UNCHANGED shutdown_flag
  BY <1>2 DEF Kill, Alive
<1>3. ASSUME NEW v \in Workers, SpuriousWakeup(v)
      PROVE  UNCHANGED <<pc, shutdown_flag>>
  BY <1>3 DEF SpuriousWakeup
<1>4. ASSUME NEW v \in Workers, HandleSignal(v)
      PROVE  UNCHANGED pc /\ (shutdown_flag => shutdown_flag')
  BY <1>4 DEF HandleSignal
<1>5. ASSUME NEW t \in Tasks, ExecutorStep(t) \/ Submit(t) \/ Cancel(t)
      PROVE  UNCHANGED <<pc, shutdown_flag>>
  BY <1>5 DEF ExecutorStep, BeginUpdate, FinishUpdate, Submit, Cancel
<1> QED BY <1>1, <1>2, <1>3, <1>4, <1>5 DEF Next
-----------------------------------------------------------------------------
(* Each step of the scheduler, of a signal or of a stray child.            *)

LEMMA SlotNumbers == \A n \in Nat : n < NUM_WORKERS => n \in Workers
OBVIOUS

\* Once the workers are spawned, gaps neither come nor go.
LEMMA GapsStay ==
    ASSUME GapsCounted, UNCHANGED <<worker_pids, num_workers_running>>,
           sched_pc = "spawn" <=> sched_pc' = "spawn", sched_pc = "spawn" => i' = i
    PROVE  GapsCounted'
<1>1. Gaps' = Gaps
  BY DEF Gaps
<1> QED BY <1>1 DEF GapsCounted

LEMMA PoolStepKeeps == SupervisorInv /\ PoolStep => SupervisorInv'
<1> SUFFICES ASSUME SupervisorInv, PoolStep PROVE SupervisorInv'
  OBVIOUS
<1> USE DEF SupervisorInv
<1>1. IInv'
  BY NextHolds DEF PoolStep
<1>2. /\ \A w \in Workers : pc[w] \in {"unborn", "gone"} => pc'[w] = pc[w]
      /\ shutdown_flag => shutdown_flag'
  BY PoolEffect DEF PoolStep, SupervisorTypeOK
<1>3. SupervisorTypeOK'
  BY <1>1 DEF PoolStep, SupervisorTypeOK, IInv
<1>4. SlotsInOrder' /\ GapsCounted'
  BY <1>2, GapsStay DEF PoolStep, SlotsInOrder
<1>5. Reaped'
  BY <1>2 DEF PoolStep, Reaped, Running, Alive
<1>6. Announced'
  BY <1>2 DEF PoolStep, Announced
<1> QED BY <1>1, <1>3, <1>4, <1>5, <1>6

LEMMA SpawnKeeps == SupervisorInv /\ Spawn => SupervisorInv'
<1> SUFFICES ASSUME SupervisorInv, Spawn PROVE SupervisorInv'
  OBVIOUS
<1> USE DEF SupervisorInv
<1>1. i \in Workers /\ i' = i + 1 /\ sched_pc' = "spawn" /\ pc[i] = "unborn"
  BY SlotNumbers DEF Spawn, SupervisorTypeOK, SlotsInOrder
<1>2. \A w \in Workers : /\ pc'[w] = IF w = i THEN "attach" ELSE pc[w]
                         /\ worker_pids'[w] = IF w = i THEN TRUE ELSE worker_pids[w]
  BY <1>1 DEF Spawn, SupervisorTypeOK, TypeOK
<1>3. IInv'
  BY <1>1, BirthKeeps DEF Spawn
<1>4. SupervisorTypeOK'
  BY <1>1, <1>3 DEF Spawn, SupervisorTypeOK, IInv
<1>5. SlotsInOrder'
  BY <1>1, <1>2 DEF Spawn, SupervisorTypeOK, SlotsInOrder
<1>6. GapsCounted'
  <2>1. Gaps' = Gaps
    BY <1>1, <1>2 DEF Spawn, SupervisorTypeOK, Gaps
  <2> QED BY <2>1 DEF GapsCounted, Spawn
<1>7. Reaped' /\ Announced'
  BY <1>1 DEF Spawn, Reaped, Announced, Ending
<1> QED BY <1>3, <1>4, <1>5, <1>6, <1>7

LEMMA ForkFailsKeeps == SupervisorInv /\ ForkFails => SupervisorInv'
<1> SUFFICES ASSUME SupervisorInv, ForkFails PROVE SupervisorInv'
  OBVIOUS
<1> USE DEF SupervisorInv
<1>1. i \in Workers /\ i' = i + 1 /\ num_workers_running \in 1..NUM_WORKERS
  BY SlotNumbers DEF ForkFails, SupervisorTypeOK, SlotsInOrder
<1>2. IInv'
  BY AnnouncementKeeps DEF ForkFails, IInv, TypeOK, vars
<1>3. SupervisorTypeOK'
  BY <1>1, <1>2 DEF ForkFails, SupervisorTypeOK, IInv
<1>4. SlotsInOrder'
  BY <1>1 DEF ForkFails, SupervisorTypeOK, SlotsInOrder, vars
<1>5. GapsCounted'
  <2>1. Gaps' = Gaps \cup {i} /\ i \notin Gaps
    BY <1>1 DEF ForkFails, SupervisorTypeOK, SlotsInOrder, Gaps
  <2>2. IsFiniteSet(Gaps)
    <3>1. IsFiniteSet(Workers)
      BY FS_Interval
    <3> QED BY <3>1, FS_Subset DEF Gaps
  <2>3. Cardinality(Gaps') = Cardinality(Gaps) + 1 /\ Cardinality(Gaps) \in Nat
    BY <2>1, <2>2, FS_AddElement, FS_CardinalityType
  <2> QED BY <2>3 DEF GapsCounted, ForkFails, SupervisorTypeOK
<1>6. Reaped' /\ Announced'
  BY DEF ForkFails, Reaped, Announced, Ending, vars
<1> QED BY <1>2, <1>3, <1>4, <1>5, <1>6

LEMMA ExecFailsKeeps == SupervisorInv /\ ExecFails => SupervisorInv'
<1> SUFFICES ASSUME SupervisorInv, ExecFails PROVE SupervisorInv'
  OBVIOUS
<1> USE DEF SupervisorInv
<1>1. i \in Workers /\ i' = i + 1 /\ sched_pc' = "spawn"
  BY SlotNumbers DEF ExecFails, SupervisorTypeOK
<1>2. \A w \in Workers : worker_pids'[w] = IF w = i THEN TRUE ELSE worker_pids[w]
  BY DEF ExecFails, SupervisorTypeOK
<1>3. IInv'
  BY AnnouncementKeeps DEF ExecFails, IInv, TypeOK, vars
<1>4. SupervisorTypeOK'
  BY <1>1, <1>3 DEF ExecFails, SupervisorTypeOK, IInv
<1>5. SlotsInOrder'
  BY <1>1, <1>2 DEF ExecFails, SupervisorTypeOK, SlotsInOrder, vars
<1>6. GapsCounted'
  <2>1. Gaps' = Gaps
    BY <1>1, <1>2 DEF ExecFails, SupervisorTypeOK, Gaps
  <2> QED BY <2>1 DEF GapsCounted, ExecFails
<1>7. Reaped' /\ Announced'
  BY <1>1 DEF ExecFails, Reaped, Announced, Ending, vars
<1> QED BY <1>3, <1>4, <1>5, <1>6, <1>7

LEMMA StrayExitsKeeps ==
    ASSUME SupervisorInv, NEW w \in Workers, StrayExits(w)
    PROVE  SupervisorInv'
<1> USE DEF SupervisorInv
<1>1. /\ stray' = stray \ {w} /\ shutdown_flag' = TRUE /\ waiters' = {}
      /\ UNCHANGED <<status, worker_id, mutex, num_active_workers, local, killed, spurious,
                     scheduler, faults>>
      /\ sigterm' \subseteq Workers
  <2>1. 0..(w - 1) \subseteq Workers
    OBVIOUS
  <2>2. sigterm' \subseteq sigterm \cup 0..(w - 1)
    BY DEF StrayExits
  <2>3. sigterm' \subseteq Workers
    BY <2>1, <2>2 DEF SupervisorTypeOK
  <2>4. /\ stray' = stray \ {w} /\ shutdown_flag' = TRUE /\ waiters' = {}
        /\ UNCHANGED <<status, worker_id, mutex, num_active_workers, local, killed, spurious,
                       scheduler, faults>>
    BY DEF StrayExits, SetFlagAndBroadcast
  <2> QED BY <2>3, <2>4
<1>2. IInv'
  BY <1>1, AnnouncementKeeps DEF IInv, TypeOK
<1>3. SupervisorTypeOK'
  BY <1>1, <1>2 DEF SupervisorTypeOK, IInv
<1>4. SlotsInOrder' /\ GapsCounted' /\ Reaped' /\ Announced'
  BY <1>1, GapsStay DEF SlotsInOrder, Reaped, Announced, Running, Alive
<1> QED BY <1>2, <1>3, <1>4

LEMMA LoopKeeps ==
    ASSUME SupervisorInv, Spawned \/ TestLoop \/ \E due \in BOOLEAN : Clean(due)
    PROVE  SupervisorInv'
<1> USE DEF SupervisorInv
<1>1. UNCHANGED <<vars, worker_pids, num_workers_running, sched_shutdown, signals>>
  BY DEF Spawned, TestLoop, Clean
<1>2. IInv'
  BY <1>1, AnnouncementKeeps DEF IInv, TypeOK, vars
<1>3. CASE Spawned
  <2>1. Gaps' = Gaps
    BY <1>1, <1>3 DEF Spawned, At, SupervisorTypeOK, Gaps
  <2>2. GapsCounted'
    BY <1>1, <2>1 DEF GapsCounted
  <2> QED BY <1>1, <1>2, <1>3, <2>2 DEF Spawned, At, SupervisorTypeOK, IInv, SlotsInOrder,
    Reaped, Announced, Ending, vars
<1>4. CASE TestLoop
  <2>1. /\ i' = 0 /\ sched_pc' \in {"terminate", "sleep"}
        /\ sched_pc' = "terminate" => sched_shutdown
    BY <1>4 DEF TestLoop, At
  <2>2. GapsCounted'
    BY <1>1, <1>4, GapsStay DEF TestLoop, At
  <2> QED BY <1>1, <1>2, <1>4, <2>1, <2>2 DEF TestLoop, At, SupervisorTypeOK, IInv,
    SlotsInOrder, Reaped, Announced, Ending, vars
<1>5. CASE \E due \in BOOLEAN : Clean(due)
  BY <1>1, <1>2, <1>5, GapsStay DEF Clean, At, SupervisorTypeOK, IInv, SlotsInOrder, Reaped,
    Announced, Ending, vars
<1> QED BY <1>3, <1>4, <1>5

\* waitpid never returns a pid, so nobody is respawned.
LEMMA CheckWorkersKeeps == SupervisorInv /\ CheckWorkers => SupervisorInv'
<1> SUFFICES ASSUME SupervisorInv, CheckWorkers PROVE SupervisorInv'
  OBVIOUS
<1> USE DEF SupervisorInv
<1>1. {w \in Watched : WaitPidNoHang(w) > 0} = {}
  BY DEF WaitPidNoHang
<1>2. pc' = pc
  BY <1>1 DEF CheckWorkers, SupervisorTypeOK, TypeOK
<1>3. /\ shutdown_requested' \in [Workers -> BOOLEAN]
      /\ \A w \in Workers : shutdown_requested[w] => shutdown_requested'[w]
  BY <1>1, Zenon DEF CheckWorkers
<1>4. IInv'
  BY <1>2, <1>3, AnnouncementKeeps DEF CheckWorkers, IInv, TypeOK
<1>5. SupervisorTypeOK'
  BY <1>4 DEF CheckWorkers, At, SupervisorTypeOK, IInv
<1>6. SlotsInOrder' /\ GapsCounted' /\ Reaped' /\ Announced'
  BY <1>2, GapsStay DEF CheckWorkers, At, SlotsInOrder, Reaped, Announced, Ending
<1> QED BY <1>4, <1>5, <1>6

LEMMA CountKeeps == SupervisorInv /\ Count => SupervisorInv'
<1> SUFFICES ASSUME SupervisorInv, Count PROVE SupervisorInv'
  OBVIOUS
<1> USE DEF SupervisorInv
<1>1. num_active_workers' \in Nat
  <2>1. {w \in Watched : Running(w)} \subseteq Workers
    BY DEF Watched
  <2> QED BY <2>1, FS_Subset, FS_CardinalityType DEF Count
<1>2. IInv'
  BY <1>1, AnnouncementKeeps DEF Count, IInv, TypeOK
<1>3. SupervisorTypeOK'
  BY <1>2 DEF Count, At, SupervisorTypeOK, IInv
<1>4. SlotsInOrder' /\ GapsCounted' /\ Reaped' /\ Announced'
  BY GapsStay DEF Count, At, SlotsInOrder, Reaped, Announced, Ending
<1> QED BY <1>2, <1>3, <1>4

LEMMA TerminateKeeps == SupervisorInv /\ Terminate => SupervisorInv'
<1> SUFFICES ASSUME SupervisorInv, Terminate PROVE SupervisorInv'
  OBVIOUS
<1> USE DEF SupervisorInv
<1>1. i \in Workers
  BY SlotNumbers DEF Terminate, SupervisorTypeOK
<1>2. IInv'
  BY AnnouncementKeeps DEF Terminate, IInv, TypeOK, vars
<1>3. shutdown_flag'
  BY DEF Terminate, Announced, Ending, vars
<1>4. CASE worker_pids[i]
  BY <1>1, <1>2, <1>3, <1>4, GapsStay DEF Terminate, SupervisorTypeOK, IInv, SlotsInOrder,
    Reaped, Announced, Ending, Running, Alive, vars
<1>5. CASE ~ worker_pids[i]
  <2>1. /\ i' = i + 1 /\ i < num_workers_running /\ sched_pc' = "terminate"
        /\ UNCHANGED <<vars, worker_pids, num_workers_running, sched_shutdown, signals>>
    BY <1>5 DEF Terminate
  <2>2. SupervisorTypeOK'
    BY <1>1, <1>2, <2>1 DEF SupervisorTypeOK, IInv
  <2>3. Reaped'
    BY <1>1, <1>5, <2>1 DEF Terminate, SupervisorTypeOK, Reaped, Ending, Running, Alive, vars
  <2>4. SlotsInOrder' /\ GapsCounted' /\ Announced'
    BY <2>1, GapsStay DEF Terminate, SlotsInOrder, Announced, Ending, vars
  <2> QED BY <1>2, <2>2, <2>3, <2>4
<1> QED BY <1>4, <1>5

LEMMA ReapKeeps == SupervisorInv /\ Reap => SupervisorInv'
<1> SUFFICES ASSUME SupervisorInv, Reap PROVE SupervisorInv'
  OBVIOUS
<1> USE DEF SupervisorInv
<1>1. i \in Workers
  BY SlotNumbers DEF Reap, At, Reaped, SupervisorTypeOK
<1>2. IInv'
  BY AnnouncementKeeps DEF Reap, IInv, TypeOK, vars
<1>3. SupervisorTypeOK'
  BY <1>1, <1>2 DEF Reap, At, SupervisorTypeOK, IInv
<1>4. SlotsInOrder' /\ GapsCounted' /\ Announced'
  BY GapsStay DEF Reap, At, SlotsInOrder, Announced, Ending, vars
<1>5. Reaped'
  BY <1>1 DEF Reap, At, SupervisorTypeOK, Reaped, Ending, Running, Alive, vars
<1> QED BY <1>2, <1>3, <1>4, <1>5

LEMMA FinishKeeps == SupervisorInv /\ Finish => SupervisorInv'
<1> SUFFICES ASSUME SupervisorInv, Finish PROVE SupervisorInv'
  OBVIOUS
<1> USE DEF SupervisorInv
<1>1. IInv'
  BY AnnouncementKeeps DEF Finish, SetFlagAndBroadcast, IInv, TypeOK
<1>2. SupervisorTypeOK'
  BY <1>1 DEF Finish, At, SupervisorTypeOK, IInv
<1>3. SlotsInOrder' /\ GapsCounted' /\ Announced'
  BY GapsStay DEF Finish, At, SetFlagAndBroadcast, SlotsInOrder, Announced, Ending
<1>4. Reaped'
  BY DEF Finish, At, Reaped, Ending, Running, Alive
<1> QED BY <1>1, <1>2, <1>3, <1>4

LEMMA SignalKeeps == SupervisorInv /\ SignalScheduler => SupervisorInv'
<1> SUFFICES ASSUME SupervisorInv, SignalScheduler PROVE SupervisorInv'
  OBVIOUS
<1> USE DEF SupervisorInv
<1>1. IInv'
  BY AnnouncementKeeps DEF SignalScheduler, SetFlagAndBroadcast, IInv, TypeOK
<1>2. SupervisorTypeOK'
  BY <1>1 DEF SignalScheduler, SupervisorTypeOK, IInv
<1>3. SlotsInOrder' /\ GapsCounted' /\ Reaped' /\ Announced'
  BY GapsStay DEF SignalScheduler, SetFlagAndBroadcast, SlotsInOrder, Reaped, Announced,
    Running, Alive
<1> QED BY <1>1, <1>2, <1>3

LEMMA DeliverKeeps ==
    ASSUME SupervisorInv, NEW w \in Workers, Deliver(w)
    PROVE  SupervisorInv'
<1> USE DEF SupervisorInv
<1>1. shutdown_flag
  BY DEF Deliver, Announced
<1>2. /\ shutdown_flag' = TRUE
      /\ waiters' \subseteq waiters
      /\ shutdown_requested' \in [Workers -> BOOLEAN]
      /\ \A v \in Workers : shutdown_requested[v] => shutdown_requested'[v]
      /\ UNCHANGED <<status, worker_id, mutex, num_active_workers, pc, task, executor, killed,
                     spurious>>
  <2>1. CASE Alive(w)
    BY <1>1, <2>1 DEF Deliver, HandleSignal, SupervisorTypeOK, TypeOK
  <2>2. CASE ~ Alive(w)
    BY <1>1, <2>2 DEF Deliver, SetFlagAndBroadcast, SupervisorTypeOK, TypeOK
  <2> QED BY <2>1, <2>2
<1>3. IInv'
  BY <1>2, AnnouncementKeeps DEF IInv, TypeOK
<1>4. SupervisorTypeOK'
  BY <1>3 DEF Deliver, SupervisorTypeOK, IInv
<1>5. SlotsInOrder' /\ GapsCounted' /\ Reaped' /\ Announced'
  BY <1>2, GapsStay DEF Deliver, SlotsInOrder, Reaped, Announced, Running, Alive
<1> QED BY <1>3, <1>4, <1>5

LEMMA DeliverEarlyKeeps ==
    ASSUME SupervisorInv, NEW w \in Workers, DeliverEarly(w)
    PROVE  SupervisorInv'
<1> USE DEF SupervisorInv
<1>1. shutdown_flag
  BY DEF DeliverEarly, Announced
<1>2. \A v \in Workers : pc'[v] = IF v = w THEN "gone" ELSE pc[v]
  BY DEF DeliverEarly, SupervisorTypeOK, TypeOK
<1>3. IInv'
  BY <1>1, EarlyEndKeeps DEF DeliverEarly
<1>4. SupervisorTypeOK'
  BY <1>3 DEF DeliverEarly, SupervisorTypeOK, IInv
<1>5. SlotsInOrder' /\ GapsCounted' /\ Reaped' /\ Announced'
  BY <1>2, GapsStay DEF DeliverEarly, SlotsInOrder, Reaped, Announced, Running, Alive
<1> QED BY <1>3, <1>4, <1>5
-----------------------------------------------------------------------------
LEMMA SupervisorInitInv == SupervisorInit => SupervisorInv
<1> SUFFICES ASSUME SupervisorInit PROVE SupervisorInv
  OBVIOUS
<1>1. TypeOK
  <2>1. shutdown_flag \in BOOLEAN /\ shutdown_requested \in [Workers -> BOOLEAN]
    BY Zenon DEF SupervisorInit
  <2> QED BY <2>1 DEF SupervisorInit, TypeOK, Location
<1>2. SupervisorTypeOK
  <2>1. sched_shutdown \in BOOLEAN /\ worker_pids \in [Workers -> BOOLEAN]
    BY Zenon DEF SupervisorInit
  <2> QED BY <1>1, <2>1 DEF SupervisorInit, SupervisorTypeOK
<1>3. IInv
  BY <1>1 DEF SupervisorInit, IInv, LockHeld, TestedEmpty, WaitersSleep, LeavesForAReason,
    HandIsRunning, ThreadIsRunning, RunningIsInHand, NoMissedWakeup, Pending
<1>4. SlotsInOrder /\ Reaped /\ Announced
  BY DEF SupervisorInit, SlotsInOrder, Reaped, Announced, Ending
<1>5. GapsCounted
  <2>1. Gaps = {}
    BY DEF SupervisorInit, Gaps
  <2> QED BY <2>1, FS_EmptySet DEF SupervisorInit, GapsCounted
<1> QED BY <1>2, <1>3, <1>4, <1>5 DEF SupervisorInv

LEMMA SupervisorNextInv == SupervisorInv /\ [SupervisorNext]_allVars => SupervisorInv'
<1>1. ASSUME SupervisorInv, UNCHANGED allVars PROVE SupervisorInv'
  <2>1. IInv'
    BY <1>1, AnnouncementKeeps DEF SupervisorInv, IInv, TypeOK, allVars, vars
  <2> QED BY <1>1, <2>1, GapsStay DEF SupervisorInv, SupervisorTypeOK, IInv, SlotsInOrder,
    Reaped, Announced, Running, Alive, allVars, vars
<1> QED
  BY <1>1, PoolStepKeeps, SpawnKeeps, ForkFailsKeeps, ExecFailsKeeps, StrayExitsKeeps, LoopKeeps,
     CheckWorkersKeeps, CountKeeps, TerminateKeeps, ReapKeeps, FinishKeeps, SignalKeeps,
     DeliverKeeps, DeliverEarlyKeeps
  DEF SupervisorNext, SchedulerStep

LEMMA AlwaysSupervised == SupervisorSpec => []SupervisorInv
BY SupervisorInitInv, SupervisorNextInv, PTL DEF SupervisorSpec

\* The variables of scheduler and pool keep their types.
THEOREM SupervisorTypeCorrect == SupervisorSpec => []SupervisorTypeOK
<1>1. SupervisorInv => SupervisorTypeOK
  BY DEF SupervisorInv
<1> QED BY <1>1, AlwaysSupervised, PTL

\* When cleanup_resources is over no worker is left, whichever of them were killed, whose
\* execl failed and whatever they were doing, but those with the highest numbers, one for
\* each fork that failed.
THEOREM NoWorkerIsLeft == SupervisorSpec => []LeavesNoWorker
<1>1. ASSUME SupervisorInv PROVE LeavesNoWorker
  <2>1. ASSUME sched_pc = "gone", NEW w \in Live PROVE w >= num_workers_running
    <3>1. w \in Workers /\ Running(w)
      BY <2>1 DEF Live
    <3>2. worker_pids[w]
      BY <1>1, <3>1 DEF SupervisorInv, SlotsInOrder, Running, Alive
    <3> QED BY <1>1, <2>1, <3>1, <3>2 DEF SupervisorInv, SupervisorTypeOK, Reaped, Ending
  <2>2. ASSUME sched_pc = "gone"
        PROVE  num_workers_running
                   = NUM_WORKERS - Cardinality({v \in Workers : ~ worker_pids[v]})
    <3>1. Gaps = {v \in Workers : ~ worker_pids[v]}
      BY <2>2 DEF Gaps
    <3> QED BY <1>1, <3>1 DEF SupervisorInv, GapsCounted
  <2> QED BY <2>1, <2>2 DEF LeavesNoWorker
<1> QED BY <1>1, AlwaysSupervised, PTL

\* Under the scheduler too, with its count, its signals and its early terminations, no
\* task is executed twice, nor cancelled or finished while somebody holds it.
THEOREM SupervisedTasksAreHeldOnce == SupervisorSpec => []HeldOnce
<1>1. SupervisorInv => HeldOnce
  BY HandsAreDistinct DEF SupervisorInv
<1> QED BY <1>1, AlwaysSupervised, PTL

\* Under the scheduler too, only the end of a worker strands a task in RUNNING.
THEOREM OnlyAnEndStrandsSupervised == SupervisorSpec => []RunningIsInHand
<1>1. SupervisorInv => RunningIsInHand
  BY DEF SupervisorInv, IInv
<1> QED BY <1>1, AlwaysSupervised, PTL
=============================================================================
