-------------------------- MODULE WorkerPool_proof -------------------------
(***************************************************************************)
(* Proofs about the worker pool, for any finite set of workers and tasks   *)
(* and any number of kills and spurious wakeups.  Each conjunct of the     *)
(* inductive invariant has a lemma with one step per action.               *)
(***************************************************************************)
EXTENDS WorkerPool, TLAPS

\* Who is between lock and unlock holds the mutex, so that nobody else is.
LockHeld ==
    /\ \A w \in Workers : pc[w] \in {"test", "wait", "check", "take"} => mutex = w
    /\ \A t \in Tasks : executor[t] = "updating" => mutex = t

\* A worker about to sleep has found nothing, and nothing has come since.
TestedEmpty ==
    \A w \in Workers : pc[w] = "wait" => Pending = {} \/ ShuttingDown(w)

WaitersSleep == \A w \in Workers : w \in waiters => pc[w] \in {"blocked", "gone"}

LeavesForAReason ==
    \A w \in Workers : pc[w] \in {"unregister", "exit", "gone"} =>
        ShuttingDown(w) \/ w \in killed

\* A worker about to launch has the only copy of a task that runs nowhere yet.
HandIsRunning ==
    \A w \in Workers : pc[w] = "launch" =>
        /\ task[w] \in Tasks
        /\ status[task[w]] = "RUNNING"
        /\ worker_id[task[w]] = w
        /\ executor[task[w]] = "none"

ThreadIsRunning ==
    \A t \in Tasks :
        /\ executor[t] \in {"sleeping", "updating"} => status[t] = "RUNNING"
        /\ status[t] = "RUNNING" => worker_id[t] \in Workers
        /\ status[t] \in {"NONE", "PENDING"} => executor[t] = "none"

IInv ==
    /\ TypeOK
    /\ LockHeld
    /\ TestedEmpty
    /\ WaitersSleep
    /\ LeavesForAReason
    /\ HandIsRunning
    /\ ThreadIsRunning
    /\ RunningIsInHand
    /\ NoMissedWakeup
-----------------------------------------------------------------------------
\* The type invariant needs no other part.
LEMMA TypeStep == TypeOK /\ [Next]_vars => TypeOK'
<1> SUFFICES ASSUME TypeOK, [Next]_vars PROVE TypeOK'
  OBVIOUS
<1> USE PoolAssumption DEF shared, local, TypeOK, Location
<1>1. CASE UNCHANGED vars
  BY <1>1 DEF vars, shared, local
<1>2. ASSUME NEW w \in Workers, Attach(w) PROVE TypeOK'
  BY <1>2 DEF Attach, Goes
<1>3. ASSUME NEW w \in Workers, Register(w) PROVE TypeOK'
  BY <1>3 DEF Register, Goes, Free
<1>4. ASSUME NEW w \in Workers, EnterLoop(w) PROVE TypeOK'
  BY <1>4 DEF EnterLoop, Goes
<1>5. ASSUME NEW w \in Workers, Lock(w) PROVE TypeOK'
  BY <1>5 DEF Lock, Goes, Free
<1>6. ASSUME NEW w \in Workers, Test(w) PROVE TypeOK'
  BY <1>6 DEF Test, Goes
<1>7. ASSUME NEW w \in Workers, CondWait(w) PROVE TypeOK'
  BY <1>7 DEF CondWait, Goes
<1>8. ASSUME NEW w \in Workers, Relock(w) PROVE TypeOK'
  BY <1>8 DEF Relock, Goes, Free
<1>9. ASSUME NEW w \in Workers, Check(w) PROVE TypeOK'
  BY <1>9 DEF Check, Goes
<1>10. ASSUME NEW w \in Workers, Take(w) PROVE TypeOK'
  BY <1>10 DEF Take, Pending
<1>11. ASSUME NEW w \in Workers, Launch(w) PROVE TypeOK'
  BY <1>11 DEF Launch, Goes
<1>12. ASSUME NEW w \in Workers, LaunchFails(w) PROVE TypeOK'
  BY <1>12 DEF LaunchFails, Goes, Free
<1>13. ASSUME NEW w \in Workers, Unregister(w) PROVE TypeOK'
  BY <1>13 DEF Unregister, Goes, Free
<1>14. ASSUME NEW w \in Workers, Exit(w) PROVE TypeOK'
  BY <1>14 DEF Exit, Goes, EndThreadsOf
<1>15. ASSUME NEW w \in Workers, SpuriousWakeup(w) PROVE TypeOK'
  BY <1>15 DEF SpuriousWakeup, Alive
<1>16. ASSUME NEW w \in Workers, Kill(w) PROVE TypeOK'
  BY <1>16 DEF Kill, EndThreadsOf, Alive
<1>17. ASSUME NEW w \in Workers, HandleSignal(w) PROVE TypeOK'
  BY <1>17 DEF HandleSignal, Alive
<1>18. ASSUME NEW t \in Tasks, BeginUpdate(t) PROVE TypeOK'
  BY <1>18 DEF BeginUpdate, Free
<1>19. ASSUME NEW t \in Tasks, FinishUpdate(t) PROVE TypeOK'
  BY <1>19 DEF FinishUpdate
<1>20. ASSUME NEW t \in Tasks, Submit(t) PROVE TypeOK'
  BY <1>20 DEF Submit, SignalOne, Free
<1>21. ASSUME NEW t \in Tasks, Cancel(t) PROVE TypeOK'
  BY <1>21 DEF Cancel, Free
<1> QED BY <1>1, <1>2, <1>3, <1>4, <1>5, <1>6, <1>7, <1>8, <1>9, <1>10,
          <1>11, <1>12, <1>13, <1>14, <1>15, <1>16, <1>17, <1>18, <1>19, <1>20, <1>21
       DEF Next, WorkerStep, ExecutorStep

\* A thread enters its critical section with the mutex only, and leaves with it.
LEMMA LockStep == IInv /\ [Next]_vars => LockHeld'
<1> SUFFICES ASSUME IInv, [Next]_vars PROVE LockHeld'
  OBVIOUS
<1> USE PoolAssumption DEF shared, local, IInv, TypeOK, Location, LockHeld
<1>1. CASE UNCHANGED vars
  BY <1>1 DEF vars, shared, local
<1>2. ASSUME NEW w \in Workers, Attach(w) PROVE LockHeld'
  BY <1>2 DEF Attach, Goes
<1>3. ASSUME NEW w \in Workers, Register(w) PROVE LockHeld'
  BY <1>3 DEF Register, Goes, Free
<1>4. ASSUME NEW w \in Workers, EnterLoop(w) PROVE LockHeld'
  BY <1>4 DEF EnterLoop, Goes
<1>5. ASSUME NEW w \in Workers, Lock(w) PROVE LockHeld'
  BY <1>5 DEF Lock, Goes, Free
<1>6. ASSUME NEW w \in Workers, Test(w) PROVE LockHeld'
  BY <1>6 DEF Test, Goes
<1>7. ASSUME NEW w \in Workers, CondWait(w) PROVE LockHeld'
  BY <1>7 DEF CondWait, Goes
<1>8. ASSUME NEW w \in Workers, Relock(w) PROVE LockHeld'
  BY <1>8 DEF Relock, Goes, Free
<1>9. ASSUME NEW w \in Workers, Check(w) PROVE LockHeld'
  BY <1>9 DEF Check, Goes
<1>10. ASSUME NEW w \in Workers, Take(w) PROVE LockHeld'
  BY <1>10 DEF Take
<1>11. ASSUME NEW w \in Workers, Launch(w) PROVE LockHeld'
  BY <1>11 DEF Launch, Goes
<1>12. ASSUME NEW w \in Workers, LaunchFails(w) PROVE LockHeld'
  BY <1>12 DEF LaunchFails, Goes, Free
<1>13. ASSUME NEW w \in Workers, Unregister(w) PROVE LockHeld'
  BY <1>13 DEF Unregister, Goes, Free
<1>14. ASSUME NEW w \in Workers, Exit(w) PROVE LockHeld'
  BY <1>14 DEF Exit, Goes, EndThreadsOf
<1>15. ASSUME NEW w \in Workers, SpuriousWakeup(w) PROVE LockHeld'
  BY <1>15 DEF SpuriousWakeup, Alive
<1>16. ASSUME NEW w \in Workers, Kill(w) PROVE LockHeld'
  BY <1>16 DEF Kill, EndThreadsOf, Alive
<1>17. ASSUME NEW w \in Workers, HandleSignal(w) PROVE LockHeld'
  BY <1>17 DEF HandleSignal, Alive
<1>18. ASSUME NEW t \in Tasks, BeginUpdate(t) PROVE LockHeld'
  BY <1>18 DEF BeginUpdate, Free
<1>19. ASSUME NEW t \in Tasks, FinishUpdate(t) PROVE LockHeld'
  BY <1>19 DEF FinishUpdate
<1>20. ASSUME NEW t \in Tasks, Submit(t) PROVE LockHeld'
  BY <1>20 DEF Submit, SignalOne, Free
<1>21. ASSUME NEW t \in Tasks, Cancel(t) PROVE LockHeld'
  BY <1>21 DEF Cancel, Free
<1> QED BY <1>1, <1>2, <1>3, <1>4, <1>5, <1>6, <1>7, <1>8, <1>9, <1>10,
          <1>11, <1>12, <1>13, <1>14, <1>15, <1>16, <1>17, <1>18, <1>19, <1>20, <1>21
       DEF Next, WorkerStep, ExecutorStep

\* Only a submitter could disturb this, and it needs the mutex the worker holds.
LEMMA TestedStep == IInv /\ [Next]_vars => TestedEmpty'
<1> SUFFICES ASSUME IInv, [Next]_vars PROVE TestedEmpty'
  OBVIOUS
<1> USE PoolAssumption
    DEF shared, local, IInv, TypeOK, Location, LockHeld, TestedEmpty, Pending,
        ShuttingDown
<1>1. CASE UNCHANGED vars
  BY <1>1 DEF vars, shared, local
<1>2. ASSUME NEW w \in Workers, Attach(w) PROVE TestedEmpty'
  BY <1>2 DEF Attach, Goes
<1>3. ASSUME NEW w \in Workers, Register(w) PROVE TestedEmpty'
  BY <1>3 DEF Register, Goes, Free
<1>4. ASSUME NEW w \in Workers, EnterLoop(w) PROVE TestedEmpty'
  BY <1>4 DEF EnterLoop, Goes
<1>5. ASSUME NEW w \in Workers, Lock(w) PROVE TestedEmpty'
  BY <1>5 DEF Lock, Goes, Free
<1>6. ASSUME NEW w \in Workers, Test(w) PROVE TestedEmpty'
  BY <1>6 DEF Test, Goes
<1>7. ASSUME NEW w \in Workers, CondWait(w) PROVE TestedEmpty'
  BY <1>7 DEF CondWait, Goes
<1>8. ASSUME NEW w \in Workers, Relock(w) PROVE TestedEmpty'
  BY <1>8 DEF Relock, Goes, Free
<1>9. ASSUME NEW w \in Workers, Check(w) PROVE TestedEmpty'
  BY <1>9 DEF Check, Goes
<1>10. ASSUME NEW w \in Workers, Take(w) PROVE TestedEmpty'
  BY <1>10 DEF Take
<1>11. ASSUME NEW w \in Workers, Launch(w) PROVE TestedEmpty'
  BY <1>11 DEF Launch, Goes
<1>12. ASSUME NEW w \in Workers, LaunchFails(w) PROVE TestedEmpty'
  BY <1>12 DEF LaunchFails, Goes, Free
<1>13. ASSUME NEW w \in Workers, Unregister(w) PROVE TestedEmpty'
  BY <1>13 DEF Unregister, Goes, Free
<1>14. ASSUME NEW w \in Workers, Exit(w) PROVE TestedEmpty'
  BY <1>14 DEF Exit, Goes, EndThreadsOf
<1>15. ASSUME NEW w \in Workers, SpuriousWakeup(w) PROVE TestedEmpty'
  BY <1>15 DEF SpuriousWakeup, Alive
<1>16. ASSUME NEW w \in Workers, Kill(w) PROVE TestedEmpty'
  BY <1>16 DEF Kill, EndThreadsOf, Alive
<1>17. ASSUME NEW w \in Workers, HandleSignal(w) PROVE TestedEmpty'
  BY <1>17 DEF HandleSignal, Alive
<1>18. ASSUME NEW t \in Tasks, BeginUpdate(t) PROVE TestedEmpty'
  BY <1>18 DEF BeginUpdate, Free
<1>19. ASSUME NEW t \in Tasks, FinishUpdate(t) PROVE TestedEmpty'
  BY <1>19 DEF FinishUpdate
<1>20. ASSUME NEW t \in Tasks, Submit(t) PROVE TestedEmpty'
  BY <1>20 DEF Submit, SignalOne, Free
<1>21. ASSUME NEW t \in Tasks, Cancel(t) PROVE TestedEmpty'
  BY <1>21 DEF Cancel, Free
<1> QED BY <1>1, <1>2, <1>3, <1>4, <1>5, <1>6, <1>7, <1>8, <1>9, <1>10,
          <1>11, <1>12, <1>13, <1>14, <1>15, <1>16, <1>17, <1>18, <1>19, <1>20, <1>21
       DEF Next, WorkerStep, ExecutorStep

\* A worker is on the list from pthread_cond_wait to its wakeup.
LEMMA WaitersStep == IInv /\ [Next]_vars => WaitersSleep'
<1> SUFFICES ASSUME IInv, [Next]_vars PROVE WaitersSleep'
  OBVIOUS
<1> USE PoolAssumption DEF shared, local, IInv, TypeOK, Location, WaitersSleep
<1>1. CASE UNCHANGED vars
  BY <1>1 DEF vars, shared, local
<1>2. ASSUME NEW w \in Workers, Attach(w) PROVE WaitersSleep'
  BY <1>2 DEF Attach, Goes
<1>3. ASSUME NEW w \in Workers, Register(w) PROVE WaitersSleep'
  BY <1>3 DEF Register, Goes, Free
<1>4. ASSUME NEW w \in Workers, EnterLoop(w) PROVE WaitersSleep'
  BY <1>4 DEF EnterLoop, Goes
<1>5. ASSUME NEW w \in Workers, Lock(w) PROVE WaitersSleep'
  BY <1>5 DEF Lock, Goes, Free
<1>6. ASSUME NEW w \in Workers, Test(w) PROVE WaitersSleep'
  BY <1>6 DEF Test, Goes
<1>7. ASSUME NEW w \in Workers, CondWait(w) PROVE WaitersSleep'
  BY <1>7 DEF CondWait, Goes
<1>8. ASSUME NEW w \in Workers, Relock(w) PROVE WaitersSleep'
  BY <1>8 DEF Relock, Goes, Free
<1>9. ASSUME NEW w \in Workers, Check(w) PROVE WaitersSleep'
  BY <1>9 DEF Check, Goes
<1>10. ASSUME NEW w \in Workers, Take(w) PROVE WaitersSleep'
  BY <1>10 DEF Take
<1>11. ASSUME NEW w \in Workers, Launch(w) PROVE WaitersSleep'
  BY <1>11 DEF Launch, Goes
<1>12. ASSUME NEW w \in Workers, LaunchFails(w) PROVE WaitersSleep'
  BY <1>12 DEF LaunchFails, Goes, Free
<1>13. ASSUME NEW w \in Workers, Unregister(w) PROVE WaitersSleep'
  BY <1>13 DEF Unregister, Goes, Free
<1>14. ASSUME NEW w \in Workers, Exit(w) PROVE WaitersSleep'
  BY <1>14 DEF Exit, Goes, EndThreadsOf
<1>15. ASSUME NEW w \in Workers, SpuriousWakeup(w) PROVE WaitersSleep'
  BY <1>15 DEF SpuriousWakeup, Alive
<1>16. ASSUME NEW w \in Workers, Kill(w) PROVE WaitersSleep'
  BY <1>16 DEF Kill, EndThreadsOf, Alive
<1>17. ASSUME NEW w \in Workers, HandleSignal(w) PROVE WaitersSleep'
  BY <1>17 DEF HandleSignal, Alive
<1>18. ASSUME NEW t \in Tasks, BeginUpdate(t) PROVE WaitersSleep'
  BY <1>18 DEF BeginUpdate, Free
<1>19. ASSUME NEW t \in Tasks, FinishUpdate(t) PROVE WaitersSleep'
  BY <1>19 DEF FinishUpdate
<1>20. ASSUME NEW t \in Tasks, Submit(t) PROVE WaitersSleep'
  BY <1>20 DEF Submit, SignalOne, Free
<1>21. ASSUME NEW t \in Tasks, Cancel(t) PROVE WaitersSleep'
  BY <1>21 DEF Cancel, Free
<1> QED BY <1>1, <1>2, <1>3, <1>4, <1>5, <1>6, <1>7, <1>8, <1>9, <1>10,
          <1>11, <1>12, <1>13, <1>14, <1>15, <1>16, <1>17, <1>18, <1>19, <1>20, <1>21
       DEF Next, WorkerStep, ExecutorStep

\* The loop ends for a signal only.
LEMMA LeavesStep == IInv /\ [Next]_vars => LeavesForAReason'
<1> SUFFICES ASSUME IInv, [Next]_vars PROVE LeavesForAReason'
  OBVIOUS
<1> USE PoolAssumption
    DEF shared, local, IInv, TypeOK, Location, LeavesForAReason, ShuttingDown
<1>1. CASE UNCHANGED vars
  BY <1>1 DEF vars, shared, local
<1>2. ASSUME NEW w \in Workers, Attach(w) PROVE LeavesForAReason'
  BY <1>2 DEF Attach, Goes
<1>3. ASSUME NEW w \in Workers, Register(w) PROVE LeavesForAReason'
  BY <1>3 DEF Register, Goes, Free
<1>4. ASSUME NEW w \in Workers, EnterLoop(w) PROVE LeavesForAReason'
  BY <1>4 DEF EnterLoop, Goes
<1>5. ASSUME NEW w \in Workers, Lock(w) PROVE LeavesForAReason'
  BY <1>5 DEF Lock, Goes, Free
<1>6. ASSUME NEW w \in Workers, Test(w) PROVE LeavesForAReason'
  BY <1>6 DEF Test, Goes
<1>7. ASSUME NEW w \in Workers, CondWait(w) PROVE LeavesForAReason'
  BY <1>7 DEF CondWait, Goes
<1>8. ASSUME NEW w \in Workers, Relock(w) PROVE LeavesForAReason'
  BY <1>8 DEF Relock, Goes, Free
<1>9. ASSUME NEW w \in Workers, Check(w) PROVE LeavesForAReason'
  BY <1>9 DEF Check, Goes
<1>10. ASSUME NEW w \in Workers, Take(w) PROVE LeavesForAReason'
  BY <1>10 DEF Take
<1>11. ASSUME NEW w \in Workers, Launch(w) PROVE LeavesForAReason'
  BY <1>11 DEF Launch, Goes
<1>12. ASSUME NEW w \in Workers, LaunchFails(w) PROVE LeavesForAReason'
  BY <1>12 DEF LaunchFails, Goes, Free
<1>13. ASSUME NEW w \in Workers, Unregister(w) PROVE LeavesForAReason'
  BY <1>13 DEF Unregister, Goes, Free
<1>14. ASSUME NEW w \in Workers, Exit(w) PROVE LeavesForAReason'
  BY <1>14 DEF Exit, Goes, EndThreadsOf
<1>15. ASSUME NEW w \in Workers, SpuriousWakeup(w) PROVE LeavesForAReason'
  BY <1>15 DEF SpuriousWakeup, Alive
<1>16. ASSUME NEW w \in Workers, Kill(w) PROVE LeavesForAReason'
  BY <1>16 DEF Kill, EndThreadsOf, Alive
<1>17. ASSUME NEW w \in Workers, HandleSignal(w) PROVE LeavesForAReason'
  BY <1>17 DEF HandleSignal, Alive
<1>18. ASSUME NEW t \in Tasks, BeginUpdate(t) PROVE LeavesForAReason'
  BY <1>18 DEF BeginUpdate, Free
<1>19. ASSUME NEW t \in Tasks, FinishUpdate(t) PROVE LeavesForAReason'
  BY <1>19 DEF FinishUpdate
<1>20. ASSUME NEW t \in Tasks, Submit(t) PROVE LeavesForAReason'
  BY <1>20 DEF Submit, SignalOne, Free
<1>21. ASSUME NEW t \in Tasks, Cancel(t) PROVE LeavesForAReason'
  BY <1>21 DEF Cancel, Free
<1> QED BY <1>1, <1>2, <1>3, <1>4, <1>5, <1>6, <1>7, <1>8, <1>9, <1>10,
          <1>11, <1>12, <1>13, <1>14, <1>15, <1>16, <1>17, <1>18, <1>19, <1>20, <1>21
       DEF Next, WorkerStep, ExecutorStep

\* Between taking a task and launching it nobody else touches the task.
LEMMA HandStep == IInv /\ [Next]_vars => HandIsRunning'
<1> SUFFICES ASSUME IInv, [Next]_vars PROVE HandIsRunning'
  OBVIOUS
<1> USE PoolAssumption
    DEF shared, local, IInv, TypeOK, Location, HandIsRunning, ThreadIsRunning, Pending
<1>1. CASE UNCHANGED vars
  BY <1>1 DEF vars, shared, local
<1>2. ASSUME NEW w \in Workers, Attach(w) PROVE HandIsRunning'
  BY <1>2 DEF Attach, Goes
<1>3. ASSUME NEW w \in Workers, Register(w) PROVE HandIsRunning'
  BY <1>3 DEF Register, Goes, Free
<1>4. ASSUME NEW w \in Workers, EnterLoop(w) PROVE HandIsRunning'
  BY <1>4 DEF EnterLoop, Goes
<1>5. ASSUME NEW w \in Workers, Lock(w) PROVE HandIsRunning'
  BY <1>5 DEF Lock, Goes, Free
<1>6. ASSUME NEW w \in Workers, Test(w) PROVE HandIsRunning'
  BY <1>6 DEF Test, Goes
<1>7. ASSUME NEW w \in Workers, CondWait(w) PROVE HandIsRunning'
  BY <1>7 DEF CondWait, Goes
<1>8. ASSUME NEW w \in Workers, Relock(w) PROVE HandIsRunning'
  BY <1>8 DEF Relock, Goes, Free
<1>9. ASSUME NEW w \in Workers, Check(w) PROVE HandIsRunning'
  BY <1>9 DEF Check, Goes
<1>10. ASSUME NEW w \in Workers, Take(w) PROVE HandIsRunning'
  BY <1>10 DEF Take
<1>11. ASSUME NEW w \in Workers, Launch(w) PROVE HandIsRunning'
  BY <1>11 DEF Launch, Goes
<1>12. ASSUME NEW w \in Workers, LaunchFails(w) PROVE HandIsRunning'
  BY <1>12 DEF LaunchFails, Goes, Free
<1>13. ASSUME NEW w \in Workers, Unregister(w) PROVE HandIsRunning'
  BY <1>13 DEF Unregister, Goes, Free
<1>14. ASSUME NEW w \in Workers, Exit(w) PROVE HandIsRunning'
  BY <1>14 DEF Exit, Goes, EndThreadsOf
<1>15. ASSUME NEW w \in Workers, SpuriousWakeup(w) PROVE HandIsRunning'
  BY <1>15 DEF SpuriousWakeup, Alive
<1>16. ASSUME NEW w \in Workers, Kill(w) PROVE HandIsRunning'
  BY <1>16 DEF Kill, EndThreadsOf, Alive
<1>17. ASSUME NEW w \in Workers, HandleSignal(w) PROVE HandIsRunning'
  BY <1>17 DEF HandleSignal, Alive
<1>18. ASSUME NEW t \in Tasks, BeginUpdate(t) PROVE HandIsRunning'
  BY <1>18 DEF BeginUpdate, Free
<1>19. ASSUME NEW t \in Tasks, FinishUpdate(t) PROVE HandIsRunning'
  BY <1>19 DEF FinishUpdate
<1>20. ASSUME NEW t \in Tasks, Submit(t) PROVE HandIsRunning'
  BY <1>20 DEF Submit, SignalOne, Free
<1>21. ASSUME NEW t \in Tasks, Cancel(t) PROVE HandIsRunning'
  BY <1>21 DEF Cancel, Free
<1> QED BY <1>1, <1>2, <1>3, <1>4, <1>5, <1>6, <1>7, <1>8, <1>9, <1>10,
          <1>11, <1>12, <1>13, <1>14, <1>15, <1>16, <1>17, <1>18, <1>19, <1>20, <1>21
       DEF Next, WorkerStep, ExecutorStep

\* The same from the launch to the update of the status.
LEMMA ThreadStep == IInv /\ [Next]_vars => ThreadIsRunning'
<1> SUFFICES ASSUME IInv, [Next]_vars PROVE ThreadIsRunning'
  OBVIOUS
<1> USE PoolAssumption
    DEF shared, local, IInv, TypeOK, Location, HandIsRunning, ThreadIsRunning, LockHeld,
        Pending
<1>1. CASE UNCHANGED vars
  BY <1>1 DEF vars, shared, local
<1>2. ASSUME NEW w \in Workers, Attach(w) PROVE ThreadIsRunning'
  BY <1>2 DEF Attach, Goes
<1>3. ASSUME NEW w \in Workers, Register(w) PROVE ThreadIsRunning'
  BY <1>3 DEF Register, Goes, Free
<1>4. ASSUME NEW w \in Workers, EnterLoop(w) PROVE ThreadIsRunning'
  BY <1>4 DEF EnterLoop, Goes
<1>5. ASSUME NEW w \in Workers, Lock(w) PROVE ThreadIsRunning'
  BY <1>5 DEF Lock, Goes, Free
<1>6. ASSUME NEW w \in Workers, Test(w) PROVE ThreadIsRunning'
  BY <1>6 DEF Test, Goes
<1>7. ASSUME NEW w \in Workers, CondWait(w) PROVE ThreadIsRunning'
  BY <1>7 DEF CondWait, Goes
<1>8. ASSUME NEW w \in Workers, Relock(w) PROVE ThreadIsRunning'
  BY <1>8 DEF Relock, Goes, Free
<1>9. ASSUME NEW w \in Workers, Check(w) PROVE ThreadIsRunning'
  BY <1>9 DEF Check, Goes
<1>10. ASSUME NEW w \in Workers, Take(w) PROVE ThreadIsRunning'
  BY <1>10 DEF Take
<1>11. ASSUME NEW w \in Workers, Launch(w) PROVE ThreadIsRunning'
  BY <1>11 DEF Launch, Goes
<1>12. ASSUME NEW w \in Workers, LaunchFails(w) PROVE ThreadIsRunning'
  BY <1>12 DEF LaunchFails, Goes, Free
<1>13. ASSUME NEW w \in Workers, Unregister(w) PROVE ThreadIsRunning'
  BY <1>13 DEF Unregister, Goes, Free
<1>14. ASSUME NEW w \in Workers, Exit(w) PROVE ThreadIsRunning'
  BY <1>14 DEF Exit, Goes, EndThreadsOf
<1>15. ASSUME NEW w \in Workers, SpuriousWakeup(w) PROVE ThreadIsRunning'
  BY <1>15 DEF SpuriousWakeup, Alive
<1>16. ASSUME NEW w \in Workers, Kill(w) PROVE ThreadIsRunning'
  BY <1>16 DEF Kill, EndThreadsOf, Alive
<1>17. ASSUME NEW w \in Workers, HandleSignal(w) PROVE ThreadIsRunning'
  BY <1>17 DEF HandleSignal, Alive
<1>18. ASSUME NEW t \in Tasks, BeginUpdate(t) PROVE ThreadIsRunning'
  BY <1>18 DEF BeginUpdate, Free
<1>19. ASSUME NEW t \in Tasks, FinishUpdate(t) PROVE ThreadIsRunning'
  BY <1>19 DEF FinishUpdate
<1>20. ASSUME NEW t \in Tasks, Submit(t) PROVE ThreadIsRunning'
  BY <1>20 DEF Submit, SignalOne, Free
<1>21. ASSUME NEW t \in Tasks, Cancel(t) PROVE ThreadIsRunning'
  BY <1>21 DEF Cancel, Free
<1> QED BY <1>1, <1>2, <1>3, <1>4, <1>5, <1>6, <1>7, <1>8, <1>9, <1>10,
          <1>11, <1>12, <1>13, <1>14, <1>15, <1>16, <1>17, <1>18, <1>19, <1>20, <1>21
       DEF Next, WorkerStep, ExecutorStep

\* A task passes from hand to hand, and only the end of a process drops it.
LEMMA InHandStep == IInv /\ [Next]_vars => RunningIsInHand'
<1> SUFFICES ASSUME IInv, [Next]_vars PROVE RunningIsInHand'
  OBVIOUS
<1> USE PoolAssumption
    DEF shared, local, IInv, TypeOK, Location, HandIsRunning, ThreadIsRunning,
        RunningIsInHand, Holders, Pending
<1>1. CASE UNCHANGED vars
  BY <1>1 DEF vars, shared, local
<1>2. ASSUME NEW w \in Workers, Attach(w) PROVE RunningIsInHand'
  BY <1>2 DEF Attach, Goes
<1>3. ASSUME NEW w \in Workers, Register(w) PROVE RunningIsInHand'
  BY <1>3 DEF Register, Goes, Free
<1>4. ASSUME NEW w \in Workers, EnterLoop(w) PROVE RunningIsInHand'
  BY <1>4 DEF EnterLoop, Goes
<1>5. ASSUME NEW w \in Workers, Lock(w) PROVE RunningIsInHand'
  BY <1>5 DEF Lock, Goes, Free
<1>6. ASSUME NEW w \in Workers, Test(w) PROVE RunningIsInHand'
  BY <1>6 DEF Test, Goes
<1>7. ASSUME NEW w \in Workers, CondWait(w) PROVE RunningIsInHand'
  BY <1>7 DEF CondWait, Goes
<1>8. ASSUME NEW w \in Workers, Relock(w) PROVE RunningIsInHand'
  BY <1>8 DEF Relock, Goes, Free
<1>9. ASSUME NEW w \in Workers, Check(w) PROVE RunningIsInHand'
  BY <1>9 DEF Check, Goes
<1>10. ASSUME NEW w \in Workers, Take(w) PROVE RunningIsInHand'
  BY <1>10 DEF Take
<1>11. ASSUME NEW w \in Workers, Launch(w) PROVE RunningIsInHand'
  BY <1>11 DEF Launch, Goes
<1>12. ASSUME NEW w \in Workers, LaunchFails(w) PROVE RunningIsInHand'
  BY <1>12 DEF LaunchFails, Goes, Free
<1>13. ASSUME NEW w \in Workers, Unregister(w) PROVE RunningIsInHand'
  BY <1>13 DEF Unregister, Goes, Free
<1>14. ASSUME NEW w \in Workers, Exit(w) PROVE RunningIsInHand'
  BY <1>14 DEF Exit, Goes, EndThreadsOf
<1>15. ASSUME NEW w \in Workers, SpuriousWakeup(w) PROVE RunningIsInHand'
  BY <1>15 DEF SpuriousWakeup, Alive
<1>16. ASSUME NEW w \in Workers, Kill(w) PROVE RunningIsInHand'
  BY <1>16 DEF Kill, EndThreadsOf, Alive
<1>17. ASSUME NEW w \in Workers, HandleSignal(w) PROVE RunningIsInHand'
  BY <1>17 DEF HandleSignal, Alive
<1>18. ASSUME NEW t \in Tasks, BeginUpdate(t) PROVE RunningIsInHand'
  BY <1>18 DEF BeginUpdate, Free
<1>19. ASSUME NEW t \in Tasks, FinishUpdate(t) PROVE RunningIsInHand'
  BY <1>19 DEF FinishUpdate
<1>20. ASSUME NEW t \in Tasks, Submit(t) PROVE RunningIsInHand'
  BY <1>20 DEF Submit, SignalOne, Free
<1>21. ASSUME NEW t \in Tasks, Cancel(t) PROVE RunningIsInHand'
  BY <1>21 DEF Cancel, Free
<1> QED BY <1>1, <1>2, <1>3, <1>4, <1>5, <1>6, <1>7, <1>8, <1>9, <1>10,
          <1>11, <1>12, <1>13, <1>14, <1>15, <1>16, <1>17, <1>18, <1>19, <1>20, <1>21
       DEF Next, WorkerStep, ExecutorStep

\* The one wakeup of enqueue_task is enough.
LEMMA WakeupStep == IInv /\ [Next]_vars => NoMissedWakeup'
<1> SUFFICES ASSUME IInv, [Next]_vars PROVE NoMissedWakeup'
  OBVIOUS
<1> USE PoolAssumption
    DEF shared, local, IInv, TypeOK, Location, TestedEmpty, WaitersSleep,
        LeavesForAReason, NoMissedWakeup, Undisturbed, ShuttingDown, Pending
<1>1. CASE UNCHANGED vars
  BY <1>1 DEF vars, shared, local
<1>2. ASSUME NEW w \in Workers, Attach(w) PROVE NoMissedWakeup'
  BY <1>2 DEF Attach, Goes
<1>3. ASSUME NEW w \in Workers, Register(w) PROVE NoMissedWakeup'
  BY <1>3 DEF Register, Goes, Free
<1>4. ASSUME NEW w \in Workers, EnterLoop(w) PROVE NoMissedWakeup'
  BY <1>4 DEF EnterLoop, Goes
<1>5. ASSUME NEW w \in Workers, Lock(w) PROVE NoMissedWakeup'
  BY <1>5 DEF Lock, Goes, Free
<1>6. ASSUME NEW w \in Workers, Test(w) PROVE NoMissedWakeup'
  BY <1>6 DEF Test, Goes
<1>7. ASSUME NEW w \in Workers, CondWait(w) PROVE NoMissedWakeup'
  BY <1>7 DEF CondWait, Goes
<1>8. ASSUME NEW w \in Workers, Relock(w) PROVE NoMissedWakeup'
  BY <1>8 DEF Relock, Goes, Free
<1>9. ASSUME NEW w \in Workers, Check(w) PROVE NoMissedWakeup'
  BY <1>9 DEF Check, Goes
<1>10. ASSUME NEW w \in Workers, Take(w) PROVE NoMissedWakeup'
  BY <1>10 DEF Take
<1>11. ASSUME NEW w \in Workers, Launch(w) PROVE NoMissedWakeup'
  BY <1>11 DEF Launch, Goes
<1>12. ASSUME NEW w \in Workers, LaunchFails(w) PROVE NoMissedWakeup'
  BY <1>12 DEF LaunchFails, Goes, Free
<1>13. ASSUME NEW w \in Workers, Unregister(w) PROVE NoMissedWakeup'
  BY <1>13 DEF Unregister, Goes, Free
<1>14. ASSUME NEW w \in Workers, Exit(w) PROVE NoMissedWakeup'
  BY <1>14 DEF Exit, Goes, EndThreadsOf
<1>15. ASSUME NEW w \in Workers, SpuriousWakeup(w) PROVE NoMissedWakeup'
  BY <1>15 DEF SpuriousWakeup, Alive
<1>16. ASSUME NEW w \in Workers, Kill(w) PROVE NoMissedWakeup'
  BY <1>16 DEF Kill, EndThreadsOf, Alive
<1>17. ASSUME NEW w \in Workers, HandleSignal(w) PROVE NoMissedWakeup'
  BY <1>17 DEF HandleSignal, Alive
<1>18. ASSUME NEW t \in Tasks, BeginUpdate(t) PROVE NoMissedWakeup'
  BY <1>18 DEF BeginUpdate, Free
<1>19. ASSUME NEW t \in Tasks, FinishUpdate(t) PROVE NoMissedWakeup'
  BY <1>19 DEF FinishUpdate
<1>20. ASSUME NEW t \in Tasks, Submit(t) PROVE NoMissedWakeup'
  BY <1>20 DEF Submit, SignalOne, Free
<1>21. ASSUME NEW t \in Tasks, Cancel(t) PROVE NoMissedWakeup'
  BY <1>21 DEF Cancel, Free
<1> QED BY <1>1, <1>2, <1>3, <1>4, <1>5, <1>6, <1>7, <1>8, <1>9, <1>10,
          <1>11, <1>12, <1>13, <1>14, <1>15, <1>16, <1>17, <1>18, <1>19, <1>20, <1>21
       DEF Next, WorkerStep, ExecutorStep
-----------------------------------------------------------------------------
LEMMA InitHolds == Init => IInv
<1> SUFFICES ASSUME Init PROVE IInv
  OBVIOUS
<1> USE PoolAssumption DEF Init
<1>1. TypeOK
  <2>1. waiters \subseteq Workers /\ killed \subseteq Workers /\ spurious \in 0..MaxSpurious
    OBVIOUS
  <2>2. /\ status \in [Tasks -> {"NONE", "PENDING", "RUNNING", "COMPLETED", "FAILED"}]
        /\ executor \in [Tasks -> {"none", "sleeping", "updating", "done", "dead"}]
        /\ worker_id \in [Tasks -> Workers \cup {NoThread}]
    OBVIOUS
  <2>3. pc \in [Workers -> Location] /\ task \in [Workers -> Tasks \cup {NoThread}]
    BY DEF Location
  <2>4. shutdown_requested \in [Workers -> BOOLEAN] /\ shutdown_flag \in BOOLEAN
    OBVIOUS
  <2>5. mutex \in Workers \cup Tasks \cup {NoThread} /\ num_active_workers \in Nat
    OBVIOUS
  <2> QED BY <2>1, <2>2, <2>3, <2>4, <2>5 DEF TypeOK
<1>2. LockHeld /\ TestedEmpty /\ WaitersSleep /\ LeavesForAReason
  BY DEF LockHeld, TestedEmpty, WaitersSleep, LeavesForAReason, Pending
<1>3. HandIsRunning /\ ThreadIsRunning /\ RunningIsInHand
  BY DEF HandIsRunning, ThreadIsRunning, RunningIsInHand
<1>4. NoMissedWakeup
  BY DEF NoMissedWakeup, Pending
<1> QED BY <1>1, <1>2, <1>3, <1>4 DEF IInv

LEMMA NextHolds == IInv /\ [Next]_vars => IInv'
BY TypeStep, LockStep, TestedStep, WaitersStep, LeavesStep, HandStep, ThreadStep,
   InHandStep, WakeupStep DEF IInv

THEOREM Inductive == Spec => []IInv
BY InitHolds, NextHolds, PTL DEF Spec

\* The copies of one task carry one worker's id, which makes two holders the same.
LEMMA HandsAreDistinct == IInv => HeldOnce
<1> SUFFICES ASSUME IInv, NEW t \in Tasks
             PROVE  /\ \A v, w \in Holders(t) : v = w
                    /\ executor[t] # "none" => Holders(t) = {}
                    /\ Holders(t) # {} \/ executor[t] \in {"sleeping", "updating"} =>
                           status[t] = "RUNNING"
  BY DEF HeldOnce
<1>1. \A w \in Holders(t) :
          worker_id[t] = w /\ executor[t] = "none" /\ status[t] = "RUNNING"
  BY DEF Holders, IInv, HandIsRunning
<1>2. executor[t] \in {"sleeping", "updating"} => status[t] = "RUNNING"
  BY DEF IInv, ThreadIsRunning
<1> QED BY <1>1, <1>2

\* The variables of the pool keep their types.
THEOREM PoolTypeCorrect == Spec => []TypeOK
<1>1. IInv => TypeOK
  BY DEF IInv
<1> QED BY Inductive, <1>1, PTL

\* No wakeup of enqueue_task is lost while nobody shuts down or is killed.
THEOREM NoWakeupIsMissed == Spec => []NoMissedWakeup
<1>1. IInv => NoMissedWakeup
  BY DEF IInv
<1> QED BY Inductive, <1>1, PTL

\* No task is executed twice, nor cancelled or finished while somebody holds it.
THEOREM TasksAreHeldOnce == Spec => []HeldOnce
<1> QED BY Inductive, HandsAreDistinct, PTL

\* Only the end of a worker process leaves a task RUNNING with nobody to finish it.
THEOREM OnlyAnEndStrands == Spec => []RunningIsInHand
<1>1. IInv => RunningIsInHand
  BY DEF IInv
<1> QED BY Inductive, <1>1, PTL
=============================================================================
