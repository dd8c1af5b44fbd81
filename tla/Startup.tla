------------------------------ MODULE Startup ------------------------------
(***************************************************************************)
(* The life of the shared memory segment and of the processes on it, from  *)
(* one scheduler to the next: init_shared_memory and attach_shared_memory, *)
(* the start and the end of scheduler, worker and web server, and the      *)
(* scripts that start and stop them, which know each other by the files    *)
(* scheduler.pid and web_server.pid and by the key of the segment.         *)
(* One operator runs the scripts for the scheduler, one script at a time,  *)
(* and the web server has a terminal of its own.  The pool of a scheduler  *)
(* is one worker here; what a worker or a web server does with the queue   *)
(* is in WorkerPool and WebServer.  A segment goes by the name of the      *)
(* scheduler that created it.                                              *)
(***************************************************************************)
EXTENDS Naturals, FiniteSets

CONSTANTS
    MaxLaunches,     \* bound: how many schedulers are started
    MaxWebLaunches,  \* bound: how many web servers are started
    MaxIncidents,    \* bound: web servers started and workers struck, together
    None             \* no process, no segment

ASSUME StartupAssumption ==
    /\ MaxLaunches \in Nat
    /\ MaxWebLaunches \in Nat
    /\ MaxIncidents \in Nat
    /\ None \notin Nat

Scheds == 1..MaxLaunches
Webs == 1..MaxWebLaunches

VARIABLES
    \* in the kernel and in the file system
    key,             \* the segment SHM_KEY leads to
    ready,           \* the segments whose mutex is initialized
    flag,            \* the segments whose shutdown_flag is set
    pidfile,         \* scheduler.pid
    webfile,         \* web_server.pid
    \* the processes
    sched_pc, seg, sched_shutdown,
    worker_pc, wseg, worker_shutdown,   \* of the worker that a scheduler started
    web_pc, webseg,
    \* the scripts
    op, after, pid,  \* the operator's: where it is, what follows, its variable PID
    shell, web_pid,  \* start_web_dashboard.sh: where it is, its variable WEB_PID
    \* history
    by_hand,         \* the schedulers that were not started by start_scheduler.sh
    orphaned,        \* the living schedulers whose scheduler.pid make distclean removed
    told,            \* the living schedulers whose worker somebody sent a signal
    doubtful,        \* the web servers started without a living scheduler.pid
    unseen           \* the web servers cleanup.sh could not find

segment == <<key, ready, flag>>
standing == <<sched_shutdown, orphaned, told>>  \* what is to be said about the schedulers
schedVars == <<sched_pc, seg, standing>>
workerVars == <<worker_pc, wseg, worker_shutdown>>
webVars == <<web_pc, webseg, doubtful, unseen>>
opVars == <<op, after, pid>>
shellVars == <<shell, web_pid>>
vars == <<segment, pidfile, webfile, schedVars, workerVars, webVars, opVars, shellVars,
          by_hand>>

SchedAlive == {p \in Scheds : sched_pc[p] \notin {"off", "gone"}}
WebAlive == {v \in Webs : web_pc[v] \notin {"off", "gone"}}

Running == {"forked", "attach", "loop"}

\* The pool of the scheduler p has come to nothing: fork or execl failed, or the worker was
\* killed.
NoWorker(p) ==
    worker_pc[p] \in {"failed", "killed"} \/ (worker_pc[p] = "off" /\ sched_pc[p] = "monitor")

\* The bound: may something happen to the workers ws, or the web servers vs be started?
Bounded(ws, vs) ==
    Cardinality(told \cup {w \in Scheds : NoWorker(w)} \cup ws)
    + Cardinality({v \in Webs : web_pc[v] # "off"} \cup vs) <= MaxIncidents

CleaningUp == op \in {"end_web", "kill_sched", "end_sched", "kill_workers", "remove"}

\* p is a living scheduler on the segment that it created.
OwnSegment(p) == p \in SchedAlive /\ seg[p] = p

SegmentTypes ==
    /\ key \in Scheds \cup {None}
    /\ ready \subseteq Scheds
    /\ flag \subseteq Scheds
    /\ pidfile \in Scheds \cup {None}
    /\ webfile \in Webs \cup {None}

\* Who works has a segment.
SchedTypes ==
    /\ sched_pc \in [Scheds -> {"off", "get", "get_existing", "init", "attach",
                                "spawn", "monitor", "reap", "gone"}]
    /\ seg \in [Scheds -> Scheds \cup {None}]
    /\ sched_shutdown \cup orphaned \cup told \subseteq Scheds
    /\ \A p \in Scheds : sched_pc[p] \in {"init", "attach", "spawn", "monitor", "reap"} =>
                             seg[p] # None

WorkerTypes ==
    /\ worker_pc \in [Scheds -> {"off", "forked", "attach", "loop", "failed", "killed", "gone"}]
    /\ wseg \in [Scheds -> Scheds \cup {None}]
    /\ worker_shutdown \subseteq Scheds
    /\ \A w \in Scheds : worker_pc[w] \in {"forked", "loop"} <=> wseg[w] # None

WebTypes ==
    /\ web_pc \in [Webs -> {"off", "attach", "serve", "gone"}]
    /\ webseg \in [Webs -> Scheds \cup {None}]
    /\ doubtful \cup unseen \subseteq Webs
    /\ \A v \in Webs : web_pc[v] = "serve" <=> webseg[v] # None

ScriptTypes ==
    /\ op \in {"idle", "kill_web", "end_web", "kill_sched", "end_sched",
               "kill_workers", "remove", "launch", "started"}
    /\ after \in {"idle", "launch"}
    /\ pid \in Scheds \cup Webs \cup {None}
    /\ shell \in {"idle", "settle", "wait"}
    /\ web_pid \in Webs \cup {None}
    /\ by_hand \subseteq Scheds

StartupTypeOK == SegmentTypes /\ SchedTypes /\ WorkerTypes /\ WebTypes /\ ScriptTypes

Init ==
    /\ key = None
    /\ ready = {}
    /\ flag = {}
    /\ pidfile = None
    /\ webfile = None
    /\ sched_pc = [p \in Scheds |-> "off"]
    /\ seg = [p \in Scheds |-> None]
    /\ sched_shutdown = {}
    /\ worker_pc = [p \in Scheds |-> "off"]
    /\ wseg = [p \in Scheds |-> None]
    /\ worker_shutdown = {}
    /\ web_pc = [v \in Webs |-> "off"]
    /\ webseg = [v \in Webs |-> None]
    /\ op = "idle"
    /\ after = "idle"
    /\ pid = None
    /\ shell = "idle"
    /\ web_pid = None
    /\ by_hand = {}
    /\ orphaned = {}
    /\ told = {}
    /\ doubtful = {}
    /\ unseen = {}
-----------------------------------------------------------------------------
(* The scheduler: init_shared_memory, attach_shared_memory, main.          *)

Goes(p, from, to) ==
    /\ sched_pc[p] = from
    /\ sched_pc' = [sched_pc EXCEPT ![p] = to]

\* shmget with IPC_CREAT and IPC_EXCL.
Get(p) ==
    /\ Goes(p, "get", IF key = None THEN "init" ELSE "get_existing")
    /\ key' = IF key = None THEN p ELSE key
    /\ seg' = [seg EXCEPT ![p] = IF key = None THEN p ELSE @]
    /\ UNCHANGED <<ready, flag, pidfile, webfile, standing, workerVars, webVars,
                   opVars, shellVars, by_hand>>

\* Wrong: leaves the mutex as shmget made it.
Initialize_NoMutex(p) ==
    /\ Goes(p, "init", "attach")
    /\ flag' = flag \ {p}
    /\ UNCHANGED <<key, ready, pidfile, webfile, seg, standing, workerVars, webVars,
                   opVars, shellVars, by_hand>>

\* Only the creator initializes.
Initialize(p) ==
    /\ Goes(p, "init", "attach")
    /\ ready' = ready \cup {p}
    /\ flag' = flag \ {p}
    /\ UNCHANGED <<key, pidfile, webfile, seg, standing, workerVars, webVars,
                   opVars, shellVars, by_hand>>

\* The end of the process p and of its memory.
SchedEnds(p) ==
    /\ sched_pc' = [sched_pc EXCEPT ![p] = "gone"]
    /\ seg' = [seg EXCEPT ![p] = None]
    /\ sched_shutdown' = sched_shutdown \ {p}
    /\ orphaned' = orphaned \ {p}
    /\ told' = told \ {p}

\* EEXIST: shmget once more, without IPC_CREAT, which fails if the segment has gone since.
GetExisting(p) ==
    /\ sched_pc[p] = "get_existing"
    /\ IF key = None
         THEN SchedEnds(p)
         ELSE /\ Goes(p, "get_existing", "attach")
              /\ seg' = [seg EXCEPT ![p] = key]
              /\ UNCHANGED standing
    /\ UNCHANGED <<segment, pidfile, webfile, workerVars, webVars, opVars, shellVars, by_hand>>

\* attach_shared_memory, then the pid in the file.
WritePid(p) ==
    /\ Goes(p, "attach", "spawn")
    /\ pidfile' = p
    /\ UNCHANGED <<segment, webfile, seg, standing, workerVars, webVars, opVars,
                   shellVars, by_hand>>

\* The child has the segment of its parent, until execl.
Fork(p) ==
    /\ Goes(p, "spawn", "monitor")
    /\ worker_pc' = [worker_pc EXCEPT ![p] = "forked"]
    /\ wseg' = [wseg EXCEPT ![p] = seg[p]]
    /\ UNCHANGED <<segment, pidfile, webfile, seg, standing, worker_shutdown,
                   webVars, opVars, shellVars, by_hand>>

\* fork fails: the scheduler counts one worker less and goes on.
ForkFails(p) ==
    /\ Goes(p, "spawn", "monitor")
    /\ Bounded({p}, {})
    /\ UNCHANGED <<segment, pidfile, webfile, seg, standing, workerVars, webVars, opVars,
                   shellVars, by_hand>>

\* The end of the workers ws, and of their memory.
WorkersEnd(ws) ==
    /\ worker_pc' = [w \in Scheds |-> IF w \in ws THEN "gone" ELSE worker_pc[w]]
    /\ wseg' = [w \in Scheds |-> IF w \in ws THEN None ELSE wseg[w]]

\* What a SIGTERM to the workers ws does: before execl the child has the scheduler's
\* handler and memory, and the process execl makes of it remembers nothing; before main
\* has set its handler it ends the process.
SignalWorkers(ws) ==
    LET At(place) == {w \in ws : worker_pc[w] = place}
    IN  \E early \in SUBSET At("attach") :
          /\ WorkersEnd(early)
          /\ worker_shutdown' = worker_shutdown \cup (At("attach") \ early) \cup At("loop")
          /\ flag' = flag \cup {wseg[w] : w \in At("forked") \cup At("loop")}

\* cleanup_resources, first its SIGTERM and then, when the worker has ended, the rest.
Terminate(p) ==
    /\ p \in sched_shutdown
    /\ Goes(p, "monitor", "reap")
    /\ SignalWorkers({p})
    /\ UNCHANGED <<key, ready, pidfile, webfile, seg, standing, webVars, opVars,
                   shellVars, by_hand>>

\* destroy_shared_memory is commented out: the segment and its flag stay.
Finish(p) ==
    /\ sched_pc[p] = "reap"
    /\ worker_pc[p] \notin Running
    /\ SchedEnds(p)
    /\ flag' = flag \cup {seg[p]}
    /\ UNCHANGED <<key, ready, pidfile, webfile, workerVars, webVars,
                   opVars, shellVars, by_hand>>

\* signal_handler of the scheduler.
SignalSched(p) ==
    /\ sched_shutdown' = sched_shutdown \cup {p}
    /\ flag' = IF sched_pc[p] \in {"spawn", "monitor", "reap"}
                 THEN flag \cup {seg[p]} ELSE flag
    /\ UNCHANGED <<sched_pc, seg, orphaned, told>>
-----------------------------------------------------------------------------
(* The worker of the scheduler w.                                          *)

Exec(w) ==
    /\ worker_pc[w] = "forked"
    /\ worker_pc' = [worker_pc EXCEPT ![w] = "attach"]
    /\ wseg' = [wseg EXCEPT ![w] = None]
    /\ UNCHANGED <<segment, pidfile, webfile, schedVars, worker_shutdown, webVars,
                   opVars, shellVars, by_hand>>

\* execl fails: exit runs the atexit function the child inherited, the cleanup_resources of
\* the scheduler, which announces a shutdown in the scheduler's queue.
ExecFails(w) ==
    /\ worker_pc[w] = "forked"
    /\ Bounded({w}, {})
    /\ worker_pc' = [worker_pc EXCEPT ![w] = "failed"]
    /\ wseg' = [wseg EXCEPT ![w] = None]
    /\ flag' = flag \cup {wseg[w]}
    /\ UNCHANGED <<key, ready, pidfile, webfile, schedVars, worker_shutdown, webVars, opVars,
                   shellVars, by_hand>>

\* attach_shared_memory(-1): by the key, whoever's segment it leads to by now.
WorkerAttach(w) ==
    /\ worker_pc[w] = "attach"
    /\ IF key = None
         THEN WorkersEnd({w})
         ELSE /\ worker_pc' = [worker_pc EXCEPT ![w] = "loop"]
              /\ wseg' = [wseg EXCEPT ![w] = key]
    /\ UNCHANGED <<segment, pidfile, webfile, schedVars, worker_shutdown, webVars,
                   opVars, shellVars, by_hand>>

WorkerLeaves(w) ==
    /\ worker_pc[w] = "loop"
    /\ w \in worker_shutdown \/ wseg[w] \in flag
    /\ WorkersEnd({w})
    /\ worker_shutdown' = worker_shutdown \ {w}
    /\ UNCHANGED <<segment, pidfile, webfile, schedVars, webVars,
                   opVars, shellVars, by_hand>>

\* Somebody sends the worker SIGTERM or SIGINT ...
SignalWorker(w) ==
    /\ worker_pc[w] \in Running
    /\ Bounded({w}, {})
    /\ SignalWorkers({w})
    /\ told' = told \cup ({w} \cap SchedAlive)
    /\ UNCHANGED <<key, ready, pidfile, webfile, sched_pc, seg, sched_shutdown, orphaned,
                   webVars, opVars, shellVars, by_hand>>

\* ... or SIGKILL, or the worker crashes.
KillWorker(w) ==
    /\ worker_pc[w] \in Running
    /\ Bounded({w}, {})
    /\ worker_pc' = [worker_pc EXCEPT ![w] = "killed"]
    /\ wseg' = [wseg EXCEPT ![w] = None]
    /\ worker_shutdown' = worker_shutdown \ {w}
    /\ UNCHANGED <<segment, pidfile, webfile, schedVars, webVars, opVars, shellVars, by_hand>>
-----------------------------------------------------------------------------
(* The web server and the script that starts it in its terminal.           *)

\* The end of the web server v and of its memory, and of what is to be said about it.
WebEnds(v) ==
    /\ web_pc' = [web_pc EXCEPT ![v] = "gone"]
    /\ webseg' = [webseg EXCEPT ![v] = None]
    /\ doubtful' = doubtful \ {v}
    /\ unseen' = unseen \ {v}

\* start_web_dashboard.sh: without a scheduler.pid it only warns.
StartWeb(v) ==
    /\ shell = "idle"
    /\ Bounded({}, {v})
    /\ web_pc[v] = "off" /\ \A u \in Webs : u < v => web_pc[u] # "off"
    /\ webfile \notin WebAlive
    /\ shell' = "settle"
    /\ web_pid' = v
    /\ webfile' = None
    /\ web_pc' = [web_pc EXCEPT ![v] = "attach"]
    /\ doubtful' = IF OwnSegment(pidfile) THEN doubtful ELSE doubtful \cup {v}
    /\ unseen' = IF CleaningUp THEN unseen \cup {v} ELSE unseen
    /\ UNCHANGED <<segment, pidfile, schedVars, workerVars, webseg, opVars,
                   by_hand>>

\* Wrong: does not look whether there is a segment.
WebAttach_Unchecked(v) ==
    /\ web_pc[v] = "attach"
    /\ web_pc' = [web_pc EXCEPT ![v] = "serve"]
    /\ webseg' = [webseg EXCEPT ![v] = key]
    /\ UNCHANGED <<segment, pidfile, webfile, schedVars, workerVars, doubtful, unseen, opVars,
                   shellVars, by_hand>>

\* attach_shared_memory(-1), then bind, which fails while another server has the port.
WebAttach(v) ==
    /\ web_pc[v] = "attach"
    /\ IF key = None \/ \E u \in Webs : web_pc[u] = "serve"
         THEN WebEnds(v)
         ELSE /\ web_pc' = [web_pc EXCEPT ![v] = "serve"]
              /\ webseg' = [webseg EXCEPT ![v] = key]
              /\ UNCHANGED <<doubtful, unseen>>
    /\ UNCHANGED <<segment, pidfile, webfile, schedVars, workerVars, opVars, shellVars,
                   by_hand>>

\* One second later the script writes the pid, if the server still runs.
Settle ==
    /\ shell = "settle"
    /\ shell' = IF web_pid \in WebAlive THEN "wait" ELSE "idle"
    /\ web_pid' = IF web_pid \in WebAlive THEN web_pid ELSE None
    /\ webfile' = web_pid'
    /\ UNCHANGED <<segment, pidfile, schedVars, workerVars, webVars, opVars, by_hand>>

\* Ctrl+C: the trap sends SIGTERM and forgets the server, which still has to notice.
Interrupt ==
    /\ shell = "wait"
    /\ shell' = "idle"
    /\ web_pid' = None
    /\ webfile' = None
    /\ UNCHANGED <<segment, pidfile, schedVars, workerVars, webVars, opVars, by_hand>>

\* The script also ends when the server has ended.
WaitReturns ==
    /\ shell = "wait" /\ web_pid \notin WebAlive
    /\ shell' = "idle"
    /\ web_pid' = None
    /\ UNCHANGED <<segment, pidfile, webfile, schedVars, workerVars, webVars, opVars,
                   by_hand>>

\* Told to stop, a server stops at its next connection; before main has set its handler
\* SIGTERM ends it, and SIGPIPE ends it at any time.
WebLeaves(v) ==
    /\ web_pc[v] \in {"attach", "serve"}
    /\ WebEnds(v)
    /\ UNCHANGED <<segment, pidfile, webfile, schedVars, workerVars, opVars, shellVars,
                   by_hand>>
-----------------------------------------------------------------------------
(* The operator's scripts.                                                 *)

Script(from, to) == op = from /\ op' = to

\* A new scheduler process.
Launch(p) ==
    /\ sched_pc[p] = "off" /\ \A q \in 1..(p - 1) : sched_pc[q] # "off"
    /\ sched_pc' = [sched_pc EXCEPT ![p] = "get"]
    /\ UNCHANGED <<segment, pidfile, webfile, seg, standing, workerVars, webVars, after, pid,
                   shellVars>>

\* Wrong: without the test for a segment.
StartScheduler_NoCleanup ==
    /\ pidfile \notin SchedAlive
    /\ Script("idle", "launch")
    /\ pidfile' = None
    /\ UNCHANGED <<segment, webfile, schedVars, workerVars, webVars, after, pid, shellVars,
                   by_hand>>

\* start_scheduler.sh, from its test of scheduler.pid over its test for a segment, which
\* calls cleanup.sh ...
StartScheduler ==
    /\ pidfile \notin SchedAlive
    /\ Script("idle", IF key = None THEN "launch" ELSE "kill_web")
    /\ after' = IF key = None THEN "idle" ELSE "launch"
    /\ pidfile' = None
    /\ UNCHANGED <<segment, webfile, schedVars, workerVars, webVars, pid, shellVars,
                   by_hand>>

\* ... to the start ...
LaunchByScript(p) ==
    /\ Script("launch", "started")
    /\ Launch(p)
    /\ UNCHANGED by_hand

\* ./scheduler without the script, by an operator who sees that none is running.
LaunchByHand(p) ==
    /\ SchedAlive = {}
    /\ Script("idle", "started")
    /\ Launch(p)
    /\ by_hand' = by_hand \cup {p}

\* ... and two seconds later, which are enough for the scheduler and its worker to start or fail.
Started ==
    /\ \A p \in SchedAlive : sched_pc[p] \in {"monitor", "reap"}
    /\ \A w \in Scheds : worker_pc[w] # "forked"
    /\ Script("started", "idle")
    /\ UNCHANGED <<segment, pidfile, webfile, schedVars, workerVars, webVars, after, pid,
                   shellVars, by_hand>>

\* cleanup.sh; make distclean removes scheduler.pid before it calls it.
StartCleanup(distclean) ==
    /\ Script("idle", "kill_web")
    /\ after' = "idle"
    /\ pidfile' = IF distclean THEN None ELSE pidfile
    /\ orphaned' = IF distclean THEN orphaned \cup (SchedAlive \cap {pidfile}) ELSE orphaned
    /\ UNCHANGED <<segment, webfile, sched_pc, seg, sched_shutdown, told, workerVars, webVars,
                   pid, shellVars, by_hand>>

\* Wrong: the web server is forgotten.
KillWeb_Skipped ==
    /\ Script("kill_web", "kill_sched")
    /\ unseen' = unseen \cup (WebAlive \ {webfile})
    /\ UNCHANGED <<segment, pidfile, webfile, schedVars, workerVars, web_pc, webseg, doubtful,
                   after, pid, shellVars, by_hand>>

\* SIGTERM to the web server, then SIGKILL if it still runs.
KillWeb ==
    /\ Script("kill_web", IF webfile \in WebAlive THEN "end_web" ELSE "kill_sched")
    /\ pid' = IF webfile \in WebAlive THEN webfile ELSE None
    /\ webfile' = pid'
    /\ unseen' = unseen \cup (WebAlive \ {webfile})
    /\ UNCHANGED <<segment, pidfile, schedVars, workerVars, web_pc, webseg, doubtful, after,
                   shellVars, by_hand>>

EndWeb ==
    /\ Script("end_web", "kill_sched")
    /\ WebEnds(pid)
    /\ pid' = None
    /\ webfile' = None
    /\ UNCHANGED <<segment, pidfile, schedVars, workerVars, after, shellVars, by_hand>>

\* Wrong: the scheduler is forgotten.
KillSched_Skipped ==
    /\ Script("kill_sched", "kill_workers")
    /\ UNCHANGED <<segment, pidfile, webfile, schedVars, workerVars, webVars, after, pid,
                   shellVars, by_hand>>

\* The same for the scheduler.
KillSched ==
    /\ Script("kill_sched", IF pidfile \in SchedAlive THEN "end_sched" ELSE "kill_workers")
    /\ pid' = IF pidfile \in SchedAlive THEN pidfile ELSE None
    /\ IF pidfile \in SchedAlive THEN SignalSched(pidfile) ELSE UNCHANGED <<flag, schedVars>>
    /\ pidfile' = pid'
    /\ UNCHANGED <<key, ready, webfile, workerVars, webVars, after, shellVars, by_hand>>

EndSched ==
    /\ Script("end_sched", "kill_workers")
    /\ IF pid \in SchedAlive THEN SchedEnds(pid) ELSE UNCHANGED schedVars
    /\ pid' = None
    /\ pidfile' = None
    /\ UNCHANGED <<segment, webfile, workerVars, webVars, after, shellVars, by_hand>>

\* pkill finds the workers by their command line, which a child has from execl on.
Named == {w \in Scheds : worker_pc[w] \in {"attach", "loop"}}

\* SIGTERM and a second later SIGKILL: the workers are gone, and the queues marked.
KillWorkers ==
    /\ Script("kill_workers", "remove")
    /\ flag' = flag \cup {wseg[w] : w \in {w \in Named : worker_pc[w] = "loop"}}
    /\ WorkersEnd(Named)
    /\ worker_shutdown' = worker_shutdown \ Named
    /\ UNCHANGED <<key, ready, pidfile, webfile, schedVars, webVars, after, pid, shellVars,
                   by_hand>>

\* Wrong: ipcs does not show the segment.
Remove_Skipped ==
    /\ Script("remove", after)
    /\ after' = "idle"
    /\ UNCHANGED <<segment, pidfile, webfile, schedVars, workerVars, webVars, pid, shellVars,
                   by_hand>>

\* ipcrm frees the key at once; who has the segment attached keeps it.
Remove ==
    /\ Script("remove", after)
    /\ after' = "idle"
    /\ key' = None
    /\ UNCHANGED <<ready, flag, pidfile, webfile, schedVars, workerVars, webVars, pid,
                   shellVars, by_hand>>

\* stop_web_dashboard.sh
StopWeb ==
    /\ op = "idle"
    /\ webfile # None
    /\ IF webfile \in WebAlive THEN WebEnds(webfile) ELSE UNCHANGED webVars
    /\ webfile' = None
    /\ UNCHANGED <<segment, pidfile, schedVars, workerVars, opVars, shellVars, by_hand>>

\* The operator, or anybody, sends the scheduler a signal.
Stop(p) ==
    /\ p \in SchedAlive \ sched_shutdown
    /\ SignalSched(p)
    /\ UNCHANGED <<key, ready, pidfile, webfile, workerVars, webVars, opVars, shellVars,
                   by_hand>>

Crash(p) ==
    /\ p \in SchedAlive
    /\ SchedEnds(p)
    /\ UNCHANGED <<segment, pidfile, webfile, workerVars, webVars,
                   opVars, shellVars, by_hand>>

SchedStep(p) ==
    \/ Get(p) \/ GetExisting(p) \/ Initialize(p) \/ WritePid(p)
    \/ Fork(p) \/ ForkFails(p) \/ Terminate(p) \/ Finish(p)

OpStep ==
    \/ StartScheduler \/ Started \/ KillWeb \/ EndWeb \/ KillSched \/ EndSched
    \/ KillWorkers \/ Remove \/ StopWeb
    \/ \E distclean \in BOOLEAN : StartCleanup(distclean)
    \/ \E p \in Scheds : LaunchByScript(p) \/ LaunchByHand(p)

\* What a child does to become a worker.
WorkerStarts(w) == Exec(w) \/ ExecFails(w) \/ WorkerAttach(w)

Next ==
    \/ \E p \in Scheds : SchedStep(p) \/ Stop(p) \/ Crash(p)
    \/ \E w \in Scheds : WorkerStarts(w) \/ WorkerLeaves(w) \/ SignalWorker(w) \/ KillWorker(w)
    \/ \E v \in Webs : StartWeb(v) \/ WebAttach(v) \/ WebLeaves(v)
    \/ Settle \/ Interrupt \/ WaitReturns
    \/ OpStep

\* Processes run; that a worker leaves is WorkerPool's subject, and nobody has to start
\* or stop anything.
Fairness ==
    \A p \in Scheds : WF_vars(SchedStep(p)) /\ WF_vars(WorkerStarts(p))

Spec == Init /\ [][Next]_vars /\ Fairness
-----------------------------------------------------------------------------
\* A scheduler that start_scheduler.sh started works on a segment of its own: what an
\* earlier one left behind, its tasks and its shutdown_flag (the scheduler never destroys
\* the segment), reaches only a scheduler that was started without the script.
InheritsOnlyByHand == \A p \in Scheds \ by_hand : seg[p] \in {None, p}

\* What scheduler.pid promises to the scripts and to the web server.  Every scheduler that
\* has come as far as its workers is the one it names, and has the segment the key leads to,
\* until it is told to stop or make distclean removes the file.  If it created that segment,
\* the segment is ready for use, and nobody has announced a shutdown in it but a worker that
\* somebody signalled or whose execl failed: a single SIGTERM to one worker stops all.
RegisteredServes ==
    \A p \in Scheds \ (sched_shutdown \cup orphaned) : sched_pc[p] \in {"spawn", "monitor"} =>
        /\ pidfile = p
        /\ seg[p] = key
        /\ seg[p] = p => p \in ready /\ (p \in flag => p \in told \/ worker_pc[p] = "failed")

\* The mutex is initialized some time after the key leads to the segment.  A worker whose
\* scheduler has its own segment locks no mutex before that, and neither does a web
\* server, unless it was started without such a scheduler in scheduler.pid, or lived
\* through a cleanup that could not find it.
ReadyWhenUsed ==
    /\ \A w \in Scheds : worker_pc[w] = "loop" /\ OwnSegment(w) => wseg[w] \in ready
    /\ \A v \in Webs : web_pc[v] = "serve" /\ webseg[v] \notin ready =>
           v \in doubtful \cup unseen

\* A web server shows a queue that no worker will ever see again, and takes tasks for
\* it, only if cleanup.sh could not find it by web_server.pid: the others end before the
\* segment is removed.
WebIsCurrent ==
    \A v \in Webs : web_pc[v] = "serve" /\ webseg[v] # key => v \in unseen

\* A scheduler that start_scheduler.sh started and that wrote its pid has in the end its
\* worker in the main loop on a segment that is not marked for shutdown, unless it is told
\* to stop, ends, loses its file to make distclean (which cannot find it then), or unless
\* its worker could not be forked or executed or was signalled or killed: nothing brings
\* such a worker back.
Serves(p) == worker_pc[p] = "loop" /\ wseg[p] = key /\ key \notin flag

StartedIsServed ==
    \A p \in Scheds :
        pidfile = p /\ p \in SchedAlive \ by_hand ~>
            \/ Serves(p)
            \/ p \in sched_shutdown \cup orphaned \cup told
            \/ NoWorker(p)
            \/ p \notin SchedAlive
=============================================================================
