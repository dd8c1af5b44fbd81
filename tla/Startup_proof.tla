--------------------------- MODULE Startup_proof ---------------------------
(***************************************************************************)
(* Proofs about the life of the segment, for any number of schedulers and  *)
(* of web servers that are started one after the other.                    *)
(***************************************************************************)
EXTENDS Startup, TLAPS

USE StartupAssumption
    DEF Scheds, Webs, Running, segment, standing, schedVars, workerVars, webVars, opVars,
        shellVars

Starting == {"get", "get_existing", "init", "attach", "spawn"}
HasSegment == {"init", "attach", "spawn", "monitor", "reap"}
Created(p) == sched_pc[p] \notin {"off", "get", "get_existing"}

\* One scheduler starts at a time, and while it does the operator waits.
OneAtATime ==
    /\ op # "started" =>
           \A p \in Scheds : sched_pc[p] \notin Starting /\ worker_pc[p] # "forked"
    /\ \A p, q \in Scheds : sched_pc[p] \in Starting /\ sched_pc[q] \in Starting => p = q

\* A segment exists when somebody has it.
SegmentsKnown ==
    /\ \A p \in Scheds : seg[p] # None <=> sched_pc[p] \in HasSegment
    /\ \A p, q \in Scheds : seg[q] = p => Created(p)
    /\ \A p \in Scheds : key = p => Created(p)

\* While a scheduler starts the key leads to its segment, and it finds a segment there
\* only if it was started by hand, when no other scheduler was alive.
KeyHolds ==
    /\ op = "launch" => key = None
    /\ \A p \in Scheds :
          /\ sched_pc[p] \in {"init", "attach", "spawn"} => seg[p] = key
          /\ sched_pc[p] = "get" => key = None \/ (p \in by_hand /\ SchedAlive = {p})
          /\ sched_pc[p] = "get_existing" => p \in by_hand /\ SchedAlive = {p}

\* Nobody inherits the segment of a scheduler that is still alive.
OneOwner == \A p, q \in Scheds : seg[p] = p /\ seg[q] = p => p = q

\* The key stays where it is while there are workers, so they are on their scheduler's
\* segment as long as it lives, and a scheduler's own segment has no workers but its own.
WorkersFollow ==
    /\ key = None \/ op = "remove" => \A w \in Scheds : worker_pc[w] \notin Running
    /\ \A w \in Scheds :
        /\ worker_pc[w] # "off" => sched_pc[w] \in {"monitor", "reap", "gone"}
        /\ worker_pc[w] \in {"forked", "loop"} => wseg[w] = key
        /\ worker_pc[w] \in Running /\ seg[w] # None => seg[w] = key
    /\ \A p, w \in Scheds : seg[p] = p /\ key = p /\ worker_pc[w] \in Running => w = p

\* A scheduler that goes on from init has a segment that is ready and marked only for a
\* reason.
Initialized ==
    \A p \in Scheds : seg[p] = p =>
        /\ sched_pc[p] # "init" => p \in ready
        /\ /\ sched_pc[p] \in {"attach", "spawn", "monitor"}
           /\ p \in flag \ (sched_shutdown \cup orphaned)
           => p \in told \/ worker_pc[p] = "failed"

\* A scheduler writes its pid when no other is registered, and what empties the file is the
\* cleanup that has told the scheduler in it to stop, or make distclean.
Registered ==
    /\ op \in {"kill_workers", "remove", "launch"} => pidfile = None
    /\ \A p \in Scheds : pidfile = p =>
          /\ sched_pc[p] \in {"spawn", "monitor", "reap", "gone"}
          /\ seg[p] = p => key = p
          /\ op = "end_sched" => p \in sched_shutdown \/ sched_pc[p] = "gone"
    /\ \A p, q \in Scheds :
          /\ sched_pc[p] \in {"spawn", "monitor"}
          /\ sched_pc[q] \in {"get", "get_existing", "init", "attach"}
          => p \in sched_shutdown \cup orphaned

\* Before the key is freed the web servers have ended that cleanup.sh could find; the
\* others are on the segment the key leads to.
WebSeen ==
    /\ op \in {"kill_sched", "end_sched", "kill_workers", "remove"} =>
           WebAlive \subseteq unseen
    /\ op = "end_web" => WebAlive \subseteq unseen \cup {pid}
    /\ \A v \in WebAlive \ unseen :
        /\ web_pc[v] = "serve" => webseg[v] = key
        /\ v \notin doubtful => key \in ready

SchedInv ==
    /\ OneAtATime /\ SegmentsKnown /\ KeyHolds /\ InheritsOnlyByHand
    /\ OneOwner /\ WorkersFollow /\ Initialized /\ Registered /\ RegisteredServes

IInv == StartupTypeOK /\ SchedInv /\ WebSeen
-----------------------------------------------------------------------------
LEMMA InitInv == Init => IInv
<1> SUFFICES ASSUME Init PROVE IInv
  OBVIOUS
<1>1. StartupTypeOK
  BY DEF Init, StartupTypeOK, SegmentTypes, SchedTypes, WorkerTypes, WebTypes, ScriptTypes
<1>2. OneAtATime /\ SegmentsKnown /\ KeyHolds /\ InheritsOnlyByHand
  BY DEF Init, OneAtATime, SegmentsKnown, KeyHolds, InheritsOnlyByHand, Starting, HasSegment
<1>3. OneOwner /\ WorkersFollow /\ Initialized /\ Registered /\ RegisteredServes
  BY DEF Init, OneOwner, WorkersFollow, Initialized, Registered, RegisteredServes
<1>4. WebSeen
  BY DEF Init, WebSeen, WebAlive
<1> QED BY <1>1, <1>2, <1>3, <1>4 DEF IInv, SchedInv
-----------------------------------------------------------------------------
(* The types, with a lemma for every way a process ends.                   *)

LEMMA SchedEndsTypes ==
    ASSUME SchedTypes, NEW p \in Scheds, SchedEnds(p)
    PROVE  SchedTypes'
<1>1. \A q \in Scheds : /\ sched_pc'[q] = IF q = p THEN "gone" ELSE sched_pc[q]
                        /\ seg'[q] = IF q = p THEN None ELSE seg[q]
  BY DEF SchedEnds, SchedTypes
<1> QED BY <1>1 DEF SchedEnds, SchedTypes

LEMMA WorkersEndTypes ==
    ASSUME WorkerTypes, NEW ws, WorkersEnd(ws), worker_shutdown' \subseteq Scheds
    PROVE  WorkerTypes'
  BY DEF WorkerTypes, WorkersEnd

LEMMA WebEndsTypes ==
    ASSUME WebTypes, NEW v, WebEnds(v)
    PROVE  WebTypes'
<1>1. \A u \in Webs : /\ web_pc'[u] = IF u = v THEN "gone" ELSE web_pc[u]
                      /\ webseg'[u] = IF u = v THEN None ELSE webseg[u]
  BY DEF WebEnds, WebTypes
<1> QED BY <1>1 DEF WebEnds, WebTypes

\* What a signal to the worker w does: it may end, and it may mark its segment.
LEMMA SignalEffect ==
    ASSUME WorkerTypes, NEW w \in Scheds, SignalWorkers({w})
    PROVE  \E early \in SUBSET {v \in {w} : worker_pc[v] = "attach"} :
              /\ WorkersEnd(early)
              /\ worker_shutdown' \subseteq worker_shutdown \cup {w}
              /\ flag' \subseteq flag \cup ({wseg[w]} \ {None})
<1>1. PICK early \in SUBSET {v \in {w} : worker_pc[v] = "attach"} :
        /\ WorkersEnd(early)
        /\ worker_shutdown' \subseteq worker_shutdown \cup {w}
        /\ flag' = flag \cup {wseg[v] : v \in {v \in {w} : worker_pc[v] = "forked"}
                                             \cup {v \in {w} : worker_pc[v] = "loop"}}
  BY DEF SignalWorkers
<1>2. worker_pc[w] \in {"forked", "loop"} => wseg[w] # None
  BY DEF WorkerTypes
<1> QED BY <1>1, <1>2

LEMMA TypeKept ==
    IInv /\ [Next]_vars => StartupTypeOK'
<1> USE DEF IInv, StartupTypeOK
<1>1. ASSUME IInv, NEW p \in Scheds, Get(p) PROVE StartupTypeOK'
  BY <1>1 DEF Get, Goes, SegmentTypes, SchedTypes, WorkerTypes, WebTypes, ScriptTypes
<1>2. ASSUME IInv, NEW p \in Scheds, GetExisting(p) PROVE StartupTypeOK'
  <2>1. SchedTypes'
    <3>1. CASE key = None
      BY <1>2, <3>1, SchedEndsTypes DEF GetExisting
    <3>2. CASE key # None
      <4>1. \A q \in Scheds : /\ sched_pc'[q] = IF q = p THEN "attach" ELSE sched_pc[q]
                              /\ seg'[q] = IF q = p THEN key ELSE seg[q]
        BY <1>2, <3>2 DEF GetExisting, Goes, SchedTypes
      <4> QED BY <1>2, <3>2, <4>1 DEF GetExisting, Goes, SchedTypes, SegmentTypes
    <3> QED BY <3>1, <3>2
  <2> QED BY <1>2, <2>1 DEF GetExisting, SegmentTypes, WorkerTypes, WebTypes, ScriptTypes
<1>3. ASSUME IInv, NEW p \in Scheds, Initialize(p) PROVE StartupTypeOK'
  <2>1. SchedTypes'
    BY <1>3 DEF Initialize, Goes, SchedTypes
  <2> QED BY <1>3, <2>1 DEF Initialize, SegmentTypes, WorkerTypes, WebTypes, ScriptTypes
<1>4. ASSUME IInv, NEW p \in Scheds, WritePid(p) PROVE StartupTypeOK'
  BY <1>4 DEF WritePid, Goes, SegmentTypes, SchedTypes, WorkerTypes, WebTypes, ScriptTypes
<1>5. ASSUME IInv, NEW p \in Scheds, Fork(p) PROVE StartupTypeOK'
  <2>1. WorkerTypes'
    <3>1. \A w \in Scheds : /\ worker_pc'[w] = IF w = p THEN "forked" ELSE worker_pc[w]
                            /\ wseg'[w] = IF w = p THEN seg[p] ELSE wseg[w]
      BY <1>5 DEF Fork, WorkerTypes
    <3>2. seg[p] \in Scheds
      BY <1>5 DEF Fork, Goes, SchedTypes
    <3> QED BY <1>5, <3>1, <3>2 DEF Fork, WorkerTypes
  <2> QED BY <1>5, <2>1 DEF Fork, Goes, SegmentTypes, SchedTypes, WebTypes, ScriptTypes
<1>6. ASSUME IInv, NEW p \in Scheds, Terminate(p) PROVE StartupTypeOK'
  <2>1. SchedTypes'
    BY <1>6 DEF Terminate, Goes, SchedTypes
  <2>2. PICK early \in SUBSET {w \in {p} : worker_pc[w] = "attach"} :
          /\ WorkersEnd(early)
          /\ worker_shutdown' \subseteq worker_shutdown \cup {p}
          /\ flag' \subseteq flag \cup ({wseg[p]} \ {None})
    BY <1>6, SignalEffect DEF Terminate
  <2>3. WorkerTypes'
    BY <1>6, <2>2, WorkersEndTypes DEF WorkerTypes
  <2>4. flag' \subseteq Scheds
    BY <1>6, <2>2 DEF SegmentTypes, WorkerTypes
  <2> QED BY <1>6, <2>1, <2>3, <2>4 DEF Terminate, SegmentTypes, WebTypes, ScriptTypes
<1>7. ASSUME IInv, NEW p \in Scheds, Finish(p) PROVE StartupTypeOK'
  <2>1. SchedTypes'
    BY <1>7, SchedEndsTypes DEF Finish
  <2>2. flag' \subseteq Scheds
    BY <1>7 DEF Finish, SegmentTypes, SchedTypes
  <2> QED BY <1>7, <2>1, <2>2 DEF Finish, SegmentTypes, WorkerTypes, WebTypes, ScriptTypes
<1>8. ASSUME IInv, NEW p \in Scheds, Exec(p) PROVE StartupTypeOK'
  BY <1>8 DEF Exec, SegmentTypes, SchedTypes, WorkerTypes, WebTypes, ScriptTypes
<1>9. ASSUME IInv, NEW p \in Scheds, WorkerAttach(p) PROVE StartupTypeOK'
  <2>1. WorkerTypes'
    <3>1. CASE key = None
      BY <1>9, <3>1, WorkersEndTypes DEF WorkerAttach, WorkerTypes
    <3>2. CASE key # None
      <4>1. \A w \in Scheds : /\ worker_pc'[w] = IF w = p THEN "loop" ELSE worker_pc[w]
                              /\ wseg'[w] = IF w = p THEN key ELSE wseg[w]
        BY <1>9, <3>2 DEF WorkerAttach, WorkerTypes
      <4> QED BY <1>9, <3>2, <4>1 DEF WorkerAttach, WorkerTypes, SegmentTypes
    <3> QED BY <3>1, <3>2
  <2> QED BY <1>9, <2>1 DEF WorkerAttach, SegmentTypes, SchedTypes, WebTypes, ScriptTypes
<1>10. ASSUME IInv, NEW p \in Scheds, WorkerLeaves(p) PROVE StartupTypeOK'
  BY <1>10 DEF WorkerLeaves, WorkersEnd, SegmentTypes, SchedTypes, WorkerTypes, WebTypes,
    ScriptTypes
<1>11. ASSUME IInv, NEW p \in Scheds, Stop(p) PROVE StartupTypeOK'
  <2>1. flag' \subseteq Scheds
    BY <1>11 DEF Stop, SignalSched, SegmentTypes, SchedTypes
  <2> QED BY <1>11, <2>1 DEF Stop, SignalSched, SegmentTypes, SchedTypes, WorkerTypes,
    WebTypes, ScriptTypes
<1>12. ASSUME IInv, NEW p \in Scheds, Crash(p) PROVE StartupTypeOK'
  BY <1>12 DEF Crash, SchedEnds, SegmentTypes, SchedTypes, WorkerTypes, WebTypes,
    ScriptTypes
<1>13. ASSUME IInv, NEW p \in Scheds, LaunchByScript(p) PROVE StartupTypeOK'
  BY <1>13 DEF LaunchByScript, Script, Launch, SegmentTypes, SchedTypes, WorkerTypes,
    WebTypes, ScriptTypes
<1>14. ASSUME IInv, NEW p \in Scheds, LaunchByHand(p) PROVE StartupTypeOK'
  BY <1>14 DEF LaunchByHand, Script, Launch, SegmentTypes, SchedTypes, WorkerTypes,
    WebTypes, ScriptTypes
<1>15. ASSUME IInv, NEW v \in Webs, StartWeb(v) PROVE StartupTypeOK'
  BY <1>15 DEF StartWeb, SegmentTypes, SchedTypes, WorkerTypes, WebTypes, ScriptTypes
<1>16. ASSUME IInv, NEW v \in Webs, WebAttach(v) PROVE StartupTypeOK'
  <2>1. WebTypes'
    <3>1. CASE WebEnds(v)
      BY <1>16, <3>1, WebEndsTypes
    <3>2. CASE ~ WebEnds(v)
      <4>1. \A u \in Webs : /\ web_pc'[u] = IF u = v THEN "serve" ELSE web_pc[u]
                            /\ webseg'[u] = IF u = v THEN key ELSE webseg[u]
        BY <1>16, <3>2 DEF WebAttach, WebTypes
      <4> QED BY <1>16, <3>2, <4>1 DEF WebAttach, WebTypes, SegmentTypes
    <3> QED BY <3>1, <3>2
  <2> QED BY <1>16, <2>1 DEF WebAttach, SegmentTypes, SchedTypes, WorkerTypes, ScriptTypes
<1>17. ASSUME IInv, NEW v \in Webs, WebLeaves(v) PROVE StartupTypeOK'
  BY <1>17 DEF WebLeaves, WebEnds, SegmentTypes, SchedTypes, WorkerTypes, WebTypes,
    ScriptTypes
<1>18. ASSUME IInv, Settle PROVE StartupTypeOK'
  BY <1>18 DEF Settle, SegmentTypes, SchedTypes, WorkerTypes, WebTypes, ScriptTypes
<1>19. ASSUME IInv, Interrupt PROVE StartupTypeOK'
  BY <1>19 DEF Interrupt, SegmentTypes, SchedTypes, WorkerTypes, WebTypes, ScriptTypes
<1>20. ASSUME IInv, WaitReturns PROVE StartupTypeOK'
  BY <1>20 DEF WaitReturns, SegmentTypes, SchedTypes, WorkerTypes, WebTypes, ScriptTypes
<1>21. ASSUME IInv, StopWeb PROVE StartupTypeOK'
  <2>1. WebTypes'
    BY <1>21, WebEndsTypes DEF StopWeb, WebTypes
  <2> QED BY <1>21, <2>1 DEF StopWeb, SegmentTypes, SchedTypes, WorkerTypes, ScriptTypes
<1>22. ASSUME IInv, EndWeb PROVE StartupTypeOK'
  BY <1>22 DEF EndWeb, Script, WebEnds, SegmentTypes, SchedTypes, WorkerTypes, WebTypes,
    ScriptTypes
<1>23. ASSUME IInv, KillWeb PROVE StartupTypeOK'
  <2>1. WebTypes'
    BY <1>23 DEF KillWeb, WebTypes, WebAlive
  <2> QED BY <1>23, <2>1 DEF KillWeb, Script, SegmentTypes, SchedTypes, WorkerTypes,
    ScriptTypes
<1>24. ASSUME IInv, StartScheduler PROVE StartupTypeOK'
  BY <1>24 DEF StartScheduler, Script, SegmentTypes, SchedTypes, WorkerTypes, WebTypes,
    ScriptTypes
<1>25. ASSUME IInv, Started PROVE StartupTypeOK'
  BY <1>25 DEF Started, Script, SegmentTypes, SchedTypes, WorkerTypes, WebTypes, ScriptTypes
<1>26. ASSUME IInv, KillSched PROVE StartupTypeOK'
  <2>1. CASE pidfile \in SchedAlive
    <3>1. SchedTypes'
      BY <1>26, <2>1 DEF KillSched, SignalSched, SchedAlive, SchedTypes
    <3>2. flag' \subseteq Scheds
      BY <1>26, <2>1 DEF KillSched, SignalSched, SchedAlive, SegmentTypes, SchedTypes
    <3> QED BY <1>26, <2>1, <3>1, <3>2 DEF KillSched, Script, SegmentTypes, WorkerTypes,
      WebTypes, ScriptTypes
  <2>2. CASE pidfile \notin SchedAlive
    BY <1>26, <2>2 DEF KillSched, Script, SegmentTypes, SchedTypes, WorkerTypes, WebTypes,
      ScriptTypes
  <2> QED BY <2>1, <2>2
<1>27. ASSUME IInv, EndSched PROVE StartupTypeOK'
  BY <1>27 DEF EndSched, Script, SchedEnds, SegmentTypes, SchedTypes, WorkerTypes, WebTypes,
    ScriptTypes
<1>28. ASSUME IInv, KillWorkers PROVE StartupTypeOK'
  <2>1. WorkerTypes'
    BY <1>28, WorkersEndTypes DEF KillWorkers, WorkerTypes
  <2>2. flag' \subseteq Scheds
    BY <1>28 DEF KillWorkers, Named, SegmentTypes, WorkerTypes
  <2> QED BY <1>28, <2>1, <2>2 DEF KillWorkers, Script, SegmentTypes, SchedTypes, WebTypes,
    ScriptTypes
<1>29. ASSUME IInv, Remove PROVE StartupTypeOK'
  BY <1>29 DEF Remove, Script, SegmentTypes, SchedTypes, WorkerTypes, WebTypes, ScriptTypes
<1>30. ASSUME IInv, NEW distclean \in BOOLEAN, StartCleanup(distclean) PROVE StartupTypeOK'
  BY <1>30 DEF StartCleanup, Script, SchedAlive, SegmentTypes, SchedTypes, WorkerTypes, WebTypes,
    ScriptTypes
<1>31. ASSUME IInv, NEW p \in Scheds, ForkFails(p) PROVE StartupTypeOK'
  BY <1>31 DEF ForkFails, Goes, SegmentTypes, SchedTypes, WorkerTypes, WebTypes, ScriptTypes
<1>32. ASSUME IInv, NEW w \in Scheds, ExecFails(w) PROVE StartupTypeOK'
  <2>1. flag' \subseteq Scheds
    BY <1>32 DEF ExecFails, SegmentTypes, WorkerTypes
  <2>2. WorkerTypes'
    <3>1. \A v \in Scheds : /\ worker_pc'[v] = IF v = w THEN "failed" ELSE worker_pc[v]
                            /\ wseg'[v] = IF v = w THEN None ELSE wseg[v]
      BY <1>32 DEF ExecFails, WorkerTypes
    <3> QED BY <1>32, <3>1 DEF ExecFails, WorkerTypes
  <2> QED BY <1>32, <2>1, <2>2 DEF ExecFails, SegmentTypes, SchedTypes, WebTypes, ScriptTypes
<1>33. ASSUME IInv, NEW w \in Scheds, SignalWorker(w) PROVE StartupTypeOK'
  <2>1. PICK early \in SUBSET {v \in {w} : worker_pc[v] = "attach"} :
          /\ WorkersEnd(early)
          /\ worker_shutdown' \subseteq worker_shutdown \cup {w}
          /\ flag' \subseteq flag \cup ({wseg[w]} \ {None})
    BY <1>33, SignalEffect DEF SignalWorker
  <2>2. WorkerTypes'
    BY <1>33, <2>1, WorkersEndTypes DEF WorkerTypes
  <2>3. flag' \subseteq Scheds
    BY <1>33, <2>1 DEF SegmentTypes, WorkerTypes
  <2> QED BY <1>33, <2>2, <2>3 DEF SignalWorker, SegmentTypes, SchedTypes, WebTypes, ScriptTypes
<1>34. ASSUME IInv, NEW w \in Scheds, KillWorker(w) PROVE StartupTypeOK'
  <2>1. WorkerTypes'
    <3>1. \A v \in Scheds : /\ worker_pc'[v] = IF v = w THEN "killed" ELSE worker_pc[v]
                            /\ wseg'[v] = IF v = w THEN None ELSE wseg[v]
      BY <1>34 DEF KillWorker, WorkerTypes
    <3> QED BY <1>34, <3>1 DEF KillWorker, WorkerTypes
  <2> QED BY <1>34, <2>1 DEF KillWorker, SegmentTypes, SchedTypes, WebTypes, ScriptTypes
<1>35. ASSUME IInv, UNCHANGED vars PROVE StartupTypeOK'
  BY <1>35 DEF vars, SegmentTypes, SchedTypes, WorkerTypes, WebTypes, ScriptTypes
<1> QED BY <1>1, <1>2, <1>3, <1>4, <1>5, <1>6, <1>7, <1>8, <1>9, <1>10, <1>11, <1>12, <1>13,
  <1>14, <1>15, <1>16, <1>17, <1>18, <1>19, <1>20, <1>21, <1>22, <1>23, <1>24, <1>25, <1>26,
  <1>27, <1>28, <1>29, <1>30, <1>35, <1>31, <1>32, <1>33, <1>34
  DEF Next, OpStep, SchedStep, WorkerStarts

-----------------------------------------------------------------------------
\* The end of a scheduler p takes nothing from the others.
LEMMA SchedEndsKeeps ==
    ASSUME IInv, NEW p \in Scheds, p \in SchedAlive, SchedEnds(p),
           flag' \subseteq flag \cup {seg[p]},
           UNCHANGED <<key, ready, worker_pc, wseg, by_hand>>,
           \/ UNCHANGED <<op, pidfile>>
           \/ op = "end_sched" /\ op' = "kill_workers" /\ pidfile' = None
    PROVE  SchedInv'
<1> USE DEF IInv, SchedInv, StartupTypeOK
<1>1. \A q \in Scheds : /\ sched_pc'[q] = IF q = p THEN "gone" ELSE sched_pc[q]
                        /\ seg'[q] = IF q = p THEN None ELSE seg[q]
                        /\ q # p => /\ q \in sched_shutdown' <=> q \in sched_shutdown
                                    /\ q \in orphaned' <=> q \in orphaned
                                    /\ q \in told' <=> q \in told
  BY DEF SchedEnds, SchedTypes
<1>2. SchedAlive' = SchedAlive \ {p}
  BY <1>1 DEF SchedAlive
<1>3. OneAtATime' /\ SegmentsKnown'
  BY <1>1 DEF OneAtATime, SegmentsKnown, Starting, HasSegment, Created
<1>4. KeyHolds'
  BY <1>1, <1>2 DEF KeyHolds, OneAtATime, Starting
<1>5. InheritsOnlyByHand' /\ OneOwner'
  BY <1>1 DEF InheritsOnlyByHand, OneOwner
<1>6. WorkersFollow'
  BY <1>1 DEF WorkersFollow
<1>7. Initialized' /\ Registered' /\ RegisteredServes'
  BY <1>1, <1>2 DEF Initialized, Registered, RegisteredServes, OwnSegment, OneOwner,
    SchedAlive
<1> QED BY <1>3, <1>4, <1>5, <1>6, <1>7

LEMMA SchedKept ==
    IInv /\ [Next]_vars => SchedInv'
<1> USE DEF IInv, SchedInv, StartupTypeOK
<1>1. ASSUME IInv, NEW p \in Scheds, Get(p) PROVE SchedInv'
  <2>1. CASE key = None
    <3>1. \A q \in Scheds : /\ sched_pc'[q] = IF q = p THEN "init" ELSE sched_pc[q]
                            /\ seg'[q] = IF q = p THEN p ELSE seg[q]
      BY <1>1, <2>1 DEF Get, Goes, SchedTypes
    <3>2. OneAtATime' /\ SegmentsKnown' /\ KeyHolds'
      BY <1>1, <2>1, <3>1 DEF Get, Goes, Starting, HasSegment, Created, SchedAlive,
        SchedTypes, OneAtATime, SegmentsKnown, KeyHolds, WorkersFollow
    <3>3. InheritsOnlyByHand' /\ OneOwner'
      BY <1>1, <2>1, <3>1 DEF Get, Goes, SegmentsKnown, KeyHolds, InheritsOnlyByHand,
        OneOwner, HasSegment, Created, SchedAlive
    <3>4. WorkersFollow'
      BY <1>1, <2>1, <3>1 DEF Get, Goes, Starting, HasSegment, OneAtATime, SegmentsKnown,
        KeyHolds, WorkersFollow, SegmentTypes, WorkerTypes
    <3>5. Initialized' /\ Registered' /\ RegisteredServes'
      BY <1>1, <2>1, <3>1 DEF Get, Goes, Starting, HasSegment, Created, SchedAlive,
        OwnSegment, OneAtATime, SegmentsKnown, KeyHolds, OneOwner, WorkersFollow,
        Initialized, Registered, RegisteredServes
    <3> QED BY <3>2, <3>3, <3>4, <3>5
  <2>2. CASE key # None
    <3>1. /\ seg' = seg /\ key' = key
          /\ \A q \in Scheds : sched_pc'[q] = IF q = p THEN "get_existing" ELSE sched_pc[q]
      BY <1>1, <2>2 DEF Get, Goes, SchedTypes
    <3>2. OneAtATime' /\ SegmentsKnown' /\ KeyHolds'
      BY <1>1, <2>2, <3>1 DEF Get, Goes, Starting, HasSegment, Created, SchedAlive,
        SchedTypes, OneAtATime, SegmentsKnown, KeyHolds, WorkersFollow
    <3>3. InheritsOnlyByHand' /\ OneOwner'
      BY <1>1, <2>2, <3>1 DEF Get, Goes, SegmentsKnown, KeyHolds, InheritsOnlyByHand,
        OneOwner, HasSegment, Created, SchedAlive
    <3>4. WorkersFollow'
      BY <1>1, <2>2, <3>1 DEF Get, Goes, Starting, HasSegment, OneAtATime, SegmentsKnown,
        KeyHolds, WorkersFollow, SegmentTypes, WorkerTypes
    <3>5. Initialized' /\ Registered' /\ RegisteredServes'
      BY <1>1, <2>2, <3>1 DEF Get, Goes, Starting, HasSegment, Created, SchedAlive,
        OwnSegment, OneAtATime, SegmentsKnown, KeyHolds, OneOwner, WorkersFollow,
        Initialized, Registered, RegisteredServes
    <3> QED BY <3>2, <3>3, <3>4, <3>5
  <2> QED BY <2>1, <2>2
<1>2. ASSUME IInv, NEW p \in Scheds, GetExisting(p) PROVE SchedInv'
  <2>1. CASE key = None
    BY <1>2, <2>1, SchedEndsKeeps DEF GetExisting, SchedAlive
  <2>2. CASE key # None
    <3>1. \A q \in Scheds : /\ sched_pc'[q] = IF q = p THEN "attach" ELSE sched_pc[q]
                            /\ seg'[q] = IF q = p THEN key ELSE seg[q]
      BY <1>2, <2>2 DEF GetExisting, Goes, SchedTypes
    <3>2. OneAtATime' /\ SegmentsKnown' /\ KeyHolds'
      BY <1>2, <2>2, <3>1 DEF GetExisting, Starting, HasSegment, Created, SchedAlive,
        SchedTypes, OneAtATime, SegmentsKnown, KeyHolds, WorkersFollow
    <3>3. InheritsOnlyByHand' /\ OneOwner'
      BY <1>2, <2>2, <3>1 DEF GetExisting, SegmentsKnown, KeyHolds, InheritsOnlyByHand,
        OneOwner, HasSegment, Created, SchedAlive
    <3>4. WorkersFollow'
      BY <1>2, <2>2, <3>1 DEF GetExisting, Starting, Created, HasSegment, OneAtATime, SegmentsKnown,
        KeyHolds, WorkersFollow, SegmentTypes, WorkerTypes
    <3>5. Initialized' /\ Registered' /\ RegisteredServes'
      BY <1>2, <2>2, <3>1 DEF GetExisting, Starting, HasSegment, Created, SchedAlive,
        OwnSegment, OneAtATime, SegmentsKnown, KeyHolds, OneOwner, WorkersFollow,
        Initialized, Registered, RegisteredServes
    <3> QED BY <3>2, <3>3, <3>4, <3>5
  <2> QED BY <2>1, <2>2
<1>3. ASSUME IInv, NEW p \in Scheds, Initialize(p) PROVE SchedInv'
  <2>1. \A q \in Scheds : sched_pc'[q] = IF q = p THEN "attach" ELSE sched_pc[q]
    BY <1>3 DEF Initialize, Goes, SchedTypes
  <2>2. OneAtATime' /\ SegmentsKnown' /\ KeyHolds'
    BY <1>3, <2>1 DEF Initialize, Goes, Starting, HasSegment, Created, SchedAlive,
      SchedTypes, OneAtATime, SegmentsKnown, KeyHolds, WorkersFollow
  <2>3. InheritsOnlyByHand' /\ OneOwner'
    BY <1>3, <2>1 DEF Initialize, Goes, SegmentsKnown, KeyHolds, InheritsOnlyByHand,
      OneOwner, HasSegment, Created, SchedAlive
  <2>4. WorkersFollow'
    BY <1>3, <2>1 DEF Initialize, Goes, Starting, HasSegment, OneAtATime, SegmentsKnown,
      KeyHolds, WorkersFollow, SegmentTypes, WorkerTypes
  <2>5. Initialized' /\ Registered' /\ RegisteredServes'
    BY <1>3, <2>1 DEF Initialize, Goes, Starting, HasSegment, Created, SchedAlive,
      OwnSegment, OneAtATime, SegmentsKnown, KeyHolds, OneOwner, WorkersFollow, Initialized,
      Registered, RegisteredServes
  <2> QED BY <2>2, <2>3, <2>4, <2>5
<1>4. ASSUME IInv, NEW p \in Scheds, WritePid(p) PROVE SchedInv'
  <2>1. \A q \in Scheds : sched_pc'[q] = IF q = p THEN "spawn" ELSE sched_pc[q]
    BY <1>4 DEF WritePid, Goes, SchedTypes
  <2>2. OneAtATime' /\ SegmentsKnown' /\ KeyHolds'
    BY <1>4, <2>1 DEF WritePid, Goes, Starting, HasSegment, Created, SchedAlive, SchedTypes,
      OneAtATime, SegmentsKnown, KeyHolds, WorkersFollow
  <2>3. InheritsOnlyByHand' /\ OneOwner'
    BY <1>4, <2>1 DEF WritePid, Goes, SegmentsKnown, KeyHolds, InheritsOnlyByHand, OneOwner,
      HasSegment, Created, SchedAlive
  <2>4. WorkersFollow'
    BY <1>4, <2>1 DEF WritePid, Goes, Starting, HasSegment, OneAtATime, SegmentsKnown,
      KeyHolds, WorkersFollow, SegmentTypes, WorkerTypes
  <2>5. Initialized' /\ Registered' /\ RegisteredServes'
    BY <1>4, <2>1 DEF WritePid, Goes, Starting, HasSegment, Created, SchedAlive, OwnSegment,
      OneAtATime, SegmentsKnown, KeyHolds, OneOwner, WorkersFollow, Initialized, Registered,
      RegisteredServes
  <2> QED BY <2>2, <2>3, <2>4, <2>5
<1>5. ASSUME IInv, NEW p \in Scheds, Fork(p) PROVE SchedInv'
  <2>1. \A q \in Scheds : sched_pc'[q] = IF q = p THEN "monitor" ELSE sched_pc[q]
    BY <1>5 DEF Fork, Goes, SchedTypes
  <2>2. OneAtATime' /\ SegmentsKnown' /\ KeyHolds'
    BY <1>5, <2>1 DEF Fork, Goes, Starting, HasSegment, Created, SchedAlive, SchedTypes,
      OneAtATime, SegmentsKnown, KeyHolds, WorkersFollow
  <2>3. InheritsOnlyByHand' /\ OneOwner'
    BY <1>5, <2>1 DEF Fork, Goes, SegmentsKnown, KeyHolds, InheritsOnlyByHand, OneOwner,
      HasSegment, Created, SchedAlive
  <2>4. WorkersFollow'
    <3>1. \A w \in Scheds : /\ worker_pc'[w] = IF w = p THEN "forked" ELSE worker_pc[w]
                            /\ wseg'[w] = IF w = p THEN seg[p] ELSE wseg[w]
      BY <1>5 DEF Fork, WorkerTypes
    <3>2. sched_pc[p] = "spawn" /\ seg[p] = key /\ seg[p] # None /\ op # "remove"
      BY <1>5 DEF Fork, Goes, KeyHolds, SchedTypes, OneAtATime, Starting
    <3> QED BY <1>5, <2>1, <3>1, <3>2 DEF Fork, OneOwner, WorkersFollow
  <2>5. Initialized' /\ Registered' /\ RegisteredServes'
    BY <1>5, <2>1 DEF Fork, Goes, Starting, HasSegment, Created, SchedAlive, OwnSegment,
      OneAtATime, SegmentsKnown, KeyHolds, OneOwner, WorkersFollow, Initialized, Registered,
      RegisteredServes
  <2> QED BY <2>2, <2>3, <2>4, <2>5
<1>6. ASSUME IInv, NEW p \in Scheds, Terminate(p) PROVE SchedInv'
  <2>1. \A q \in Scheds : sched_pc'[q] = IF q = p THEN "reap" ELSE sched_pc[q]
    BY <1>6 DEF Terminate, Goes, SchedTypes
  <2>2. OneAtATime' /\ SegmentsKnown' /\ KeyHolds'
    BY <1>6, <2>1 DEF Terminate, Goes, SignalWorkers, WorkersEnd, Starting, HasSegment,
      Created, SchedAlive, SchedTypes, OneAtATime, SegmentsKnown, KeyHolds, WorkersFollow
  <2>3. InheritsOnlyByHand' /\ OneOwner'
    BY <1>6, <2>1 DEF Terminate, Goes, SignalWorkers, WorkersEnd, SegmentsKnown, KeyHolds,
      InheritsOnlyByHand, OneOwner, HasSegment, Created, SchedAlive
  <2>4. WorkersFollow'
    BY <1>6, <2>1 DEF Terminate, Goes, SignalWorkers, WorkersEnd, Starting, HasSegment,
      OneAtATime, SegmentsKnown, KeyHolds, WorkersFollow, SegmentTypes, WorkerTypes
  <2>5. Initialized' /\ Registered' /\ RegisteredServes'
    BY <1>6, <2>1 DEF Terminate, Goes, SignalWorkers, WorkersEnd, Starting, HasSegment,
      Created, SchedAlive, OwnSegment, OneAtATime, SegmentsKnown, KeyHolds, OneOwner,
      WorkersFollow, Initialized, Registered, RegisteredServes
  <2> QED BY <2>2, <2>3, <2>4, <2>5
<1>7. ASSUME IInv, NEW p \in Scheds, Finish(p) PROVE SchedInv'
  BY <1>7, SchedEndsKeeps DEF Finish, SchedAlive
<1>8. ASSUME IInv, NEW p \in Scheds, Exec(p) PROVE SchedInv'
  <2>1. \A w \in Scheds : /\ worker_pc'[w] = IF w = p THEN "attach" ELSE worker_pc[w]
                          /\ wseg'[w] = IF w = p THEN None ELSE wseg[w]
    BY <1>8 DEF Exec, WorkerTypes
  <2>2. worker_pc[p] = "forked"
    BY <1>8 DEF Exec
  <2>3. OneAtATime' /\ SegmentsKnown' /\ KeyHolds' /\ InheritsOnlyByHand' /\ OneOwner'
    BY <1>8, <2>1 DEF Exec, OneAtATime, SegmentsKnown, KeyHolds, Created, SchedAlive,
      InheritsOnlyByHand, OneOwner
  <2>4. WorkersFollow'
    BY <1>8, <2>1, <2>2 DEF Exec, WorkersFollow
  <2>5. Initialized' /\ Registered' /\ RegisteredServes'
    BY <1>8, <2>1, <2>2 DEF Exec, Initialized, Registered, RegisteredServes
  <2> QED BY <2>3, <2>4, <2>5
<1>9. ASSUME IInv, NEW p \in Scheds, WorkerAttach(p) PROVE SchedInv'
  <2>1. \A w \in Scheds : w # p => worker_pc'[w] = worker_pc[w] /\ wseg'[w] = wseg[w]
    BY <1>9 DEF WorkerAttach, WorkersEnd, WorkerTypes
  <2>2. worker_pc'[p] = "gone" \/ (worker_pc'[p] = "loop" /\ wseg'[p] = key /\ key # None)
    <3>1. CASE key = None
      BY <1>9, <3>1 DEF WorkerAttach, WorkersEnd
    <3>2. CASE key # None
      BY <1>9, <3>2 DEF WorkerAttach, WorkerTypes
    <3> QED BY <3>1, <3>2
  <2>3. OneAtATime' /\ SegmentsKnown' /\ KeyHolds'
    BY <1>9, <2>1, <2>2 DEF WorkerAttach, Starting, HasSegment, Created, SchedAlive,
      SchedTypes, OneAtATime, SegmentsKnown, KeyHolds, WorkersFollow
  <2>4. InheritsOnlyByHand' /\ OneOwner'
    BY <1>9, <2>1, <2>2 DEF WorkerAttach, SegmentsKnown, KeyHolds, InheritsOnlyByHand,
      OneOwner, HasSegment, Created, SchedAlive
  <2>5. WorkersFollow'
    BY <1>9, <2>1, <2>2 DEF WorkerAttach, Starting, HasSegment, OneAtATime, SegmentsKnown,
      KeyHolds, WorkersFollow, SegmentTypes, WorkerTypes
  <2>6. Initialized' /\ Registered' /\ RegisteredServes'
    BY <1>9, <2>1, <2>2 DEF WorkerAttach, Starting, HasSegment, Created, SchedAlive,
      OwnSegment, OneAtATime, SegmentsKnown, KeyHolds, OneOwner, WorkersFollow, Initialized,
      Registered, RegisteredServes
  <2> QED BY <2>3, <2>4, <2>5, <2>6
<1>10. ASSUME IInv, NEW p \in Scheds, WorkerLeaves(p) PROVE SchedInv'
  <2>1. OneAtATime' /\ SegmentsKnown' /\ KeyHolds'
    BY <1>10 DEF WorkerLeaves, WorkersEnd, Starting, HasSegment, Created, SchedAlive,
      SchedTypes, OneAtATime, SegmentsKnown, KeyHolds, WorkersFollow
  <2>2. InheritsOnlyByHand' /\ OneOwner'
    BY <1>10 DEF WorkerLeaves, WorkersEnd, SegmentsKnown, KeyHolds, InheritsOnlyByHand,
      OneOwner, HasSegment, Created, SchedAlive
  <2>3. WorkersFollow'
    BY <1>10 DEF WorkerLeaves, WorkersEnd, Starting, HasSegment, OneAtATime, SegmentsKnown,
      KeyHolds, WorkersFollow, SegmentTypes, WorkerTypes
  <2>4. Initialized' /\ Registered' /\ RegisteredServes'
    BY <1>10 DEF WorkerLeaves, WorkersEnd, Starting, HasSegment, Created, SchedAlive,
      OwnSegment, OneAtATime, SegmentsKnown, KeyHolds, OneOwner, WorkersFollow, Initialized,
      Registered, RegisteredServes
  <2> QED BY <2>1, <2>2, <2>3, <2>4
<1>11. ASSUME IInv, NEW p \in Scheds, Stop(p) PROVE SchedInv'
  <2>1. OneAtATime' /\ SegmentsKnown' /\ KeyHolds'
    BY <1>11 DEF Stop, SignalSched, Starting, HasSegment, Created, SchedAlive, SchedTypes,
      OneAtATime, SegmentsKnown, KeyHolds, WorkersFollow
  <2>2. InheritsOnlyByHand' /\ OneOwner'
    BY <1>11 DEF Stop, SignalSched, SegmentsKnown, KeyHolds, InheritsOnlyByHand, OneOwner,
      HasSegment, Created, SchedAlive
  <2>3. WorkersFollow'
    BY <1>11 DEF Stop, SignalSched, Starting, HasSegment, OneAtATime, SegmentsKnown,
      KeyHolds, WorkersFollow, SegmentTypes, WorkerTypes
  <2>4. Initialized' /\ Registered' /\ RegisteredServes'
    BY <1>11 DEF Stop, SignalSched, Starting, HasSegment, Created, SchedAlive, OwnSegment,
      OneAtATime, SegmentsKnown, KeyHolds, OneOwner, WorkersFollow, Initialized, Registered,
      RegisteredServes
  <2> QED BY <2>1, <2>2, <2>3, <2>4
<1>12. ASSUME IInv, NEW p \in Scheds, Crash(p) PROVE SchedInv'
  BY <1>12, SchedEndsKeeps DEF Crash, SchedAlive
<1>13. ASSUME IInv, NEW p \in Scheds, LaunchByScript(p) PROVE SchedInv'
  <2>1. \A q \in Scheds : sched_pc'[q] = IF q = p THEN "get" ELSE sched_pc[q]
    BY <1>13 DEF LaunchByScript, Launch, SchedTypes
  <2>2. OneAtATime' /\ SegmentsKnown' /\ KeyHolds'
    BY <1>13, <2>1 DEF LaunchByScript, Launch, Script, Starting, HasSegment, Created,
      SchedAlive, SchedTypes, OneAtATime, SegmentsKnown, KeyHolds, WorkersFollow
  <2>3. InheritsOnlyByHand' /\ OneOwner'
    BY <1>13, <2>1 DEF LaunchByScript, Launch, Script, SegmentsKnown, KeyHolds,
      InheritsOnlyByHand, OneOwner, HasSegment, Created, SchedAlive
  <2>4. WorkersFollow'
    BY <1>13, <2>1 DEF LaunchByScript, Launch, Script, Starting, HasSegment, OneAtATime,
      SegmentsKnown, KeyHolds, WorkersFollow, SegmentTypes, WorkerTypes
  <2>5. Initialized' /\ Registered' /\ RegisteredServes'
    BY <1>13, <2>1 DEF LaunchByScript, Launch, Script, Starting, HasSegment, Created,
      SchedAlive, OwnSegment, OneAtATime, SegmentsKnown, KeyHolds, OneOwner, WorkersFollow,
      Initialized, Registered, RegisteredServes
  <2> QED BY <2>2, <2>3, <2>4, <2>5
<1>14. ASSUME IInv, NEW p \in Scheds, LaunchByHand(p) PROVE SchedInv'
  <2>1. \A q \in Scheds : sched_pc'[q] = IF q = p THEN "get" ELSE sched_pc[q]
    BY <1>14 DEF LaunchByHand, Launch, SchedTypes
  <2>2. OneAtATime' /\ SegmentsKnown' /\ KeyHolds'
    BY <1>14, <2>1 DEF LaunchByHand, Launch, Script, Starting, HasSegment, Created,
      SchedAlive, SchedTypes, OneAtATime, SegmentsKnown, KeyHolds, WorkersFollow
  <2>3. InheritsOnlyByHand' /\ OneOwner'
    BY <1>14, <2>1 DEF LaunchByHand, Launch, Script, SegmentsKnown, KeyHolds,
      InheritsOnlyByHand, OneOwner, HasSegment, Created, SchedAlive
  <2>4. WorkersFollow'
    BY <1>14, <2>1 DEF LaunchByHand, Launch, Script, Starting, HasSegment, OneAtATime,
      SegmentsKnown, KeyHolds, WorkersFollow, SegmentTypes, WorkerTypes
  <2>5. Initialized' /\ Registered' /\ RegisteredServes'
    BY <1>14, <2>1 DEF LaunchByHand, Launch, Script, Starting, HasSegment, Created,
      SchedAlive, OwnSegment, OneAtATime, SegmentsKnown, KeyHolds, OneOwner, WorkersFollow,
      Initialized, Registered, RegisteredServes
  <2> QED BY <2>2, <2>3, <2>4, <2>5
<1>15. ASSUME IInv, NEW v \in Webs, StartWeb(v) PROVE SchedInv'
  BY <1>15 DEF StartWeb, Starting, HasSegment, Created, SchedAlive, OwnSegment, OneAtATime,
    SegmentsKnown, KeyHolds, InheritsOnlyByHand, OneOwner, WorkersFollow, Initialized,
    Registered, RegisteredServes
<1>16. ASSUME IInv, NEW v \in Webs, WebAttach(v) PROVE SchedInv'
  BY <1>16 DEF WebAttach, Starting, HasSegment, Created, SchedAlive, OwnSegment, OneAtATime,
    SegmentsKnown, KeyHolds, InheritsOnlyByHand, OneOwner, WorkersFollow, Initialized,
    Registered, RegisteredServes
<1>17. ASSUME IInv, NEW v \in Webs, WebLeaves(v) PROVE SchedInv'
  BY <1>17 DEF WebLeaves, Starting, HasSegment, Created, SchedAlive, OwnSegment, OneAtATime,
    SegmentsKnown, KeyHolds, InheritsOnlyByHand, OneOwner, WorkersFollow, Initialized,
    Registered, RegisteredServes
<1>18. ASSUME IInv, Settle PROVE SchedInv'
  BY <1>18 DEF Settle, Starting, HasSegment, Created, SchedAlive, OwnSegment, OneAtATime,
    SegmentsKnown, KeyHolds, InheritsOnlyByHand, OneOwner, WorkersFollow, Initialized,
    Registered, RegisteredServes
<1>19. ASSUME IInv, Interrupt PROVE SchedInv'
  BY <1>19 DEF Interrupt, Starting, HasSegment, Created, SchedAlive, OwnSegment, OneAtATime,
    SegmentsKnown, KeyHolds, InheritsOnlyByHand, OneOwner, WorkersFollow, Initialized,
    Registered, RegisteredServes
<1>20. ASSUME IInv, WaitReturns PROVE SchedInv'
  BY <1>20 DEF WaitReturns, Starting, HasSegment, Created, SchedAlive, OwnSegment,
    OneAtATime, SegmentsKnown, KeyHolds, InheritsOnlyByHand, OneOwner, WorkersFollow,
    Initialized, Registered, RegisteredServes
<1>21. ASSUME IInv, StopWeb PROVE SchedInv'
  BY <1>21 DEF StopWeb, Starting, HasSegment, Created, SchedAlive, OwnSegment, OneAtATime,
    SegmentsKnown, KeyHolds, InheritsOnlyByHand, OneOwner, WorkersFollow, Initialized,
    Registered, RegisteredServes
<1>22. ASSUME IInv, EndWeb PROVE SchedInv'
  BY <1>22 DEF EndWeb, Script, Starting, HasSegment, Created, SchedAlive, OwnSegment,
    OneAtATime, SegmentsKnown, KeyHolds, InheritsOnlyByHand, OneOwner, WorkersFollow,
    Initialized, Registered, RegisteredServes
<1>23. ASSUME IInv, KillWeb PROVE SchedInv'
  BY <1>23 DEF KillWeb, Script, Starting, HasSegment, Created, SchedAlive, OwnSegment,
    OneAtATime, SegmentsKnown, KeyHolds, InheritsOnlyByHand, OneOwner, WorkersFollow,
    Initialized, Registered, RegisteredServes
<1>24. ASSUME IInv, StartScheduler PROVE SchedInv'
  BY <1>24 DEF StartScheduler, Script, Starting, HasSegment, Created, SchedAlive,
    OwnSegment, OneAtATime, SegmentsKnown, KeyHolds, InheritsOnlyByHand, OneOwner,
    WorkersFollow, Initialized, Registered, RegisteredServes
<1>25. ASSUME IInv, Started PROVE SchedInv'
  BY <1>25 DEF Started, Script, Starting, HasSegment, Created, SchedAlive, OwnSegment,
    OneAtATime, SegmentsKnown, KeyHolds, InheritsOnlyByHand, OneOwner, WorkersFollow,
    Initialized, Registered, RegisteredServes
<1>26. ASSUME IInv, KillSched PROVE SchedInv'
  <2>1. OneAtATime' /\ SegmentsKnown' /\ KeyHolds'
    BY <1>26 DEF KillSched, Script, SignalSched, Starting, HasSegment, Created, SchedAlive,
      SchedTypes, OneAtATime, SegmentsKnown, KeyHolds, WorkersFollow
  <2>2. InheritsOnlyByHand' /\ OneOwner'
    BY <1>26 DEF KillSched, Script, SignalSched, SegmentsKnown, KeyHolds,
      InheritsOnlyByHand, OneOwner, HasSegment, Created, SchedAlive
  <2>3. WorkersFollow'
    BY <1>26 DEF KillSched, Script, SignalSched, Starting, HasSegment, OneAtATime,
      SegmentsKnown, KeyHolds, WorkersFollow, SegmentTypes, WorkerTypes
  <2>4. Initialized' /\ Registered' /\ RegisteredServes'
    BY <1>26 DEF KillSched, Script, SignalSched, Starting, HasSegment, Created, SchedAlive,
      OwnSegment, OneAtATime, SegmentsKnown, KeyHolds, OneOwner, WorkersFollow, Initialized,
      Registered, RegisteredServes
  <2> QED BY <2>1, <2>2, <2>3, <2>4
<1>27. ASSUME IInv, EndSched PROVE SchedInv'
  <2>1. CASE pid \in SchedAlive
    BY <1>27, <2>1, SchedEndsKeeps DEF EndSched, Script, SchedAlive
  <2>2. CASE pid \notin SchedAlive
    BY <1>27, <2>2 DEF EndSched, Script, Starting, HasSegment, Created, SchedAlive,
      OwnSegment, OneAtATime, SegmentsKnown, KeyHolds, InheritsOnlyByHand, OneOwner,
      WorkersFollow, Initialized, Registered, RegisteredServes
  <2> QED BY <2>1, <2>2
<1>28. ASSUME IInv, KillWorkers PROVE SchedInv'
  <2>1. \A w \in Scheds : /\ worker_pc'[w] \notin Running
                          /\ worker_pc'[w] \in {worker_pc[w], "gone"}
                          /\ worker_pc[w] = "off" => worker_pc'[w] = "off"
                          /\ worker_pc'[w] = "failed" <=> worker_pc[w] = "failed"
    BY <1>28 DEF KillWorkers, Script, WorkersEnd, Named, WorkerTypes, OneAtATime
  <2>2. OneAtATime' /\ SegmentsKnown' /\ KeyHolds'
    BY <1>28, <2>1 DEF KillWorkers, Script, Starting, HasSegment, Created, SchedAlive,
      SchedTypes, OneAtATime, SegmentsKnown, KeyHolds, WorkersFollow
  <2>3. InheritsOnlyByHand' /\ OneOwner'
    BY <1>28, <2>1 DEF KillWorkers, Script, SegmentsKnown, KeyHolds, InheritsOnlyByHand,
      OneOwner, HasSegment, Created, SchedAlive
  <2>4. WorkersFollow'
    BY <1>28, <2>1 DEF KillWorkers, Script, Starting, HasSegment, OneAtATime, SegmentsKnown,
      KeyHolds, WorkersFollow, SegmentTypes, WorkerTypes
  <2>5. Initialized' /\ Registered' /\ RegisteredServes'
    BY <1>28, <2>1 DEF KillWorkers, Script, Starting, HasSegment, Created, SchedAlive,
      OwnSegment, OneAtATime, SegmentsKnown, KeyHolds, OneOwner, WorkersFollow, Initialized,
      Registered, RegisteredServes
  <2> QED BY <2>2, <2>3, <2>4, <2>5
<1>29. ASSUME IInv, Remove PROVE SchedInv'
  BY <1>29 DEF Remove, Script, Starting, HasSegment, Created, SchedAlive, OwnSegment,
    OneAtATime, SegmentsKnown, KeyHolds, InheritsOnlyByHand, OneOwner, WorkersFollow,
    Initialized, Registered, RegisteredServes
<1>30. ASSUME IInv, NEW distclean \in BOOLEAN, StartCleanup(distclean) PROVE SchedInv'
  BY <1>30 DEF StartCleanup, Script, Starting, HasSegment, Created, SchedAlive, OwnSegment,
    OneAtATime, SegmentsKnown, KeyHolds, InheritsOnlyByHand, OneOwner, WorkersFollow,
    Initialized, Registered, RegisteredServes
<1>31. ASSUME IInv, NEW p \in Scheds, ForkFails(p) PROVE SchedInv'
  <2>1. \A q \in Scheds : sched_pc'[q] = IF q = p THEN "monitor" ELSE sched_pc[q]
    BY <1>31 DEF ForkFails, Goes, SchedTypes
  <2>2. OneAtATime' /\ SegmentsKnown' /\ KeyHolds'
    BY <1>31, <2>1 DEF ForkFails, Goes, Starting, HasSegment, Created, SchedAlive, SchedTypes,
      OneAtATime, SegmentsKnown, KeyHolds, WorkersFollow
  <2>3. InheritsOnlyByHand' /\ OneOwner' /\ WorkersFollow'
    BY <1>31, <2>1 DEF ForkFails, Goes, InheritsOnlyByHand, OneOwner, WorkersFollow
  <2>4. Initialized' /\ Registered' /\ RegisteredServes'
    BY <1>31, <2>1 DEF ForkFails, Goes, Initialized, Registered, RegisteredServes
  <2> QED BY <2>2, <2>3, <2>4
<1>32. ASSUME IInv, NEW w \in Scheds, ExecFails(w) PROVE SchedInv'
  <2>1. \A v \in Scheds : /\ worker_pc'[v] = IF v = w THEN "failed" ELSE worker_pc[v]
                          /\ wseg'[v] = IF v = w THEN None ELSE wseg[v]
    BY <1>32 DEF ExecFails, WorkerTypes
  <2>2. worker_pc[w] = "forked" /\ wseg[w] = key
    BY <1>32 DEF ExecFails, WorkersFollow
  <2>3. OneAtATime' /\ SegmentsKnown' /\ KeyHolds' /\ InheritsOnlyByHand' /\ OneOwner'
    BY <1>32, <2>1 DEF ExecFails, OneAtATime, SegmentsKnown, KeyHolds, Created, SchedAlive,
      InheritsOnlyByHand, OneOwner
  <2>4. WorkersFollow'
    BY <1>32, <2>1, <2>2 DEF ExecFails, WorkersFollow
  <2>5. Initialized' /\ Registered' /\ RegisteredServes'
    BY <1>32, <2>1, <2>2 DEF ExecFails, WorkersFollow, Initialized, Registered,
      RegisteredServes
  <2> QED BY <2>3, <2>4, <2>5
<1>33. ASSUME IInv, NEW w \in Scheds, SignalWorker(w) PROVE SchedInv'
  <2>1. PICK early \in SUBSET {v \in {w} : worker_pc[v] = "attach"} :
          /\ WorkersEnd(early)
          /\ worker_shutdown' \subseteq worker_shutdown \cup {w}
          /\ flag' \subseteq flag \cup ({wseg[w]} \ {None})
    BY <1>33, SignalEffect DEF SignalWorker
  <2>2. \A v \in Scheds : \/ worker_pc'[v] = worker_pc[v] /\ wseg'[v] = wseg[v]
                          \/ worker_pc'[v] = "gone" /\ worker_pc[v] = "attach"
    BY <2>1 DEF WorkersEnd
  <2>3. worker_pc[w] \in Running
    BY <1>33 DEF SignalWorker
  <2>4. OneAtATime' /\ SegmentsKnown' /\ KeyHolds' /\ InheritsOnlyByHand' /\ OneOwner'
    BY <1>33, <2>2 DEF SignalWorker, OneAtATime, SegmentsKnown, KeyHolds, Created, SchedAlive,
      InheritsOnlyByHand, OneOwner
  <2>5. WorkersFollow'
    BY <1>33, <2>2 DEF SignalWorker, WorkersFollow
  <2>6. wseg[w] # None => wseg[w] = key
    BY <1>33, <2>3 DEF WorkersFollow, WorkerTypes
  <2>7. \A p \in Scheds : p \in flag' \ flag /\ seg[p] = p /\ p \in SchedAlive =>
            p \in told'  \/ key # p
    BY <1>33, <2>1, <2>3, <2>6 DEF SignalWorker, WorkersFollow
  <2>8. Initialized' /\ Registered' /\ RegisteredServes'
    BY <1>33, <2>1, <2>2, <2>6, <2>7 DEF SignalWorker, SchedAlive, Initialized, Registered,
      RegisteredServes
  <2> QED BY <2>4, <2>5, <2>8
<1>34. ASSUME IInv, NEW w \in Scheds, KillWorker(w) PROVE SchedInv'
  <2>1. \A v \in Scheds : /\ worker_pc'[v] = IF v = w THEN "killed" ELSE worker_pc[v]
                          /\ wseg'[v] = IF v = w THEN None ELSE wseg[v]
    BY <1>34 DEF KillWorker, WorkerTypes
  <2>2. OneAtATime' /\ SegmentsKnown' /\ KeyHolds' /\ InheritsOnlyByHand' /\ OneOwner'
    BY <1>34, <2>1 DEF KillWorker, OneAtATime, SegmentsKnown, KeyHolds, Created, SchedAlive,
      InheritsOnlyByHand, OneOwner
  <2>3. worker_pc[w] \in Running
    BY <1>34 DEF KillWorker
  <2>4. WorkersFollow'
    BY <1>34, <2>1, <2>3 DEF KillWorker, WorkersFollow
  <2>5. Initialized' /\ Registered' /\ RegisteredServes'
    BY <1>34, <2>1, <2>3 DEF KillWorker, Initialized, Registered, RegisteredServes
  <2> QED BY <2>2, <2>4, <2>5
<1>35. ASSUME IInv, UNCHANGED vars PROVE SchedInv'
  BY <1>35 DEF vars, Starting, HasSegment, Created, SchedAlive, OwnSegment, OneAtATime,
    SegmentsKnown, KeyHolds, InheritsOnlyByHand, OneOwner, WorkersFollow, Initialized,
    Registered, RegisteredServes
<1> QED BY <1>1, <1>2, <1>3, <1>4, <1>5, <1>6, <1>7, <1>8, <1>9, <1>10, <1>11, <1>12, <1>13,
  <1>14, <1>15, <1>16, <1>17, <1>18, <1>19, <1>20, <1>21, <1>22, <1>23, <1>24, <1>25, <1>26,
  <1>27, <1>28, <1>29, <1>30, <1>35, <1>31, <1>32, <1>33, <1>34
  DEF Next, OpStep, SchedStep, WorkerStarts

-----------------------------------------------------------------------------
LEMMA WebKept ==
    IInv /\ [Next]_vars => WebSeen'
<1> USE DEF IInv, SchedInv, WebSeen, WebAlive, StartupTypeOK
<1>1. ASSUME IInv, UNCHANGED <<webVars, key, op, pid>>, ready \subseteq ready' PROVE WebSeen'
  BY <1>1
<1>2. ASSUME IInv,
             NEW p \in Scheds,
             \/ GetExisting(p) \/ Initialize(p) \/ WritePid(p) \/ Fork(p) \/ ForkFails(p)
             \/ Terminate(p) \/ Finish(p) \/ Exec(p) \/ ExecFails(p) \/ WorkerAttach(p)
             \/ WorkerLeaves(p) \/ SignalWorker(p) \/ KillWorker(p) \/ Stop(p) \/ Crash(p)
      PROVE  WebSeen'
  BY <1>1, <1>2 DEF GetExisting, Initialize, WritePid, Fork, ForkFails, Terminate, Finish,
    Exec, ExecFails, WorkerAttach, WorkerLeaves, SignalWorker, KillWorker, Stop, Crash
<1>3. ASSUME IInv, Settle \/ Interrupt \/ WaitReturns \/ UNCHANGED vars PROVE WebSeen'
  BY <1>1, <1>3 DEF Settle, Interrupt, WaitReturns, vars
<1>4. ASSUME IInv, UNCHANGED <<webVars, key, ready>>,
             op' \in {"idle", "kill_web", "launch", "started"}
      PROVE  WebSeen'
  BY <1>4
<1>5. ASSUME IInv, NEW p \in Scheds, LaunchByScript(p) \/ LaunchByHand(p) PROVE WebSeen'
  BY <1>4, <1>5 DEF LaunchByScript, LaunchByHand, Launch, Script
<1>6. ASSUME IInv, StartScheduler \/ Started \/ \E distclean \in BOOLEAN : StartCleanup(distclean)
      PROVE  WebSeen'
  BY <1>4, <1>6 DEF StartScheduler, Started, StartCleanup, Script
<1>7. ASSUME IInv, NEW p \in Scheds, Get(p) PROVE WebSeen'
  BY <1>7 DEF Get, SegmentTypes, WebTypes
<1>8. ASSUME IInv, NEW v \in Webs, StartWeb(v) PROVE WebSeen'
  <2>1. v \notin doubtful' => key \in ready
    BY <1>8 DEF StartWeb, OwnSegment, SchedAlive, SegmentTypes, Registered, Initialized
  <2>2. CleaningUp => v \in unseen'
    BY <1>8 DEF StartWeb
  <2>3. \A u \in Webs : u # v => web_pc'[u] = web_pc[u]
    BY <1>8 DEF StartWeb, WebTypes
  <2>4. web_pc'[v] = "attach"
    BY <1>8 DEF StartWeb, WebTypes
  <2> QED BY <1>8, <2>1, <2>2, <2>3, <2>4 DEF StartWeb, CleaningUp
<1>9. ASSUME IInv, NEW v \in Webs, WebAttach(v) PROVE WebSeen'
  <2>1. CASE WebEnds(v)
    BY <1>9, <2>1 DEF WebAttach, WebEnds, WebTypes
  <2>2. CASE ~ WebEnds(v)
    <3>1. \A u \in Webs : /\ web_pc'[u] = IF u = v THEN "serve" ELSE web_pc[u]
                          /\ webseg'[u] = IF u = v THEN key ELSE webseg[u]
      BY <1>9, <2>2 DEF WebAttach, WebTypes
    <3> QED BY <1>9, <2>2, <3>1 DEF WebAttach
  <2> QED BY <2>1, <2>2
<1>10. ASSUME IInv, NEW v \in Webs, WebEnds(v), UNCHANGED <<key, ready, op, pid>> PROVE WebSeen'
  <2>1. \A u \in Webs : /\ web_pc'[u] = IF u = v THEN "gone" ELSE web_pc[u]
                        /\ webseg'[u] = IF u = v THEN None ELSE webseg[u]
    BY <1>10 DEF WebEnds, WebTypes
  <2> QED BY <1>10, <2>1 DEF WebEnds
<1>11. ASSUME IInv, NEW v \in Webs, WebLeaves(v) PROVE WebSeen'
  BY <1>10, <1>11 DEF WebLeaves
<1>12. ASSUME IInv, StopWeb PROVE WebSeen'
  BY <1>1, <1>10, <1>12 DEF StopWeb
<1>13. ASSUME IInv, KillWeb PROVE WebSeen'
  BY <1>13 DEF KillWeb, Script
<1>14. ASSUME IInv, EndWeb PROVE WebSeen'
  BY <1>14 DEF EndWeb, Script, WebEnds, WebTypes
<1>15. ASSUME IInv, KillSched \/ EndSched \/ KillWorkers PROVE WebSeen'
  BY <1>15 DEF KillSched, EndSched, KillWorkers, Script
<1>16. ASSUME IInv, Remove PROVE WebSeen'
  BY <1>16 DEF Remove, Script, ScriptTypes
<1> QED BY <1>2, <1>3, <1>5, <1>6, <1>7, <1>8, <1>9, <1>11, <1>12, <1>13, <1>14, <1>15,
  <1>16 DEF Next, OpStep, SchedStep, WorkerStarts

LEMMA NextInv == IInv /\ [Next]_vars => IInv'
BY TypeKept, SchedKept, WebKept DEF IInv

LEMMA AlwaysInv == Spec => []IInv
BY InitInv, NextInv, PTL DEF Spec
-----------------------------------------------------------------------------
\* Every variable has its type, and a process that works has a segment.
THEOREM StartupTypeCorrect == Spec => []StartupTypeOK
<1>1. IInv => StartupTypeOK
  BY DEF IInv
<1> QED BY <1>1, AlwaysInv, PTL

\* A scheduler that start_scheduler.sh started has no segment but its own, whatever was
\* left behind: the script frees the key before it starts a scheduler, and nobody takes
\* the key in between.
THEOREM ScriptedInheritsNothing == Spec => []InheritsOnlyByHand
<1>1. IInv => InheritsOnlyByHand
  BY DEF IInv, SchedInv
<1> QED BY <1>1, AlwaysInv, PTL

\* Every scheduler that has come to its workers, until it is told to stop or make distclean
\* removes its file, is the one in scheduler.pid and has the segment that the key leads to.
\* Its own segment is initialized, and marked for shutdown only by a worker of it that was
\* signalled or whose execl failed.
THEOREM PidfileNamesAServer == Spec => []RegisteredServes
<1>1. IInv => RegisteredServes
  BY DEF IInv, SchedInv
<1> QED BY <1>1, AlwaysInv, PTL

\* No worker and no web server uses a mutex before it is initialized, but for the web
\* servers that were started without a scheduler or overlooked by cleanup.sh.
THEOREM UsedWhenReady == Spec => []ReadyWhenUsed
<1>1. ASSUME IInv PROVE ReadyWhenUsed
  <2>1. \A w \in Scheds : worker_pc[w] = "loop" /\ OwnSegment(w) => wseg[w] \in ready
    BY <1>1 DEF IInv, SchedInv, WorkersFollow, Initialized, OwnSegment
  <2>2. \A v \in Webs : web_pc[v] = "serve" /\ webseg[v] \notin ready =>
            v \in doubtful \cup unseen
    BY <1>1 DEF IInv, WebSeen, WebAlive
  <2> QED BY <2>1, <2>2 DEF ReadyWhenUsed
<1> QED BY <1>1, AlwaysInv, PTL

\* Only a web server that cleanup.sh overlooked serves a segment the key has left.
THEOREM OnlyUnseenAreStale == Spec => []WebIsCurrent
<1>1. IInv => WebIsCurrent
  BY DEF IInv, WebSeen, WebAlive, WebIsCurrent
<1> QED BY <1>1, AlwaysInv, PTL
=============================================================================
