------------------------- MODULE PrioritySchedule --------------------------
(***************************************************************************)
(* What the shared queue promises to those who submit tasks and to those   *)
(* who watch it, with no array, no capacity and no clock: every task is    *)
(* numbered in the order of submission, waits, is started at most once,    *)
(* always as the most urgent one waiting (the oldest among equals), and is *)
(* counted exactly once as completed or failed.                            *)
(***************************************************************************)
EXTENDS PriorityArray, FiniteSets

VARIABLES
    waiting,     \* the submitted tasks nobody has started, [id, priority]
    running,     \* the ids of the tasks that were started and have no outcome
    completed,   \* how many tasks completed
    failed,      \* how many tasks failed or were cancelled
    nextId       \* the id the next task receives

vars == <<waiting, running, completed, failed, nextId>>

Init ==
    /\ waiting = {}
    /\ running = {}
    /\ completed = 0
    /\ failed = 0
    /\ nextId = 1

\* s is served before t.
Before(s, t) ==
    s.priority < t.priority \/ (s.priority = t.priority /\ s.id < t.id)

Submit(p) ==
    /\ waiting' = waiting \cup {[id |-> nextId, priority |-> p]}
    /\ nextId' = nextId + 1
    /\ UNCHANGED <<running, completed, failed>>

Start(t) ==
    /\ \A s \in waiting \ {t} : Before(t, s)
    /\ waiting' = waiting \ {t}
    /\ running' = running \cup {t.id}
    /\ UNCHANGED <<completed, failed, nextId>>

Withdraw(t) ==
    /\ waiting' = waiting \ {t}
    /\ failed' = failed + 1
    /\ UNCHANGED <<running, completed, nextId>>

Finish(id) ==
    /\ running' = running \ {id}
    /\ completed' = completed + 1
    /\ UNCHANGED <<waiting, failed, nextId>>

Fail(id) ==
    /\ running' = running \ {id}
    /\ failed' = failed + 1
    /\ UNCHANGED <<waiting, completed, nextId>>

Next ==
    \/ \E p \in Priority : Submit(p)
    \/ \E t \in waiting : Start(t) \/ Withdraw(t)
    \/ \E id \in running : Finish(id) \/ Fail(id)

Spec == Init /\ [][Next]_vars
=============================================================================
