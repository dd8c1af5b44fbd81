---------------------------- MODULE TaskCleanup ----------------------------
(***************************************************************************)
(* TaskQueue with two history variables, to say of remove_completed_tasks  *)
(* what its comment says of it: when each task got its outcome, by the     *)
(* clock and not by its end_time field, and when the last cleanup ran.     *)
(***************************************************************************)
EXTENDS TaskQueue

VARIABLES
    endedAt,       \* when a task became COMPLETED or FAILED
    lastCleanup    \* when the scheduler last called remove_completed_tasks

cleanupVars == <<vars, endedAt, lastCleanup>>

Ended == TasksOf("COMPLETED") \cup TasksOf("FAILED")

CleanupInit ==
    /\ Init
    /\ endedAt = [id \in 1..LastId |-> now]
    /\ lastCleanup = 0

CleanupNext ==
    \/ /\ Activity
       /\ endedAt' = [id \in 1..LastId |-> IF id \in Ended' \ Ended THEN now
                                                                ELSE endedAt[id]]
       /\ UNCHANGED lastCleanup
    \/ /\ RemoveCompletedTasks
       /\ lastCleanup' = now
       /\ UNCHANGED endedAt

CleanupSpec == CleanupInit /\ [][CleanupNext]_cleanupVars
-----------------------------------------------------------------------------
\* The comment in remove_completed_tasks: a task is kept if it is not in a
\* terminal state, or in a terminal state but not old enough.  So a task with
\* an outcome that is still in the array was not old at the last cleanup.
KeepsOnlyUnfinishedOrRecent ==
    \A i \in InUse :
        tasks[i].status \in Terminal => lastCleanup - endedAt[tasks[i].id] <= MaxAge
=============================================================================
