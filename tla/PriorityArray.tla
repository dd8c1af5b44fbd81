--------------------------- MODULE PriorityArray ---------------------------
(***************************************************************************)
(* The vocabulary the modules of this project share: the two enumerations  *)
(* of common.h and the position at which a task of a given priority enters *)
(* the priority-sorted array of task_queue.c.                              *)
(***************************************************************************)
EXTENDS Integers

\* A lower number is a higher priority.
PRIORITY_HIGH == 0
PRIORITY_MEDIUM == 1
PRIORITY_LOW == 2
Priority == {PRIORITY_HIGH, PRIORITY_MEDIUM, PRIORITY_LOW}

TaskStatus == {"PENDING", "RUNNING", "COMPLETED", "FAILED"}
Terminal == {"COMPLETED", "FAILED"}

\* An array of priorities whose first n cells are in use, as enqueue_task
\* assumes it: "inserting into a priority-sorted array".
IsSorted(prio, n) == \A i, j \in 0..(n-1) : i < j => prio[i] <= prio[j]

\* What the binary search of enqueue_task has to return: the new task goes
\* behind every task of its own or a higher priority and in front of every
\* task of a lower one.
IsInsertPos(prio, n, p, pos) ==
    /\ pos \in 0..n
    /\ \A i \in 0..(n-1) : IF i < pos THEN prio[i] <= p ELSE prio[i] > p
=============================================================================
