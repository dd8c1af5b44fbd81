--------------------------- MODULE InsertPosition --------------------------
(***************************************************************************)
(* The binary search with which enqueue_task finds the cell of a new task, *)
(* one iteration of its loop per step.  TaskQueue uses its result in one   *)
(* step, as IsInsertPos.  The array does not change meanwhile: the caller  *)
(* holds queue_mutex.                                                      *)
(***************************************************************************)
EXTENDS PriorityArray

CONSTANT MAX_TASKS

ASSUME SearchAssumption == MAX_TASKS \in Nat

VARIABLES
    prio, size,    \* the priorities of the tasks in the array, and their number
    priority,      \* the priority of the new task
    left, right,   \* the cells still in question
    insert_pos,
    found          \* the loop has ended

vars == <<prio, size, priority, left, right, insert_pos, found>>

TypeOK ==
    /\ size \in 0..MAX_TASKS
    /\ prio \in [0..(size-1) -> Priority]
    /\ priority \in Priority
    /\ left \in 0..size
    /\ right \in 0..size
    /\ insert_pos \in 0..size
    /\ found \in BOOLEAN

\* Wrong: takes right for the last cell instead of the one behind it.
Init_RightInclusive ==
    /\ size \in 0..MAX_TASKS
    /\ prio \in [0..(size-1) -> Priority]
    /\ IsSorted(prio, size)
    /\ priority \in Priority
    /\ left = 0
    /\ right = size - 1
    /\ insert_pos = size
    /\ found = FALSE

Init ==
    /\ size \in 0..MAX_TASKS
    /\ prio \in [0..(size-1) -> Priority]
    /\ IsSorted(prio, size)
    /\ priority \in Priority
    /\ left = 0
    /\ right = size
    /\ insert_pos = size
    /\ found = FALSE

\* Wrong: rounds up.
mid_Up == left + (right - left + 1) \div 2

mid == left + (right - left) \div 2

\* Wrong: forgets the position it found.
GoLeft_Forgets ==
    /\ left < right
    /\ prio[mid] > priority
    /\ right' = mid
    /\ UNCHANGED <<prio, size, priority, left, insert_pos, found>>

\* The task in the middle is less urgent: the new one goes before it.
GoLeft ==
    /\ left < right
    /\ prio[mid] > priority
    /\ insert_pos' = mid
    /\ right' = mid
    /\ UNCHANGED <<prio, size, priority, left, found>>

\* Wrong: keeps the middle in the interval.
GoRight_KeepsMid ==
    /\ left < right
    /\ prio[mid] <= priority
    /\ left' = mid
    /\ UNCHANGED <<prio, size, priority, right, insert_pos, found>>

\* Wrong: a linear search.
GoRight_ByOne ==
    /\ left < right
    /\ prio[mid] <= priority
    /\ left' = left + 1
    /\ UNCHANGED <<prio, size, priority, right, insert_pos, found>>

GoRight ==
    /\ left < right
    /\ prio[mid] <= priority
    /\ left' = mid + 1
    /\ UNCHANGED <<prio, size, priority, right, insert_pos, found>>

Stop ==
    /\ ~ found
    /\ left >= right
    /\ found' = TRUE
    /\ UNCHANGED <<prio, size, priority, left, right, insert_pos>>

Next == GoLeft \/ GoRight \/ Stop

\* The loop is straight-line code under a lock: it keeps running.
Spec == Init /\ [][Next]_vars /\ WF_vars(Next)
-----------------------------------------------------------------------------
\* Every cell left of the interval is at least as urgent as the new task,
\* every cell from insert_pos on is less urgent, and insert_pos is where the
\* interval ends.
LoopInvariant ==
    /\ IsSorted(prio, size)
    /\ left <= right
    /\ insert_pos = right
    /\ \A i \in 0..(size-1) : i < left => prio[i] <= priority
    /\ \A i \in 0..(size-1) : i >= right => prio[i] > priority

\* The search never reads outside the cells in use.
ReadsInUse == left < right => mid \in 0..(size-1)

\* The result is the one position that keeps the array sorted and is fair to
\* the older tasks of the same priority.
FindsInsertPos == found => IsInsertPos(prio, size, priority, insert_pos)

\* "O(log n) instead of O(n)": an iteration leaves at most half the interval.
Halves == [][right' - left' <= (right - left) \div 2]_<<left, right>>

Terminates == <>found
=============================================================================
