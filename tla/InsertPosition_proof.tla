----------------------- MODULE InsertPosition_proof ------------------------
(***************************************************************************)
(* The binary search of enqueue_task finds the insert position in every    *)
(* sorted array: the loop invariant is inductive and gives the result.     *)
(***************************************************************************)
EXTENDS InsertPosition, TLAPS

IInv == TypeOK /\ LoopInvariant /\ (found => left >= right)

\* The midpoint of a nonempty interval lies in it, below its right end.
LEMMA MidInInterval ==
    ASSUME NEW l \in Nat, NEW r \in Nat, l < r
    PROVE  /\ l + (r - l) \div 2 \in Nat
           /\ l <= l + (r - l) \div 2
           /\ l + (r - l) \div 2 < r
  <1>1. PICK d \in Nat : d = r - l /\ d > 0
    OBVIOUS
  <1>2. d \div 2 \in Nat /\ d \div 2 < d
    BY <1>1
  <1>3. QED
    BY <1>1, <1>2

\* The loop invariant holds when the loop is entered.
LEMMA InvariantInitially == Init => IInv
  <1> SUFFICES ASSUME Init
               PROVE  IInv
    OBVIOUS
  <1>1. TypeOK
    <2>1. found \in BOOLEAN
      BY Zenon DEF Init
    <2>2. QED
      BY <2>1, SearchAssumption DEF Init, TypeOK
  <1>2. LoopInvariant
    BY SearchAssumption DEF Init, LoopInvariant
  <1>3. QED
    BY <1>1, <1>2 DEF Init, IInv

\* Every iteration preserves it: in a sorted array, what the middle cell shows
\* holds of all cells on the side that is dropped.
LEMMA InvariantInductive == IInv /\ [Next]_vars => IInv'
  <1> SUFFICES ASSUME IInv, [Next]_vars
               PROVE  IInv'
    OBVIOUS
  <1> USE SearchAssumption
  <1>1. CASE GoLeft
    <2>1. mid \in Nat /\ left <= mid /\ mid < right
      BY <1>1, MidInInterval DEF IInv, TypeOK, GoLeft, mid
    <2>2. TypeOK'
      BY <1>1, <2>1 DEF IInv, TypeOK, GoLeft
    <2>3. \A i \in 0..(size-1) : i >= mid => prio[i] > priority
      BY <1>1, <2>1 DEF IInv, TypeOK, LoopInvariant, GoLeft, IsSorted, Priority,
         PRIORITY_HIGH, PRIORITY_MEDIUM, PRIORITY_LOW
    <2>4. LoopInvariant'
      BY <1>1, <2>1, <2>3 DEF IInv, TypeOK, LoopInvariant, GoLeft, IsSorted
    <2>5. QED
      BY <1>1, <2>2, <2>4 DEF IInv, GoLeft, TypeOK
  <1>2. CASE GoRight
    <2>1. mid \in Nat /\ left <= mid /\ mid < right
      BY <1>2, MidInInterval DEF IInv, TypeOK, GoRight, mid
    <2>2. TypeOK'
      BY <1>2, <2>1 DEF IInv, TypeOK, GoRight
    <2>3. \A i \in 0..(size-1) : i < mid + 1 => prio[i] <= priority
      BY <1>2, <2>1 DEF IInv, TypeOK, LoopInvariant, GoRight, IsSorted, Priority,
         PRIORITY_HIGH, PRIORITY_MEDIUM, PRIORITY_LOW
    <2>4. LoopInvariant'
      BY <1>2, <2>1, <2>3 DEF IInv, TypeOK, LoopInvariant, GoRight, IsSorted
    <2>5. QED
      BY <1>2, <2>2, <2>4 DEF IInv, GoRight, TypeOK
  <1>3. CASE Stop
    BY <1>3 DEF IInv, TypeOK, LoopInvariant, Stop, IsSorted
  <1>4. CASE UNCHANGED vars
    BY <1>4 DEF IInv, TypeOK, LoopInvariant, IsSorted, vars
  <1>5. QED
    BY <1>1, <1>2, <1>3, <1>4 DEF Next

LEMMA Invariance == Spec => []IInv
  BY InvariantInitially, InvariantInductive, PTL DEF Spec

\* The three positions of the search stay in 0..size, so that what it returns is a cell
\* of the array or the one behind it; the array it searches stays as it was and sorted.
THEOREM SearchTypeCorrect == Spec => []TypeOK
  BY Invariance, PTL DEF IInv

\* For every array the caller may hold: what the search returns is the insert
\* position, which is what TaskQueue takes for the position of a new task.
THEOREM SearchIsCorrect == Spec => []FindsInsertPos
  <1>1. IInv => FindsInsertPos
    BY SearchAssumption DEF IInv, TypeOK, LoopInvariant, FindsInsertPos, IsInsertPos
  <1>2. QED
    BY <1>1, Invariance, PTL

\* For every array: the search reads no cell that is not in use.
THEOREM SearchStaysInUse == Spec => []ReadsInUse
  <1>1. IInv => ReadsInUse
    BY MidInInterval DEF IInv, TypeOK, ReadsInUse, mid
  <1>2. QED
    BY <1>1, Invariance, PTL

\* For every array: the interval at least halves, which is the logarithmic
\* bound the comment in enqueue_task claims.
THEOREM SearchHalves == Spec => Halves
  <1>1. IInv /\ [Next]_vars => [right' - left' <= (right - left) \div 2]_<<left, right>>
    <2> SUFFICES ASSUME IInv, [Next]_vars, UNCHANGED <<left, right>> => FALSE
                 PROVE  right' - left' <= (right - left) \div 2
      OBVIOUS
    <2>1. left \in Nat /\ right \in Nat
      BY SearchAssumption DEF IInv, TypeOK
    <2>2. CASE GoLeft
      BY <2>1, <2>2 DEF GoLeft, mid
    <2>3. CASE GoRight
      BY <2>1, <2>3 DEF GoRight, mid
    <2>4. QED
      BY <2>2, <2>3 DEF Next, Stop, vars
  <1>2. QED
    BY <1>1, Invariance, PTL DEF Spec, Halves
=============================================================================
