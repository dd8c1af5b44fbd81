--------------------------- MODULE Dashboard_proof --------------------------
(***************************************************************************)
(* Proofs about the page, for any number of tasks, of refreshes under way  *)
(* and of animations.                                                      *)
(***************************************************************************)
EXTENDS Dashboard, TLAPS

Bounded == queue.pending + queue.completed <= MaxTasks

\* The interval and the visibility of the tab.
TimerInv == OneTimer /\ (background => hidden)

BaseInv == DashboardTypeOK /\ Bounded /\ TimerInv
-----------------------------------------------------------------------------
LEMMA BaseInit == Init => BaseInv
<1> SUFFICES ASSUME Init PROVE BaseInv
  OBVIOUS
<1>1. queue \in Moment /\ Bounded
  BY DashboardAssumption DEF Init, Moment, Bounded
<1>2. NewRefresh \in Refresh
  BY <1>1 DEF NewRefresh, Refresh
<1>3. open \in [Refreshes -> Refresh \cup {None}]
  BY <1>2 DEF Init
<1>4. DashboardTypeOK
  <2>1. anims \in Seq([from : 0..MaxTasks, to : 0..MaxTasks]) /\ Len(anims) <= MaxAnims
    BY DashboardAssumption DEF Init
  <2>2. hidden \in BOOLEAN /\ background \in BOOLEAN
    BY Zenon DEF Init
  <2>3. /\ status = None /\ tasks = None /\ lastCompletedCount = None /\ first = None
        /\ card \in 0..MaxTasks /\ plotted \in Nat /\ intervals \in Nat
        /\ statusIndicator \in {"green", "red"}
    BY DashboardAssumption DEF Init
  <2>4. /\ autoRefresh \in BOOLEAN /\ refreshIntervalId \in BOOLEAN
        /\ wentBack \in BOOLEAN /\ passed \in BOOLEAN
    BY Zenon DEF Init
  <2>. QED  BY <1>1, <1>3, <2>1, <2>2, <2>3, <2>4 DEF DashboardTypeOK
<1>5. TimerInv
  <2>1. OneTimer
    <3>1. hidden \/ ~ hidden
      OBVIOUS
    <3>. QED  BY <3>1 DEF Init, OneTimer
  <2>2. background => hidden
    BY Zenon DEF Init
  <2>. QED  BY <2>1, <2>2 DEF TimerInv
<1>. QED  BY <1>1, <1>4, <1>5 DEF BaseInv

\* The two ends of the interval.
LEMMA TimerStarts ==
    ASSUME BaseInv, startAutoRefresh
    PROVE  intervals' = 1 /\ refreshIntervalId'
<1>1. CASE refreshIntervalId
  BY <1>1 DEF startAutoRefresh, BaseInv, TimerInv, OneTimer
<1>2. CASE ~ refreshIntervalId
  <2>1. intervals = 0
    BY <1>2 DEF BaseInv, TimerInv, OneTimer
  <2>. QED  BY <1>2, <2>1 DEF startAutoRefresh
<1>. QED  BY <1>1, <1>2

LEMMA TimerStops ==
    ASSUME BaseInv, stopAutoRefresh
    PROVE  intervals' = 0 /\ ~ refreshIntervalId'
<1>1. CASE refreshIntervalId
  <2>1. intervals = 1
    BY <1>1 DEF BaseInv, TimerInv, OneTimer
  <2>. QED  BY <1>1, <2>1 DEF stopAutoRefresh
<1>2. CASE ~ refreshIntervalId
  <2>1. intervals = 0
    BY <1>2 DEF BaseInv, TimerInv, OneTimer
  <2>. QED  BY <1>2, <2>1 DEF stopAutoRefresh
<1>. QED  BY <1>1, <1>2

\* A refresh that has all its answers.
LEMMA Answered ==
    ASSUME DashboardTypeOK, NEW r \in Refreshes, open[r] # None,
           None \notin {open[r].answers[f] : f \in Fetches}
    PROVE  \A f \in Fetches : open[r].answers[f] \in Moment
BY DEF DashboardTypeOK, Refresh

LEMMA FreshIsRefresh == DashboardTypeOK => NewRefresh \in Refresh
BY DEF DashboardTypeOK, NewRefresh, Refresh

LEMMA StartsType ==
    ASSUME DashboardTypeOK, Starts
    PROVE  open' \in [Refreshes -> Refresh \cup {None}]
BY FreshIsRefresh DEF DashboardTypeOK, Starts

LEMMA BaseStep == BaseInv /\ [Next]_vars => BaseInv'
<1> SUFFICES ASSUME BaseInv, [Next]_vars PROVE BaseInv'
  OBVIOUS
<1> USE DashboardAssumption DEF BaseInv, TimerInv, OneTimer, Bounded, pageVars, timerVars
<1>1. CASE UNCHANGED vars
  BY <1>1 DEF vars, DashboardTypeOK
<1>2. CASE Submit
  <2>1. queue.pending \in Nat /\ queue.completed \in Nat
    BY DEF DashboardTypeOK, Moment
  <2>2. /\ queue.pending + 1 \in 0..MaxTasks
        /\ queue.pending + 1 + queue.completed <= MaxTasks
    BY <1>2, <2>1 DEF Submit
  <2>3. /\ queue' \in Moment
        /\ queue'.pending = queue.pending + 1
        /\ queue'.completed = queue.completed
    BY <1>2, <2>2 DEF Submit, DashboardTypeOK, Moment
  <2>. QED  BY <1>2, <2>2, <2>3 DEF Submit, DashboardTypeOK
<1>3. CASE Complete
  BY <1>3 DEF Complete, DashboardTypeOK, Moment
<1>4. ASSUME NEW r \in Refreshes, NEW f \in Fetches, Answer(r, f) PROVE BaseInv'
  <2>1. [open[r] EXCEPT !.answers[f] = queue] \in Refresh
    BY <1>4 DEF Answer, DashboardTypeOK, Refresh
  <2>. QED  BY <1>4, <2>1 DEF Answer, DashboardTypeOK
<1>5. ASSUME NEW r \in Refreshes, Shows(r) PROVE BaseInv'
  <2>1. status' \in Moment /\ tasks' \in Moment
    BY <1>5, Answered DEF Shows, Fetches
  <2>2. status'.pending \in 0..MaxTasks /\ status'.completed \in 0..MaxTasks
    BY <2>1 DEF Moment
  <2>3. /\ anims' \in Seq([from : 0..MaxTasks, to : 0..MaxTasks])
        /\ Len(anims') <= MaxAnims
        /\ card' = card
        /\ passed' \in BOOLEAN
    <3>1. CASE card = status'.pending
      BY <1>5, <3>1 DEF Shows, animateValue, DashboardTypeOK
    <3>2. CASE card # status'.pending
      <4>1. anims' = Append(anims, [from |-> card, to |-> status'.pending])
        BY <1>5, <3>2 DEF Shows, animateValue
      <4>2. /\ Len(anims) < MaxAnims /\ card' = card
            /\ passed' \in BOOLEAN
        BY <1>5, <3>2 DEF Shows, animateValue
      <4>3. [from |-> card, to |-> status'.pending] \in [from : 0..MaxTasks, to : 0..MaxTasks]
        BY <2>2 DEF DashboardTypeOK
      <4>. QED  BY <4>1, <4>2, <4>3 DEF DashboardTypeOK
    <3>. QED  BY <3>1, <3>2
  <2>4. plotted' \in Nat /\ lastCompletedCount' \in 0..MaxTasks
    BY <1>5, <2>2 DEF Shows, updateCharts, DashboardTypeOK
  <2>5. first' \in 0..MaxTasks \cup {None} /\ wentBack' \in BOOLEAN
    BY <1>5, <2>2 DEF Shows, DashboardTypeOK
  <2>6. open' \in [Refreshes -> Refresh \cup {None}] /\ statusIndicator' = "green"
    BY <1>5 DEF Shows, DashboardTypeOK
  <2>. QED  BY <1>5, <2>1, <2>3, <2>4, <2>5, <2>6 DEF Shows, DashboardTypeOK
<1>6. ASSUME NEW r \in Refreshes, Fails(r) PROVE BaseInv'
  BY <1>6 DEF Fails, DashboardTypeOK
<1>7. ASSUME NEW i \in 1..Len(anims), Frame(i) PROVE BaseInv'
  <2>1. anims[i] \in [from : 0..MaxTasks, to : 0..MaxTasks]
    <3> DEFINE A == [from : 0..MaxTasks, to : 0..MaxTasks]
    <3>1. anims \in Seq(A)
      BY DEF DashboardTypeOK
    <3> HIDE DEF A
    <3>2. anims[i] \in A
      BY <3>1
    <3>. QED  BY <3>2 DEF A
  <2>2. card' \in 0..MaxTasks
    BY <1>7, <2>1 DEF Frame
  <2>. QED  BY <1>7, <2>2 DEF Frame, DashboardTypeOK
<1>8. CASE Ends
  <2> DEFINE A == [from : 0..MaxTasks, to : 0..MaxTasks]
  <2>1. anims \in Seq(A) /\ anims # <<>> /\ Len(anims) <= MaxAnims
    BY <1>8 DEF Ends, DashboardTypeOK
  <2>2. Head(anims) \in A /\ Tail(anims) \in Seq(A) /\ Len(Tail(anims)) <= MaxAnims
    <3> HIDE DEF A
    <3>. QED  BY <2>1
  <2>. QED  BY <1>8, <2>2 DEF Ends, DashboardTypeOK
<1>9. CASE Interval
  BY <1>9, StartsType DEF Interval, Starts, DashboardTypeOK
<1>10. CASE Asked
  BY <1>10, StartsType DEF Asked, Starts, DashboardTypeOK
<1>11. CASE Toggle
  <2>1. CASE autoRefresh
    <3>1. intervals' = 0 /\ refreshIntervalId' = FALSE /\ autoRefresh' = FALSE
      BY <1>11, <2>1, TimerStops DEF Toggle, stopAutoRefresh
    <3>2. OneTimer' /\ (background' => hidden')
      BY <1>11, <3>1 DEF Toggle
    <3>3. DashboardTypeOK' /\ Bounded'
      BY <1>11, <3>1 DEF Toggle, DashboardTypeOK
    <3>. QED  BY <3>2, <3>3
  <2>2. CASE ~ autoRefresh
    <3>1. intervals' = 1 /\ refreshIntervalId' = TRUE /\ autoRefresh' = TRUE
      BY <1>11, <2>2, TimerStarts DEF Toggle, startAutoRefresh
    <3>2. OneTimer' /\ (background' => hidden')
      BY <1>11, <3>1 DEF Toggle
    <3>3. DashboardTypeOK' /\ Bounded'
      BY <1>11, <3>1 DEF Toggle, DashboardTypeOK
    <3>. QED  BY <3>2, <3>3
  <2>. QED  BY <2>1, <2>2
<1>12. CASE Hide
  <2>1. intervals' = 0 /\ refreshIntervalId' = FALSE /\ ~ background
    BY <1>12, TimerStops DEF Hide, stopAutoRefresh
  <2>2. OneTimer' /\ (background' => hidden')
    BY <1>12, <2>1 DEF Hide
  <2>3. DashboardTypeOK' /\ Bounded'
    BY <1>12, <2>1 DEF Hide, DashboardTypeOK
  <2>. QED  BY <2>2, <2>3
<1>13. CASE Show
  <2>1. open' \in [Refreshes -> Refresh \cup {None}]
    BY <1>13, StartsType DEF Show, DashboardTypeOK
  <2>2. CASE autoRefresh
    <3>1. intervals' = 1 /\ refreshIntervalId' = TRUE
      BY <1>13, <2>2, TimerStarts DEF Show, startAutoRefresh
    <3>. QED  BY <1>13, <2>1, <2>2, <3>1 DEF Show, DashboardTypeOK
  <2>3. CASE ~ autoRefresh
    BY <1>13, <2>1, <2>3 DEF Show, DashboardTypeOK
  <2>. QED  BY <2>2, <2>3
<1>. QED
  BY <1>1, <1>2, <1>3, <1>4, <1>5, <1>6, <1>7, <1>8, <1>9, <1>10, <1>11, <1>12, <1>13
  DEF Next

LEMMA AlwaysBase == Spec => []BaseInv
BY BaseInit, BaseStep, PTL DEF Spec

\* The variables of the page keep their types: in particular no point of the chart is
\* negative, whatever order the answers come in.
THEOREM PageTypeCorrect == Spec => []DashboardTypeOK
<1>1. BaseInv => DashboardTypeOK
  BY DEF BaseInv
<1>. QED  BY <1>1, AlwaysBase, PTL

\* Auto button and visibility, in any order, leave one interval at most, and one exactly
\* when the page should refresh itself or was opened in the background.
THEOREM NeverTwoTimers == Spec => []OneTimer
<1>1. BaseInv => OneTimer
  BY DEF BaseInv, TimerInv
<1>. QED  BY <1>1, AlwaysBase, PTL
-----------------------------------------------------------------------------
(* The moments.  The page sees the queue at the start of a refresh and in  *)
(* each answer: these moments come one after the other in the life of the  *)
(* queue, whatever order they come to the page in.                         *)

Leq(m, n) ==
    /\ m.completed <= n.completed
    /\ m.pending + m.completed <= n.pending + n.completed

Seen == {m \in Moment :
            \/ m = status
            \/ \E r \in Refreshes :
                  /\ open[r] # None
                  /\ \/ m = open[r].since
                     \/ \E f \in Fetches : m = open[r].answers[f]}

Chain == \A m, n \in Seen : Leq(m, n) \/ Leq(n, m)

SeenBefore == \A m \in Seen : Leq(m, queue)

\* No answer is older than the start of its refresh.
AnsweredSince ==
    \A r \in Refreshes : open[r] # None =>
        \A f \in Fetches : open[r].answers[f] # None =>
            Leq(open[r].since, open[r].answers[f])

HistoryInv == Chain /\ SeenBefore /\ AnsweredSince

LEMMA LeqTransitive ==
    ASSUME NEW k \in Moment, NEW m \in Moment, NEW n \in Moment, Leq(k, m), Leq(m, n)
    PROVE  Leq(k, n)
BY DashboardAssumption DEF Moment, Leq

LEMMA LeqReflexive == \A m \in Moment : Leq(m, m)
BY DashboardAssumption DEF Moment, Leq

LEMMA LeqTime ==
    ASSUME NEW m \in Moment, NEW n \in Moment, Leq(m, n)
    PROVE  Time(m) <= Time(n)
BY DashboardAssumption DEF Moment, Leq, Time

LEMMA QueueGrows == BaseInv /\ [Next]_vars => Leq(queue, queue')
<1> SUFFICES ASSUME BaseInv, [Next]_vars PROVE Leq(queue, queue')
  OBVIOUS
<1>1. queue \in Moment
  BY DEF BaseInv, DashboardTypeOK
<1>2. CASE Submit
  <2>1. queue'.pending = queue.pending + 1 /\ queue'.completed = queue.completed
    BY <1>1, <1>2 DEF Submit, Moment
  <2>. QED  BY <1>1, <2>1, DashboardAssumption DEF Moment, Leq
<1>3. CASE Complete
  <2>1. queue'.pending = queue.pending - 1 /\ queue'.completed = queue.completed + 1
    BY <1>3 DEF Complete
  <2>. QED  BY <1>1, <2>1, DashboardAssumption DEF Moment, Leq
<1>4. CASE queue' = queue
  BY <1>1, <1>4, LeqReflexive
<1>. QED
  BY <1>2, <1>3, <1>4
  DEF Next, Answer, Shows, Fails, Frame, Ends, Interval, Asked, Toggle, Hide, Show, vars

\* What a refresh that starts adds.
LEMMA StartsSees ==
    ASSUME BaseInv, Starts, status' = status, NEW m \in Seen'
    PROVE  m \in Seen \cup {queue}
<1>1. PICK r \in Refreshes : open[r] = None /\ open' = [open EXCEPT ![r] = NewRefresh]
  BY DEF Starts
<1>2. \A q \in Refreshes : open'[q] = IF q = r THEN NewRefresh ELSE open[q]
  BY <1>1 DEF BaseInv, DashboardTypeOK
<1>3. NewRefresh.since = queue /\ \A f \in Fetches : NewRefresh.answers[f] = None
  BY DEF NewRefresh
<1>4. m \in Moment /\ m # None
  BY DashboardAssumption DEF Seen
<1>. QED  BY <1>2, <1>3, <1>4 DEF Seen

LEMMA SameSees ==
    ASSUME open' = open, status' = status
    PROVE  Seen' = Seen
BY DEF Seen

LEMMA AddsOnlyNow ==
    ASSUME BaseInv, [Next]_vars, NEW m \in Seen'
    PROVE  m \in Seen \cup {queue}
<1> USE DEF pageVars, timerVars
<1>1. m \in Moment /\ m # None
  BY DashboardAssumption DEF Seen
<1>2. CASE open' = open /\ status' = status
  BY <1>2, SameSees
<1>3. ASSUME NEW r \in Refreshes, NEW f \in Fetches, Answer(r, f)
      PROVE  m \in Seen \cup {queue}
  <2>1. open[r] \in Refresh
    BY <1>3 DEF Answer, BaseInv, DashboardTypeOK
  <2>2. /\ open'[r].since = open[r].since
        /\ \A g \in Fetches : open'[r].answers[g] = IF g = f THEN queue ELSE open[r].answers[g]
    BY <1>3, <2>1 DEF Answer, BaseInv, DashboardTypeOK, Refresh
  <2>3. \A q \in Refreshes : q # r => open'[q] = open[q]
    BY <1>3 DEF Answer, BaseInv, DashboardTypeOK
  <2>4. status' = status /\ open[r] # None
    BY <1>3 DEF Answer
  <2>. QED  BY <1>1, <2>2, <2>3, <2>4 DEF Seen
<1>4. ASSUME NEW r \in Refreshes, Shows(r) PROVE m \in Seen \cup {queue}
  <2>1. \A q \in Refreshes : open'[q] = IF q = r THEN None ELSE open[q]
    BY <1>4 DEF Shows, BaseInv, DashboardTypeOK
  <2>2. status' = open[r].answers["status"] /\ open[r] # None /\ "status" \in Fetches
    BY <1>4 DEF Shows, Fetches
  <2>. QED  BY <1>1, <2>1, <2>2 DEF Seen
<1>5. ASSUME NEW r \in Refreshes, Fails(r) PROVE m \in Seen \cup {queue}
  <2>1. \A q \in Refreshes : open'[q] = IF q = r THEN None ELSE open[q]
    BY <1>5 DEF Fails, BaseInv, DashboardTypeOK
  <2>. QED  BY <1>1, <1>5, <2>1 DEF Fails, Seen
<1>6. CASE Starts /\ status' = status
  BY <1>6, StartsSees
<1>. QED
  BY <1>2, <1>3, <1>4, <1>5, <1>6
  DEF Next, vars, Submit, Complete, Frame, Ends, Interval, Asked, Toggle, Hide, Show

LEMMA HistoryStep == BaseInv /\ HistoryInv /\ [Next]_vars => HistoryInv'
<1> SUFFICES ASSUME BaseInv, HistoryInv, [Next]_vars PROVE HistoryInv'
  OBVIOUS
<1>1. queue \in Moment /\ queue' \in Moment
  BY BaseStep DEF BaseInv, DashboardTypeOK
<1>2. Leq(queue, queue) /\ Leq(queue, queue')
  BY <1>1, QueueGrows, LeqReflexive
<1>3. \A m \in Seen' : m \in Seen \cup {queue} /\ m \in Moment
  BY AddsOnlyNow, <1>1 DEF Seen
<1>4. \A m \in Seen' : Leq(m, queue)
  BY <1>2, <1>3 DEF HistoryInv, SeenBefore
<1>5. SeenBefore'
  BY <1>1, <1>2, <1>3, <1>4, LeqTransitive DEF SeenBefore
<1>6. Chain'
  BY <1>3, <1>4 DEF HistoryInv, Chain
<1>7. AnsweredSince'
  <2> USE DEF pageVars, timerVars
  <2>1. CASE open' = open
    BY <2>1 DEF HistoryInv, AnsweredSince
  <2>2. ASSUME NEW r \in Refreshes, NEW f \in Fetches, Answer(r, f) PROVE AnsweredSince'
    <3>1. open[r] \in Refresh /\ open[r] # None
      BY <2>2 DEF Answer, BaseInv, DashboardTypeOK
    <3>2. /\ open'[r].since = open[r].since
          /\ \A g \in Fetches :
                open'[r].answers[g] = IF g = f THEN queue ELSE open[r].answers[g]
      BY <2>2, <3>1 DEF Answer, BaseInv, DashboardTypeOK, Refresh
    <3>3. \A q \in Refreshes : q # r => open'[q] = open[q]
      BY <2>2 DEF Answer, BaseInv, DashboardTypeOK
    <3>4. open[r].since \in Seen
      BY <3>1 DEF Seen, Refresh
    <3>5. Leq(open[r].since, queue)
      BY <3>4 DEF HistoryInv, SeenBefore
    <3>. QED  BY <3>1, <3>2, <3>3, <3>5 DEF HistoryInv, AnsweredSince
  <2>3. ASSUME NEW r \in Refreshes, open' = [open EXCEPT ![r] = None] PROVE AnsweredSince'
    <3>1. \A q \in Refreshes : open'[q] = IF q = r THEN None ELSE open[q]
      BY <2>3 DEF BaseInv, DashboardTypeOK
    <3>. QED  BY <3>1 DEF HistoryInv, AnsweredSince
  <2>4. CASE Starts
    <3>1. PICK r \in Refreshes : open' = [open EXCEPT ![r] = NewRefresh]
      BY <2>4 DEF Starts
    <3>2. \A q \in Refreshes : open'[q] = IF q = r THEN NewRefresh ELSE open[q]
      BY <3>1 DEF BaseInv, DashboardTypeOK
    <3>3. \A f \in Fetches : NewRefresh.answers[f] = None
      BY DEF NewRefresh
    <3>. QED  BY <3>2, <3>3 DEF HistoryInv, AnsweredSince
  <2>. QED
    BY <2>1, <2>2, <2>3, <2>4
    DEF Next, vars, Submit, Complete, Shows, Fails, Frame, Ends, Interval, Asked, Toggle, Hide, Show
<1>. QED  BY <1>5, <1>6, <1>7 DEF HistoryInv

LEMMA HistoryInit == Init => HistoryInv
<1> SUFFICES ASSUME Init PROVE HistoryInv
  OBVIOUS
<1>1. queue \in Moment
  BY BaseInit DEF BaseInv, DashboardTypeOK
<1>2. \A r \in Refreshes : open[r] # None =>
        open[r].since = queue /\ \A f \in Fetches : open[r].answers[f] = None
  BY DEF Init, NewRefresh
<1>3. \A m \in Seen : m = queue
  BY <1>2, DashboardAssumption DEF Seen, Init
<1>4. Leq(queue, queue)
  BY <1>1, LeqReflexive
<1>5. Chain /\ SeenBefore
  BY <1>3, <1>4 DEF Chain, SeenBefore
<1>6. AnsweredSince
  BY <1>2 DEF AnsweredSince
<1>. QED  BY <1>5, <1>6 DEF HistoryInv

LEMMA AlwaysHistory == Spec => [](BaseInv /\ HistoryInv)
<1>1. Init => BaseInv /\ HistoryInv
  BY BaseInit, HistoryInit
<1>2. BaseInv /\ HistoryInv /\ [Next]_vars => (BaseInv /\ HistoryInv)'
  BY BaseStep, HistoryStep
<1>. QED  BY <1>1, <1>2, PTL DEF Spec

\* What a refresh shows is no older than the refresh, in the cards and in the table, with
\* any number of refreshes under way.
THEOREM NothingOlderIsShown == Spec => ShowsWhatWas
<1> DEFINE Now == \A r \in Refreshes :
                      open[r] # None /\ open'[r] = None /\ statusIndicator' = "green" =>
                          \A new \in {status', tasks'} : Time(new) >= Time(open[r].since)
<1>1. BaseInv /\ HistoryInv /\ [Next]_vars => [Now]_vars
  <2> SUFFICES ASSUME BaseInv, HistoryInv, Next,
                      NEW r \in Refreshes, open[r] # None, open'[r] = None,
                      statusIndicator' = "green",
                      NEW new \in {status', tasks'}
               PROVE  Time(new) >= Time(open[r].since)
    OBVIOUS
  <2> USE DEF pageVars, timerVars
  <2>1. Shows(r)
    <3>1. open' # open
      OBVIOUS
    <3>2. ASSUME NEW q \in Refreshes, NEW f \in Fetches, Answer(q, f) PROVE FALSE
      <4>1. open'[q] \in Refresh
        BY <3>2 DEF Answer, BaseInv, DashboardTypeOK, Refresh
      <4>2. open'[r] # None
        BY <3>2, <4>1, DashboardAssumption DEF Answer, BaseInv, DashboardTypeOK
      <4>. QED  BY <4>2
    <3>3. ASSUME NEW q \in Refreshes, Shows(q) PROVE Shows(r)
      <4>1. q = r
        BY <3>3 DEF Shows, BaseInv, DashboardTypeOK
      <4>. QED  BY <3>3, <4>1
    <3>4. ~ Starts
      <4>1. ASSUME NEW q \in Refreshes, open' = [open EXCEPT ![q] = NewRefresh] PROVE FALSE
        BY <4>1, FreshIsRefresh, DashboardAssumption DEF BaseInv, DashboardTypeOK
      <4>. QED  BY <4>1 DEF Starts
    <3>5. ASSUME NEW q \in Refreshes, Fails(q) PROVE FALSE
      BY <3>5 DEF Fails
    <3>. QED
      BY <3>1, <3>2, <3>3, <3>4, <3>5
      DEF Next, Submit, Complete, Frame, Ends, Interval, Asked, Toggle, Hide, Show
  <2>2. PICK f \in Fetches : new = open[r].answers[f]
    BY <2>1 DEF Shows, Fetches
  <2>3. open[r].since \in Moment /\ new \in Moment
    BY <2>1, <2>2, Answered DEF Shows, BaseInv, DashboardTypeOK, Refresh
  <2>4. Leq(open[r].since, new)
    BY <2>2, <2>3, DashboardAssumption DEF HistoryInv, AnsweredSince
  <2>5. Time(open[r].since) <= Time(new)
    BY <2>3, <2>4, LeqTime
  <2>6. Time(open[r].since) \in Int /\ Time(new) \in Int
    BY <2>3 DEF Moment, Time
  <2>. QED  BY <2>5, <2>6
<1>2. ShowsWhatWas <=> [][Now]_vars
  BY DEF ShowsWhatWas
<1>. QED  BY <1>1, <1>2, AlwaysHistory, PTL DEF Spec
-----------------------------------------------------------------------------
\* The chart and what the page shows.
ChartInv ==
    /\ status = None <=> lastCompletedCount = None
    /\ status = None <=> first = None
    /\ status = None => plotted = 0
    /\ status # None => lastCompletedCount = status.completed
    /\ PlottedOnce

\* As long as the page has not gone back, the next moment it shows has at least as many
\* completions.
LEMMA ShowsForward ==
    ASSUME BaseInv, HistoryInv, NEW r \in Refreshes, Shows(r), ~ wentBack', status # None
    PROVE  status'.completed >= status.completed
<1>1. status' \in Moment /\ status \in Moment
  BY Answered DEF Shows, Fetches, BaseInv, DashboardTypeOK
<1>2. status' \in Seen /\ status \in Seen
  BY <1>1 DEF Shows, Fetches, Seen
<1>3. ~ (Time(status') < Time(status))
  BY DEF Shows
<1>4. CASE Leq(status, status')
  BY <1>1, <1>4 DEF Moment, Leq
<1>5. CASE Leq(status', status)
  BY <1>1, <1>3, <1>5 DEF Moment, Leq, Time
<1>. QED  BY <1>2, <1>4, <1>5 DEF HistoryInv, Chain

LEMMA ChartStep == BaseInv /\ HistoryInv /\ ChartInv /\ [Next]_vars => ChartInv'
<1> SUFFICES ASSUME BaseInv, HistoryInv, ChartInv, [Next]_vars PROVE ChartInv'
  OBVIOUS
<1> USE DEF pageVars
<1>1. CASE UNCHANGED <<status, lastCompletedCount, first, plotted, wentBack>>
  BY <1>1 DEF ChartInv, PlottedOnce
<1>2. ASSUME NEW r \in Refreshes, Shows(r) PROVE ChartInv'
  <2>1. status' \in Moment /\ status'.completed \in 0..MaxTasks
    BY <1>2, Answered DEF Shows, Fetches, BaseInv, Moment
  <2>2. status' # None /\ status'.completed # None
    BY <2>1, DashboardAssumption
  <2>3. lastCompletedCount' = status'.completed
    BY <1>2 DEF Shows, updateCharts
  <2>4. CASE status = None
    <3>1. first' = status'.completed /\ plotted' = 0
      BY <1>2, <2>1, <2>4 DEF Shows, updateCharts, ChartInv
    <3>. QED  BY <2>1, <2>2, <2>3, <3>1 DEF ChartInv, PlottedOnce
  <2>5. CASE status # None
    <3>1. /\ lastCompletedCount = status.completed /\ lastCompletedCount # None
          /\ first # None
          /\ lastCompletedCount \in Int /\ first \in Int /\ plotted \in Int
      BY <2>5 DEF ChartInv, BaseInv, DashboardTypeOK
    <3>2. first' = first
      BY <1>2, <3>1 DEF Shows
    <3>3. plotted' = plotted + IF status'.completed > lastCompletedCount
                                 THEN status'.completed - lastCompletedCount ELSE 0
      BY <1>2, <3>1 DEF Shows, updateCharts
    <3>4. wentBack => wentBack'
      BY <1>2 DEF Shows
    <3>5. first + plotted >= lastCompletedCount
      BY <3>1 DEF ChartInv, PlottedOnce
    <3>6. first' + plotted' >= lastCompletedCount'
      BY <2>1, <2>3, <3>1, <3>2, <3>3, <3>5
    <3>7. ASSUME ~ wentBack' PROVE first' + plotted' = lastCompletedCount'
      <4>1. first + plotted = lastCompletedCount
        BY <3>1, <3>4, <3>7 DEF ChartInv, PlottedOnce
      <4>2. status'.completed >= lastCompletedCount
        BY <1>2, <2>5, <3>1, <3>7, ShowsForward
      <4>. QED  BY <2>1, <2>3, <3>1, <3>2, <3>3, <4>1, <4>2
    <3>. QED  BY <2>2, <2>3, <3>1, <3>2, <3>6, <3>7 DEF ChartInv, PlottedOnce
  <2>. QED  BY <2>4, <2>5
<1>. QED
  BY <1>1, <1>2
  DEF Next, vars, Submit, Complete, Answer, Fails, Frame, Ends, Interval, Asked, Toggle, Hide,
      Show

\* The chart has every completion since the first refresh exactly once, unless a refresh
\* was overtaken, and then at least once.
THEOREM CompletionsArePlotted == Spec => []PlottedOnce
<1>1. Init => ChartInv
  BY DashboardAssumption DEF Init, ChartInv, PlottedOnce
<1>2. ChartInv => PlottedOnce
  BY DEF ChartInv
<1>. QED  BY <1>1, <1>2, ChartStep, AlwaysHistory, PTL DEF Spec
-----------------------------------------------------------------------------
\* The youngest animation, which ends last, goes to the number of the last refresh.
LastGoesThere ==
    status # None /\ ~ passed =>
        IF anims = <<>> THEN card = status.pending
                        ELSE anims[Len(anims)].to = status.pending

LEMMA AnimStep == BaseInv /\ LastGoesThere /\ [Next]_vars => LastGoesThere'
<1> SUFFICES ASSUME BaseInv, LastGoesThere, [Next]_vars PROVE LastGoesThere'
  OBVIOUS
<1> DEFINE A == [from : 0..MaxTasks, to : 0..MaxTasks]
<1>0. anims \in Seq(A)
  BY DEF BaseInv, DashboardTypeOK
<1> HIDE DEF A
<1> USE DEF pageVars
<1>1. CASE UNCHANGED <<status, passed, anims, card>>
  BY <1>1 DEF LastGoesThere
<1>2. ASSUME NEW r \in Refreshes, Shows(r) PROVE LastGoesThere'
  <2>1. CASE card = status'.pending
    <3>1. anims' = anims /\ card' = card
      BY <1>2, <2>1 DEF Shows, animateValue
    <3>2. ~ passed' => anims = <<>>
      BY <1>2, <2>1 DEF Shows, animateValue
    <3>. QED  BY <2>1, <3>1, <3>2 DEF LastGoesThere
  <2>2. CASE card # status'.pending
    <3>1. anims' = Append(anims, [from |-> card, to |-> status'.pending])
      BY <1>2, <2>2 DEF Shows, animateValue
    <3>2. /\ Len(anims') = Len(anims) + 1
          /\ anims'[Len(anims')] = [from |-> card, to |-> status'.pending]
      BY <1>0, <3>1
    <3>3. anims' # <<>>
      BY <1>0, <3>2
    <3>. QED  BY <3>2, <3>3 DEF LastGoesThere
  <2>. QED  BY <2>1, <2>2
<1>3. ASSUME NEW i \in 1..Len(anims), Frame(i) PROVE LastGoesThere'
  <2>1. anims # <<>>
    BY <1>0
  <2>. QED  BY <1>3, <2>1 DEF Frame, LastGoesThere
<1>4. CASE Ends
  <2>1. anims # <<>> /\ card' = anims[1].to /\ anims' = Tail(anims)
    BY <1>0, <1>4 DEF Ends
  <2>2. Len(anims') = Len(anims) - 1 /\ Len(anims) \in Nat \ {0}
    BY <1>0, <2>1
  <2>3. CASE Len(anims) = 1
    <3>1. anims' = <<>>
      BY <1>0, <2>1, <2>3
    <3>. QED  BY <1>4, <2>1, <2>3, <3>1 DEF Ends, LastGoesThere
  <2>4. CASE Len(anims) # 1
    <3>1. \A j \in 1..(Len(anims) - 1) : anims'[j] = anims[j + 1]
      BY <1>0, <2>1
    <3>2. Len(anims) - 1 \in 1..(Len(anims) - 1)
      BY <2>2, <2>4
    <3>3. anims'[Len(anims')] = anims[Len(anims)]
      <4>1. anims'[Len(anims) - 1] = anims[Len(anims) - 1 + 1]
        BY <3>1, <3>2
      <4>. QED  BY <2>2, <4>1
    <3>4. anims' # <<>>
      <4>1. Len(anims') # 0
        BY <2>2, <2>4
      <4>. QED  BY <4>1
    <3>. QED  BY <1>4, <2>1, <3>3, <3>4 DEF Ends, LastGoesThere
  <2>. QED  BY <2>3, <2>4
<1>. QED
  BY <1>1, <1>2, <1>3, <1>4
  DEF Next, vars, Submit, Complete, Answer, Fails, Interval, Asked, Toggle, Hide, Show

\* When the animations are over the card has the number of the last refresh, however many
\* ran at a time, unless that refresh met an older one that was passing its number.
THEOREM CardsSettle == Spec => []CardSettles
<1>1. Init => LastGoesThere
  BY DEF Init, LastGoesThere
<1>2. LastGoesThere => CardSettles
  BY DEF LastGoesThere, CardSettles
<1>. QED  BY <1>1, <1>2, AnimStep, AlwaysBase, PTL DEF Spec
=============================================================================
