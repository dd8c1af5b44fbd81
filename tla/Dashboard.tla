----------------------------- MODULE Dashboard -----------------------------
(***************************************************************************)
(* The page of dashboard.js in one browser: the refreshes, several of      *)
(* which may be under way, each waiting for its fetches; the interval that *)
(* starts them, which follows the Auto button and the visibility of the    *)
(* tab; the number cards with their animations, and the throughput chart.  *)
(* The queue behind the server is the number of its waiting and of its     *)
(* completed tasks, and a moment of it is the pair of them.  The fetches   *)
(* of the workers differ in nothing from the two that are here.            *)
(***************************************************************************)
EXTENDS Integers, Sequences

CONSTANTS
    MaxTasks,     \* bound: how many tasks are submitted
    MaxOpen,      \* bound: how many refreshes are under way at a time
    MaxAnims,     \* bound: how many animations of one card run at a time
    None

Fetches == {"status", "tasks"}
Refreshes == 1..MaxOpen

Moment == [pending : 0..MaxTasks, completed : 0..MaxTasks]

\* How many submissions and completions came before the moment.
Time(m) == m.pending + 2 * m.completed

VARIABLES
    queue,              \* behind the server: the moment that it is
    open,               \* the refreshes under way, with the answers they have
    status, tasks,      \* the moments that the page shows, in its cards and in its table
    card,               \* the number in the card of the pending tasks
    anims,              \* its running animations, in the order of their start
    lastCompletedCount,
    statusIndicator,    \* its colour: red after a refresh that failed
    plotted,            \* the sum of the points of the throughput chart
    autoRefresh,
    refreshIntervalId,  \* is set (it is null otherwise)
    intervals,          \* how many intervals the browser runs
    hidden,             \* the tab is hidden
    \* history
    wentBack,           \* a refresh has taken the page to an earlier moment
    first,              \* the count of the first refresh shown
    passed,             \* the last refresh found its number in a card that was changing
    background          \* the page was opened in a hidden tab, and not looked at yet

pageVars == <<status, tasks, statusIndicator, card, anims, lastCompletedCount, plotted,
              wentBack, first, passed>>
timerVars == <<autoRefresh, refreshIntervalId, intervals, hidden, background>>
vars == <<queue, open, pageVars, timerVars>>

\* since: the moment of its start.
Refresh == [since : Moment, answers : [Fetches -> Moment \cup {None}]]

ASSUME DashboardAssumption ==
    /\ MaxTasks \in Nat
    /\ MaxOpen \in Nat \ {0}
    /\ MaxAnims \in Nat \ {0}
    /\ None \notin Nat \cup Moment \cup Refresh

NewRefresh == [since |-> queue, answers |-> [f \in Fetches |-> None]]

DashboardTypeOK ==
    /\ queue \in Moment
    /\ open \in [Refreshes -> Refresh \cup {None}]
    /\ status \in Moment \cup {None}
    /\ tasks \in Moment \cup {None}
    /\ card \in 0..MaxTasks
    /\ anims \in Seq([from : 0..MaxTasks, to : 0..MaxTasks])
    /\ Len(anims) <= MaxAnims
    /\ lastCompletedCount \in 0..MaxTasks \cup {None}
    /\ statusIndicator \in {"green", "red"}
    /\ plotted \in Nat
    /\ first \in 0..MaxTasks \cup {None}
    /\ intervals \in Nat
    /\ autoRefresh \in BOOLEAN /\ refreshIntervalId \in BOOLEAN
    /\ hidden \in BOOLEAN /\ background \in BOOLEAN
    /\ wentBack \in BOOLEAN /\ passed \in BOOLEAN

\* DOMContentLoaded: the interval is started and a refresh, whether the tab is visible
\* or was opened in the background.
Init ==
    /\ queue = [pending |-> 0, completed |-> 0]
    /\ open = [r \in Refreshes |-> IF r = 1 THEN NewRefresh ELSE None]
    /\ status = None
    /\ tasks = None
    /\ card = 0
    /\ anims = <<>>
    /\ lastCompletedCount = None
    /\ statusIndicator = "green"
    /\ plotted = 0
    /\ autoRefresh = TRUE
    /\ refreshIntervalId = TRUE
    /\ intervals = 1
    /\ hidden \in BOOLEAN
    /\ wentBack = FALSE
    /\ first = None
    /\ passed = FALSE
    /\ background = hidden
-----------------------------------------------------------------------------
(* The server.                                                             *)

Submit ==
    /\ queue.pending + queue.completed < MaxTasks
    /\ queue' = [queue EXCEPT !.pending = @ + 1]
    /\ UNCHANGED <<open, pageVars, timerVars>>

Complete ==
    /\ queue.pending > 0
    /\ queue' = [pending |-> queue.pending - 1, completed |-> queue.completed + 1]
    /\ UNCHANGED <<open, pageVars, timerVars>>

\* Wrong: the browser's cache answers when it can.
Answer_Cached(r, f) ==
    /\ open[r] # None /\ open[r].answers[f] = None
    /\ open' = [open EXCEPT ![r].answers[f] = IF status = None THEN queue ELSE status]
    /\ UNCHANGED <<queue, pageVars, timerVars>>

\* The server answers the fetches one by one, each with the moment that it is then.
Answer(r, f) ==
    /\ open[r] # None /\ open[r].answers[f] = None
    /\ open' = [open EXCEPT ![r].answers[f] = queue]
    /\ UNCHANGED <<queue, pageVars, timerVars>>
-----------------------------------------------------------------------------
(* updateDashboard.                                                        *)

\* The fetches of a refresh are sent.
Starts ==
    \E r \in Refreshes :
        /\ open[r] = None /\ \A q \in 1..(r - 1) : open[q] # None
        /\ open' = [open EXCEPT ![r] = NewRefresh]

\* Wrong: the count starts at zero, not at null.
updateCharts_FromZero(new) ==
    LET last == IF lastCompletedCount = None THEN 0 ELSE lastCompletedCount
        completedDiff == IF new.completed > last THEN new.completed - last ELSE 0
    IN  /\ plotted' = plotted + completedDiff
        /\ lastCompletedCount' = new.completed

\* Wrong: a count that went back is plotted as it is.
updateCharts_NoMax(new) ==
    /\ plotted' = IF lastCompletedCount = None THEN plotted
                  ELSE plotted + new.completed - lastCompletedCount
    /\ lastCompletedCount' = new.completed

\* The point that is added; the points that leave the chart stay in the sum.
updateCharts(new) ==
    LET last == IF lastCompletedCount = None THEN new.completed ELSE lastCompletedCount
        completedDiff == IF new.completed > last THEN new.completed - last ELSE 0
    IN  /\ plotted' = plotted + completedDiff
        /\ lastCompletedCount' = new.completed

\* Nothing is to be done when the card has the number; otherwise the animation starts
\* from what the card has, which another animation may be changing.
animateValue(new) ==
    /\ passed' = (card = new /\ anims # <<>>)
    /\ IF card = new THEN UNCHANGED anims
       ELSE /\ Len(anims) < MaxAnims
            /\ anims' = Append(anims, [from |-> card, to |-> new])
    /\ UNCHANGED card

\* All the answers are there.
Shows(r) ==
    /\ open[r] # None
    /\ None \notin {open[r].answers[f] : f \in Fetches}
    /\ status' = open[r].answers["status"]
    /\ tasks' = open[r].answers["tasks"]
    /\ animateValue(status'.pending)
    /\ updateCharts(status')
    /\ statusIndicator' = "green"
    /\ open' = [open EXCEPT ![r] = None]
    /\ wentBack' = (wentBack \/ (status # None /\ Time(status') < Time(status)))
    /\ first' = IF first = None THEN status'.completed ELSE first
    /\ UNCHANGED <<queue, timerVars>>

\* A fetch failed: Promise.all rejects, and the other answers count for nothing.
Fails(r) ==
    /\ open[r] # None
    /\ open' = [open EXCEPT ![r] = None]
    /\ statusIndicator' = "red"
    /\ UNCHANGED <<queue, status, tasks, card, anims, lastCompletedCount, plotted, wentBack,
                   first, passed, timerVars>>

\* One frame of the animation i, whose numbers lie between its ends.
Frame(i) ==
    LET a == anims[i]
    IN  /\ card' \in a.from..a.to \cup a.to..a.from
        /\ UNCHANGED <<queue, open, status, tasks, statusIndicator, anims,
                       lastCompletedCount, plotted, wentBack, first, passed, timerVars>>

\* Wrong: as if some animations took longer than others.
Ends_InAnyOrder ==
    /\ \E i \in 1..Len(anims) :
          /\ card' = anims[i].to
          /\ anims' = SubSeq(anims, 1, i - 1) \o SubSeq(anims, i + 1, Len(anims))
    /\ UNCHANGED <<queue, open, status, tasks, statusIndicator, lastCompletedCount, plotted,
                   wentBack, first, passed, timerVars>>

\* The last frame.  All animations take half a second: the oldest one ends first.
Ends ==
    /\ anims # <<>>
    /\ card' = Head(anims).to
    /\ anims' = Tail(anims)
    /\ UNCHANGED <<queue, open, status, tasks, statusIndicator, lastCompletedCount, plotted,
                   wentBack, first, passed, timerVars>>
-----------------------------------------------------------------------------
(* What starts a refresh.                                                  *)

\* Wrong: leaves the interval that runs.
startAutoRefresh_NoClear ==
    /\ refreshIntervalId' = TRUE
    /\ intervals' = intervals + 1

startAutoRefresh ==
    /\ refreshIntervalId' = TRUE
    /\ intervals' = IF refreshIntervalId THEN intervals ELSE intervals + 1

stopAutoRefresh ==
    /\ refreshIntervalId' = FALSE
    /\ intervals' = IF refreshIntervalId THEN intervals - 1 ELSE intervals

\* An interval comes round.
Interval ==
    /\ intervals > 0
    /\ autoRefresh
    /\ Starts
    /\ UNCHANGED <<queue, pageVars, timerVars>>

\* The Refresh button, a cancellation, or the half second after a submission.
Asked ==
    /\ Starts
    /\ UNCHANGED <<queue, pageVars, timerVars>>

\* The Auto button, which nobody can press in a hidden tab.
Toggle ==
    /\ ~ hidden
    /\ autoRefresh' = ~ autoRefresh
    /\ IF autoRefresh' THEN startAutoRefresh ELSE stopAutoRefresh
    /\ UNCHANGED <<queue, open, pageVars, hidden, background>>

\* visibilitychange.
Hide ==
    /\ ~ hidden
    /\ hidden' = TRUE
    /\ stopAutoRefresh
    /\ UNCHANGED <<queue, open, pageVars, autoRefresh, background>>

\* Wrong: refreshes once, and does not start the interval again.
Show_Once ==
    /\ hidden
    /\ hidden' = FALSE
    /\ background' = FALSE
    /\ IF autoRefresh THEN Starts ELSE UNCHANGED open
    /\ UNCHANGED <<queue, pageVars, autoRefresh, refreshIntervalId, intervals>>

Show ==
    /\ hidden
    /\ hidden' = FALSE
    /\ background' = FALSE
    /\ IF autoRefresh THEN startAutoRefresh /\ Starts
                      ELSE UNCHANGED <<refreshIntervalId, intervals, open>>
    /\ UNCHANGED <<queue, pageVars, autoRefresh>>
-----------------------------------------------------------------------------
Next ==
    \/ Submit \/ Complete
    \/ \E r \in Refreshes : (\E f \in Fetches : Answer(r, f)) \/ Shows(r) \/ Fails(r)
    \/ (\E i \in 1..Len(anims) : Frame(i)) \/ Ends
    \/ Interval \/ Asked \/ Toggle \/ Hide \/ Show

\* The server answers, the browser runs its callbacks, and the interval comes round.
Fairness ==
    /\ \A r \in Refreshes : WF_vars(Shows(r)) /\ \A f \in Fetches : WF_vars(Answer(r, f))
    /\ WF_vars(Ends)
    /\ WF_vars(Interval)

Spec == Init /\ [][Next]_vars /\ Fairness
-----------------------------------------------------------------------------
\* The page refreshes itself by one interval at most, which it can stop; it has one when
\* the Auto button is on and the tab is visible, and also, against the comment in the
\* code, in a tab that was opened in the background and never looked at.
OneTimer ==
    /\ intervals = IF autoRefresh /\ (~ hidden \/ background) THEN 1 ELSE 0
    /\ refreshIntervalId <=> intervals = 1

\* What a refresh shows is no older than the refresh, in the cards and in the table: only
\* a refresh that was started before the last one shown can take the page back.
ShowsWhatWas ==
    [][\A r \in Refreshes :
          open[r] # None /\ open'[r] = None /\ statusIndicator' = "green" =>
              \A new \in {status', tasks'} : Time(new) >= Time(open[r].since)]_vars

\* The throughput chart has every completion since the first refresh exactly once, unless
\* a refresh was overtaken by a later one, which the chart counts twice.
PlottedOnce ==
    lastCompletedCount # None =>
        IF wentBack THEN first + plotted >= lastCompletedCount
                    ELSE first + plotted = lastCompletedCount

\* When the animations are over the card has the number of the last refresh, unless
\* that refresh came while an older animation was passing its number.
CardSettles == anims = <<>> /\ status # None /\ ~ passed => card = status.pending

\* A completion comes to the page, as long as it is visible and refreshes itself, unless
\* it says with its red light that it could not.
EventuallyShown ==
    \A n \in 1..MaxTasks :
        queue.completed >= n ~>
            \/ lastCompletedCount # None /\ lastCompletedCount >= n
            \/ hidden \/ ~ autoRefresh \/ statusIndicator = "red"
=============================================================================
