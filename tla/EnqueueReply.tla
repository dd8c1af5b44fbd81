---------------------------- MODULE EnqueueReply ---------------------------
(***************************************************************************)
(* The last statement of enqueue_task: the id it returns is read through a *)
(* pointer into the array after queue_mutex was released, while the other  *)
(* processes go on inserting and compacting.  Clients are the command line *)
(* helper, the web server and its simulation threads.                      *)
(***************************************************************************)
EXTENDS TaskQueue

CONSTANTS
    Clients,
    NoCell       \* a client that is not between unlock and return

VARIABLES
    cell,        \* the cell a client's pointer points to
    assigned,    \* the id the client's task received
    reply        \* the id enqueue_task returned to the client; 0: none yet

replyVars == <<vars, cell, assigned, reply>>

ReplyInit ==
    /\ Init
    /\ cell = [c \in Clients |-> NoCell]
    /\ assigned = [c \in Clients |-> 0]
    /\ reply = [c \in Clients |-> 0]

\* Up to the unlock: the task is in the array, the pointer still in use.
Insert(c, p) ==
    /\ cell[c] = NoCell
    /\ reply[c] = 0
    /\ EnqueueTask(p)
    /\ \E pos \in 0..size : /\ InsertPos(p, pos)
                            /\ cell' = [cell EXCEPT ![c] = pos]
    /\ assigned' = [assigned EXCEPT ![c] = next_task_id]
    /\ UNCHANGED reply

\* return task->id
Return(c) ==
    /\ cell[c] # NoCell
    /\ reply' = [reply EXCEPT ![c] = tasks[cell[c]].id]
    /\ cell' = [cell EXCEPT ![c] = NoCell]
    /\ UNCHANGED <<vars, assigned>>

ReplyNext ==
    \/ \E c \in Clients : Return(c) \/ \E p \in Priority : Insert(c, p)
    \/ /\ \/ DequeueTask
          \/ \E id \in executing : Complete(id)
          \/ RemoveCompletedTasks
          \/ Tick
       /\ UNCHANGED <<cell, assigned, reply>>

ReplySpec == ReplyInit /\ [][ReplyNext]_replyVars
-----------------------------------------------------------------------------
\* "Task added successfully. ID: %d": the id a client is told, and may cancel
\* the task by, is the id of the task it added.
ReplyIsOwnId == \A c \in Clients : reply[c] # 0 => reply[c] = assigned[c]
=============================================================================
