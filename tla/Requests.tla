------------------------------ MODULE Requests ------------------------------
(***************************************************************************)
(* The way of a request as the dialogs see it: a GET that the proxy has an  *)
(* answer of is called back at once, another task waits, the newest first,  *)
(* for the worker, which calls the server, calls the owner back and unlocks *)
(* it.  TaskCache and AsyncWorker model the proxy and the queue in detail.  *)
(*                                                                         *)
(* A task knows its owner by an address.  When the actor is destroyed first *)
(* the owner is "gone": what the worker does with it is anything, from      *)
(* nothing to the end of the program.                                       *)
(***************************************************************************)
EXTENDS Naturals, Sequences

CONSTANTS
    MaxClicks,      \* bound on what the user does
    NULL

ASSUME ClickAssumption == MaxClicks \in Nat

VARIABLES
    queue,      \* the tasks that wait, the next one first
    hand,       \* the task the worker is busy with, or NULL
    stored,     \* the proxy: of each request it knows, the answer
    server,     \* number of comments the server has of the application
    told,       \* history: that number when it last agreed to a POST
    paid,       \* history: the links the server sold, in order, and whether it was heard
    excused,    \* history: the answer of a POST was lost, or came to nobody
    clicks,
    ended       \* the program used memory it had freed

workVars == <<queue, hand>>
serverVars == <<stored, server, told, paid, excused>>

Clicks == ~ended /\ clicks < MaxClicks /\ clicks' = clicks + 1

Posts == {"comment", "reply"}

\* gnome_app_task_new: what is asked, of which item or folder, and for whom.
Ask(what, of, owner) == [what |-> what, of |-> of, owner |-> owner]
Key(task) == <<task.what, task.of>>

\* Mutant of Found: nobody looks in the proxy again.
FoundWhenPushed(task) == FALSE

\* async_func: is the answer of a GET in the proxy by now?
Found(task) == task.what \notin Posts /\ Key(task) \in DOMAIN stored

\* gnome_app_task_push, for a GET that is in the proxy or not.
Known(what, of) == <<what, of>> \in DOMAIN stored

(***************************************************************************)
(* Actors that are destroyed, and the tasks that are theirs.                *)
(***************************************************************************)

Orphan(task, dead) == IF task.owner \in dead THEN [task EXCEPT !.owner = "gone"] ELSE task

QueueAfter(asked, dead) == asked \o [i \in DOMAIN queue |-> Orphan(queue[i], dead)]

HandAfter(dead) == IF hand = NULL THEN NULL ELSE [hand EXCEPT !.task = Orphan(@, dead)]

Waits(what, owner) ==
    \E i \in DOMAIN queue : queue[i].what = what /\ queue[i].owner = owner
InHand(what, owner) == hand # NULL /\ hand.task.what = what /\ hand.task.owner = owner
Pending(what, owner) == Waits(what, owner) \/ InHand(what, owner)

(***************************************************************************)
(* The worker.                                                              *)
(***************************************************************************)

At(step) == hand # NULL /\ hand.step = step

\* The number of comments an answer tells; of no meaning to other requests.
Answered(ok, number) == [hand EXCEPT !.step = "callback", !.ok = ok, !.number = number]

\* thread_main_func and the first half of async_func.
WorkerTakes ==
    /\ hand = NULL /\ queue # <<>>
    /\ LET task == Head(queue) IN
       hand' = IF Found(task)
               THEN [task |-> task, step |-> "callback", ok |-> TRUE,
                     number |-> stored[Key(task)]]
               ELSE [task |-> task, step |-> "call", ok |-> FALSE, number |-> 0]
    /\ queue' = Tail(queue)
    /\ UNCHANGED <<serverVars, clicks, ended>>

\* A GET for a link buys it, whether or not the answer comes.
Sold(task, answered) ==
    IF task.what = "item" THEN Append(paid, [link |-> task.of, answered |-> answered]) ELSE paid

\* gnome_app_proxy_add, for a GET: the server answers; or it refuses, or nobody knows
\* what it did, and nothing is stored.
Get ==
    /\ At("call") /\ hand.task.what \notin Posts
    /\ \/ /\ hand' = Answered(TRUE, server)
          /\ stored' = [k \in DOMAIN stored \cup {Key(hand.task)} |->
                            IF k = Key(hand.task) THEN server ELSE stored[k]]
          /\ paid' = Sold(hand.task, TRUE)
       \/ /\ hand' = Answered(FALSE, 0)
          /\ paid' \in {paid, Sold(hand.task, FALSE)}
          /\ UNCHANGED stored
    /\ UNCHANGED <<queue, server, told, excused, clicks, ended>>

\* Mutant of Refreshed: the list of the comments stays in the proxy.
NotRefreshed == stored

\* should_be_proxy: a POST that adds a comment removes the list of the comments.
Refreshed == [k \in {j \in DOMAIN stored : j[1] # "comments"} |-> stored[k]]

\* The server agrees, or refuses, or nobody knows what it did.
Post ==
    /\ At("call") /\ hand.task.what \in Posts
    /\ \/ /\ hand' = Answered(TRUE, server + 1)
          /\ server' = server + 1 /\ told' = server + 1
          /\ stored' = Refreshed
          /\ UNCHANGED excused
       \/ /\ hand' = Answered(FALSE, 0)
          /\ \/ UNCHANGED <<server, excused>>
             \/ server' = server + 1 /\ excused' = TRUE
          /\ UNCHANGED <<told, stored>>
    /\ UNCHANGED <<queue, paid, clicks, ended>>

\* task_callback calls the owner back, which destroys dead and asks for more.
CalledBack(asked, dead) ==
    /\ queue' = QueueAfter(asked, dead)
    /\ hand' = [HandAfter(dead) EXCEPT !.step = "unlock"]

InitRequests ==
    /\ queue = <<>> /\ hand = NULL
    /\ stored = << >> /\ server = 1 /\ told = 1 /\ paid = <<>>
    /\ excused = FALSE /\ clicks = 0 /\ ended = FALSE
=============================================================================
