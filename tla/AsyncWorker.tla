----------------------------- MODULE AsyncWorker -----------------------------
(***************************************************************************)
(* liboasyncworker: a list of tasks ordered by priority and at most one    *)
(* worker thread that takes them one by one.  The thread is created by the *)
(* o_async_worker_add that finds none and ends when the list is empty.     *)
(*                                                                         *)
(* G_LOCK(tasks) sections are single steps.  What the code does outside    *)
(* that lock is a step of its own: the store of the new thread's handle    *)
(* (l.553), the worker's last store (l.541), the flags it reads before it  *)
(* runs a function or a callback, the two reads of `thread' in join.       *)
(***************************************************************************)
EXTENDS Naturals, FiniteSets, SequencesExt

CONSTANTS
    Tasks,          \* OAsyncWorkerTask objects
    Threads,        \* GThread handles, reused once nothing refers to them
    Main,           \* the thread that runs the GMainLoop
    NULL,
    Priorities,     \* values of priority
    WithCallback,   \* the tasks with a callback
    Adders,         \* the tasks whose function or callback adds tasks
    Ops,            \* the calls of the API the client makes besides add
    MaxCalls        \* bound on set_priority, join and dispose calls

ASSUME ProcAssumption == Main \notin Threads /\ NULL \notin Threads \cup {Main}
ASSUME TaskAssumption == NULL \notin Tasks
ASSUME PriorityAssumption == Priorities \subseteq Nat
ASSUME ConfigAssumption ==
    /\ WithCallback \subseteq Tasks /\ Adders \subseteq Tasks
    /\ Ops \subseteq {"remove", "cancel", "priority", "join", "dispose"}
    /\ MaxCalls \in Nat

VARIABLES
    tasks,          \* OAsyncWorkerPrivate.tasks
    current,        \* .current
    thread,         \* .thread
    idseed,         \* .idseed
    lock,           \* who holds LOCK_OBJECT(queue), or NULL
    id,             \* OAsyncWorkerTaskPrivate.id
    priority,       \* .priority
    removed,        \* .removed
    cancelled,      \* .cancelled
    iwanttocancel,  \* .iwanttocancel
    imincallback,   \* .imincallback
    queue,          \* whether .queue is set
    pc,             \* where each thread is
    work,           \* the local `current' of thread_main_func
    handle,         \* the GThread* a caller is about to store or joins
    resume,         \* where a caller goes on when its call returns
    idle,           \* the GMainLoop's idle sources
    crashed,        \* a NULL or dangling pointer was used
    calls,          \* set_priority, join and dispose calls made
    runs, callbacks,\* history: times each function and callback was entered
    late            \* history: an unlocked store of `thread' came too late

queueVars == <<tasks, current, thread, idseed>>
flagVars == <<removed, cancelled, iwanttocancel, imincallback>>
taskVars == <<id, priority, queue>>
callVars == <<handle, resume, lock, calls>>
history == <<runs, callbacks, late>>
vars == <<queueVars, flagVars, taskVars, callVars, history, pc, work, idle, crashed>>

Procs == Threads \cup {Main}
Unadded == 0            \* stands for the id -2 of a task that was never added

Init ==
    /\ tasks = <<>> /\ current = NULL /\ thread = NULL /\ idseed = 0
    /\ lock = NULL
    /\ id = [t \in Tasks |-> Unadded]
    /\ priority \in [Tasks -> Priorities]
    /\ removed = [t \in Tasks |-> FALSE]
    /\ cancelled = [t \in Tasks |-> "NOT_CANCELLED"]
    /\ iwanttocancel = [t \in Tasks |-> FALSE]
    /\ imincallback = [t \in Tasks |-> FALSE]
    /\ queue = [t \in Tasks |-> FALSE]
    /\ pc = [p \in Procs |-> IF p = Main THEN "loop" ELSE "gone"]
    /\ work = [w \in Threads |-> NULL]
    /\ handle = [p \in Procs |-> NULL]
    /\ resume = [p \in Procs |-> "loop"]
    /\ idle = <<>>
    /\ crashed = FALSE
    /\ calls = 0
    /\ runs = [t \in Tasks |-> 0]
    /\ callbacks = [t \in Tasks |-> 0]
    /\ late = FALSE

Goto(p, label) == pc' = [pc EXCEPT ![p] = label]
Source(kind, t) == [kind |-> kind, task |-> t]
Post(source) == idle' = Append(idle, source)
Crash == crashed' = TRUE

(***************************************************************************)
(* The list.                                                               *)
(***************************************************************************)

\* Mutant of InsertsAt: g_list_append.
AppendsAt(t, k) == k = Len(tasks) + 1

\* g_list_insert_sorted with o_async_worker_list_sort_tasks: before the first
\* element whose priority is not greater.
InsertsAt(t, k) ==
    /\ \A i \in 1 .. k - 1 : priority[tasks[i]] > priority[t]
    /\ k <= Len(tasks) => priority[tasks[k]] <= priority[t]

\* Mutant of StableOrder: the comparison function the wrong way round.
AscendingOrder(p) ==
    \A i, j \in 1 .. Len(tasks) : i < j =>
        \/ priority[tasks[p[i]]] < priority[tasks[p[j]]]
        \/ priority[tasks[p[i]]] = priority[tasks[p[j]]] /\ p[i] < p[j]

\* g_list_sort is stable: p lists the old positions in the new order.
StableOrder(p) ==
    \A i, j \in 1 .. Len(tasks) : i < j =>
        \/ priority[tasks[p[i]]] > priority[tasks[p[j]]]
        \/ priority[tasks[p[i]]] = priority[tasks[p[j]]] /\ p[i] < p[j]

(***************************************************************************)
(* o_async_worker_add and o_async_worker_start.                            *)
(***************************************************************************)

\* Mutant of MustStart: a thread is started when no task is in hand.
MustStartIdle == current = NULL
MustStart == thread = NULL

\* Each call has a task of its own; those that wait for the lock have theirs.
TasksLeft ==
    Cardinality({t \in Tasks : id[t] = Unadded}) >
        Cardinality({w \in Threads : pc[w] = "adding"})

MayAdd(p) ==
    /\ TasksLeft
    /\ IF p = Main THEN pc[Main] = "loop"
                   ELSE pc[p] \in {"func", "callback"} /\ work[p] \in Adders

\* A worker's call finds LOCK_OBJECT(queue) taken and waits for it.
BlockOnAdd(w) ==
    /\ MayAdd(w) /\ lock # NULL
    /\ resume' = [resume EXCEPT ![w] = pc[w]]
    /\ Goto(w, "adding")
    /\ UNCHANGED <<queueVars, flagVars, taskVars, handle, lock, calls, history, work,
                   idle, crashed>>

\* The thread that was created last is not yet stored.
Unstored == \E q \in Procs : pc[q] = "store"

\* LOCK_OBJECT(queue) is held until the thread the call creates is stored;
\* restart_thread_idle_func does not take that lock, and the thread it creates
\* may run a task that adds another before its handle is there to be found.
Add(p, t) ==
    LET returnTo == IF pc[p] = "adding" THEN resume[p] ELSE pc[p] IN
    /\ MayAdd(p) \/ pc[p] = "adding"
    /\ lock = NULL /\ id[t] = Unadded
    /\ \E k \in 1 .. Len(tasks) + 1 :
          InsertsAt(t, k) /\ tasks' = InsertAt(tasks, k, t)
    /\ queue' = [queue EXCEPT ![t] = TRUE]
    /\ idseed' = idseed + 1
    /\ id' = [id EXCEPT ![t] = idseed + 1]
    /\ IF MustStart
       THEN /\ lock' = p
            /\ resume' = [resume EXCEPT ![p] = returnTo]
            /\ Goto(p, "create")
            /\ late' = (late \/ Unstored)
       ELSE /\ resume' = [resume EXCEPT ![p] = "loop"]
            /\ Goto(p, returnTo)
            /\ UNCHANGED <<lock, late>>
    /\ UNCHANGED <<current, thread, priority, flagVars, work, handle, calls,
                   idle, crashed, runs, callbacks>>

\* No field, and no call in progress, refers to the handle.
Fresh(w) == pc[w] = "gone" /\ thread # w /\ \A p \in Procs : handle[p] # w

CreateThread(p, w) ==
    /\ pc[p] = "create" /\ Fresh(w)
    /\ pc' = [pc EXCEPT ![p] = "store", ![w] = "pick"]
    /\ handle' = [handle EXCEPT ![p] = w]
    /\ UNCHANGED <<queueVars, flagVars, taskVars, resume, lock, calls, history,
                   work, idle, crashed>>

\* l.553: the thread may have run, and stored NULL for its end, by now.
StoreThread(p) ==
    /\ pc[p] = "store"
    /\ thread' = handle[p]
    /\ late' = (late \/ pc[handle[p]] \in {"trail", "gone"})
    /\ handle' = [handle EXCEPT ![p] = NULL]
    /\ lock' = IF lock = p THEN NULL ELSE lock
    /\ resume' = [resume EXCEPT ![p] = "loop"]
    /\ Goto(p, resume[p])
    /\ UNCHANGED <<tasks, current, idseed, flagVars, taskVars, calls, runs,
                   callbacks, work, idle, crashed>>

(***************************************************************************)
(* The other calls, made from the main thread.                             *)
(***************************************************************************)

MayCall(op) == op \in Ops /\ pc[Main] = "loop"

MayCallBounded(op) == MayCall(op) /\ calls < MaxCalls /\ calls' = calls + 1

\* The task's field is written before, and outside, the G_LOCK section that
\* sorts the list; a task outside any queue has nothing to sort.
SetPriority(t, value) ==
    /\ MayCallBounded("priority")
    /\ priority[t] # value
    /\ priority' = [priority EXCEPT ![t] = value]
    /\ Goto(Main, IF queue[t] THEN "sort" ELSE "loop")
    /\ UNCHANGED <<queueVars, flagVars, id, queue, handle, resume, lock, history,
                   work, idle, crashed>>

SortTasks ==
    /\ pc[Main] = "sort"
    /\ \E p \in [1 .. Len(tasks) -> 1 .. Len(tasks)] :
          /\ StableOrder(p)
          /\ tasks' = [i \in 1 .. Len(tasks) |-> tasks[p[i]]]
    /\ Goto(Main, "loop")
    /\ UNCHANGED <<current, thread, idseed, flagVars, taskVars, callVars, history,
                   work, idle, crashed>>

\* Mutant of CancelMark: the gboolean is stored in the gint.
CancelRaw(runCallback) == IF runCallback THEN "TRUE" ELSE "FALSE"
CancelMark(runCallback) == IF runCallback THEN "DO_CALLBACK" ELSE "NO_CALLBACK"

\* Mutant of Removable: the current task is removed like any other.
RemovableAnyTime(t) == t \in Range(tasks)

\* "Can't remove currently active task from the queue".
Removable(t) == t # current /\ t \in Range(tasks)

\* The task stays in the list; the worker skips its function when it gets there.
RemoveTask(t, runCallback) ==
    /\ MayCall("remove") /\ lock = NULL
    /\ current # NULL
    /\ Removable(t)
    /\ removed' = [removed EXCEPT ![t] = TRUE]
    /\ cancelled' = [cancelled EXCEPT ![t] = CancelMark(runCallback)]
    /\ UNCHANGED <<queueVars, taskVars, callVars, history, iwanttocancel,
                   imincallback, pc, work, idle, crashed>>

\* l.657 reads current->priv->id, whatever current is.
RemoveWithoutCurrent ==
    /\ MayCall("remove") /\ lock = NULL
    /\ current = NULL
    /\ Crash
    /\ UNCHANGED <<queueVars, flagVars, taskVars, callVars, history, pc, work, idle>>

RequestCancel(t) ==
    /\ MayCall("cancel")
    /\ ~iwanttocancel[t]
    /\ iwanttocancel' = [iwanttocancel EXCEPT ![t] = TRUE]
    /\ UNCHANGED <<queueVars, removed, cancelled, imincallback, taskVars, callVars,
                   history, pc, work, idle, crashed>>

Join ==
    /\ MayCallBounded("join")
    /\ Goto(Main, "join")
    /\ resume' = [resume EXCEPT ![Main] = "loop"]
    /\ UNCHANGED <<queueVars, flagVars, taskVars, handle, lock, history, work, idle,
                   crashed>>

\* The last unref: no call of the client follows.  LOCK_OBJECT(queue) is held
\* while the thread is joined.
Dispose ==
    /\ MayCallBounded("dispose") /\ lock = NULL
    /\ lock' = Main
    /\ Goto(Main, "join")
    /\ resume' = [resume EXCEPT ![Main] = "disposed"]
    /\ UNCHANGED <<queueVars, flagVars, taskVars, handle, history, work, idle, crashed>>

\* if (thread), then g_thread_join (thread): two reads.
JoinTest ==
    /\ pc[Main] = "join"
    /\ Goto(Main, IF thread = NULL THEN "joined" ELSE "joinread")
    /\ UNCHANGED <<queueVars, flagVars, taskVars, callVars, history, work, idle, crashed>>

\* g_thread_join (NULL) warns and returns.
JoinRead ==
    /\ pc[Main] = "joinread"
    /\ handle' = [handle EXCEPT ![Main] = thread]
    /\ Goto(Main, "joining")
    /\ UNCHANGED <<queueVars, flagVars, taskVars, resume, lock, calls, history, work,
                   idle, crashed>>

JoinWait ==
    /\ pc[Main] = "joining"
    /\ handle[Main] # NULL => pc[handle[Main]] = "gone"
    /\ handle' = [handle EXCEPT ![Main] = NULL]
    /\ thread' = NULL
    /\ Goto(Main, "joined")
    /\ UNCHANGED <<tasks, current, idseed, flagVars, taskVars, resume, lock, calls,
                   history, work, idle, crashed>>

\* What follows the join: the caller's next statement, the rest of dispose, or
\* the rest of restart_thread_idle_func.
JoinReturn ==
    /\ pc[Main] = "joined"
    /\ Goto(Main, resume[Main])
    /\ thread' = IF resume[Main] = "create" THEN NULL ELSE thread
    /\ current' = IF resume[Main] = "disposed" THEN NULL ELSE current
    /\ lock' = IF lock = Main THEN NULL ELSE lock
    /\ resume' = [resume EXCEPT ![Main] = "loop"]
    /\ UNCHANGED <<tasks, idseed, flagVars, taskVars, handle, calls, history, work,
                   idle, crashed>>

(***************************************************************************)
(* The main loop dispatches the oldest idle source.                        *)
(***************************************************************************)

Dispatch ==
    /\ pc[Main] = "loop" /\ idle # <<>>
    /\ idle' = Tail(idle)
    /\ IF Head(idle).kind = "restart"
       THEN /\ Goto(Main, "join")
            /\ resume' = [resume EXCEPT ![Main] = "create"]
       ELSE UNCHANGED <<pc, resume>>
    /\ UNCHANGED <<queueVars, flagVars, taskVars, handle, lock, calls, history, work,
                   crashed>>

(***************************************************************************)
(* thread_main_func.                                                       *)
(***************************************************************************)

Pick(w) ==
    /\ pc[w] = "pick"
    /\ IF tasks = <<>>
       THEN /\ Goto(w, "empty")
            /\ UNCHANGED <<current, work>>
       ELSE /\ Goto(w, "check")
            /\ current' = Head(tasks)
            /\ work' = [work EXCEPT ![w] = Head(tasks)]
    /\ UNCHANGED <<tasks, thread, idseed, flagVars, taskVars, callVars, history, idle,
                   crashed>>

StopEmpty(w) ==
    /\ pc[w] = "empty"
    /\ thread' = NULL
    /\ Goto(w, "trail")
    /\ UNCHANGED <<tasks, current, idseed, flagVars, taskVars, callVars, history, work,
                   idle, crashed>>

\* Mutant of Runnable: only a cancellation without callback skips the function.
RunnableUnlessDropped(t) == cancelled[t] # "NO_CALLBACK"
Runnable(t) == ~removed[t] /\ cancelled[t] = "NOT_CANCELLED"

\* The flags are read under no lock, ...
TestFunc(w) ==
    /\ pc[w] = "check" /\ Runnable(work[w])
    /\ Goto(w, "start")
    /\ UNCHANGED <<queueVars, flagVars, taskVars, callVars, history, work, idle, crashed>>

\* ... and the function is entered whatever has become of them.
StartFunc(w) ==
    /\ pc[w] = "start"
    /\ imincallback' = [imincallback EXCEPT ![work[w]] = FALSE]
    /\ Post(Source("started", work[w]))
    /\ runs' = [runs EXCEPT ![work[w]] = @ + 1]
    /\ Goto(w, "func")
    /\ UNCHANGED <<queueVars, removed, cancelled, iwanttocancel, taskVars, callVars,
                   callbacks, late, work, crashed>>

SkipFunc(w) ==
    /\ pc[w] = "check" /\ ~Runnable(work[w])
    /\ Goto(w, "after")
    /\ UNCHANGED <<queueVars, flagVars, taskVars, callVars, history, work, idle, crashed>>

FuncReturn(w) ==
    /\ pc[w] = "func"
    /\ Goto(w, "after")
    /\ UNCHANGED <<queueVars, flagVars, taskVars, callVars, history, work, idle, crashed>>

\* A cancellation point of the function, reached by the thread that runs it.
\* The thread exits and leaves current, thread and the list as they are.
CancelPoint(w, runCallback) ==
    /\ pc[w] = "func"
    /\ iwanttocancel[work[w]] /\ ~imincallback[work[w]]
    /\ queue[work[w]] /\ thread = w
    /\ cancelled' = [cancelled EXCEPT ![work[w]] = CancelMark(runCallback)]
    /\ Post(Source("restart", work[w]))
    /\ Goto(w, "gone")
    /\ work' = [work EXCEPT ![w] = NULL]
    /\ UNCHANGED <<queueVars, removed, iwanttocancel, imincallback, taskVars, callVars,
                   history, crashed>>

\* The other worker has finished the task: try_cancel gets a NULL queue.
CancelUnqueued(w) ==
    /\ pc[w] = "func"
    /\ iwanttocancel[work[w]] /\ ~imincallback[work[w]]
    /\ ~queue[work[w]]
    /\ Crash
    /\ UNCHANGED <<queueVars, flagVars, taskVars, callVars, history, pc, work, idle>>

CallbackWanted(t) == t \in WithCallback /\ cancelled[t] # "NO_CALLBACK"

TestCallback(w) ==
    /\ pc[w] = "after" /\ CallbackWanted(work[w])
    /\ Goto(w, "calling")
    /\ UNCHANGED <<queueVars, flagVars, taskVars, callVars, history, work, idle, crashed>>

EnterCallback(w) ==
    /\ pc[w] = "calling"
    /\ imincallback' = [imincallback EXCEPT ![work[w]] = TRUE]
    /\ callbacks' = [callbacks EXCEPT ![work[w]] = @ + 1]
    /\ Goto(w, "callback")
    /\ UNCHANGED <<queueVars, removed, cancelled, iwanttocancel, taskVars, callVars,
                   runs, late, work, idle, crashed>>

SkipCallback(w) ==
    /\ pc[w] = "after" /\ ~CallbackWanted(work[w])
    /\ Goto(w, "finish")
    /\ UNCHANGED <<queueVars, flagVars, taskVars, callVars, history, work, idle, crashed>>

CallbackReturn(w) ==
    /\ pc[w] = "callback"
    /\ Goto(w, "finish")
    /\ UNCHANGED <<queueVars, flagVars, taskVars, callVars, history, work, idle, crashed>>

\* Mutant of Drained: the length is tested before the link is deleted.
DrainedTooSoon(list) == Len(list) <= 1
Drained(list) == list = <<>>

\* g_list_delete_link, on the node found by the last Pick.
Finish(w) ==
    /\ pc[w] = "finish"
    /\ \E i \in 1 .. Len(tasks) :
          tasks[i] = work[w] /\ tasks' = RemoveAt(tasks, i)
    /\ current' = NULL
    /\ queue' = [queue EXCEPT ![work[w]] = FALSE]
    /\ IF Drained(tasks')
       THEN thread' = NULL /\ Goto(w, "trail")
       ELSE UNCHANGED thread /\ Goto(w, "pick")
    /\ Post(Source(IF removed[work[w]] THEN "donothing" ELSE "finished", work[w]))
    /\ work' = [work EXCEPT ![w] = NULL]
    /\ UNCHANGED <<idseed, flagVars, id, priority, callVars, history, crashed>>

\* Another worker has freed the node.
FinishTwice(w) ==
    /\ pc[w] = "finish" /\ work[w] \notin Range(tasks)
    /\ Crash
    /\ UNCHANGED <<queueVars, flagVars, taskVars, callVars, history, pc, work, idle>>

\* Mutant of Trail: the store is put under LOCK_OBJECT(queue).
TrailUnderLock(w) ==
    /\ pc[w] = "trail" /\ lock = NULL
    /\ thread' = NULL
    /\ late' = (late \/ thread # NULL)
    /\ Goto(w, "gone")
    /\ UNCHANGED <<tasks, current, idseed, flagVars, taskVars, callVars, runs,
                   callbacks, work, idle, crashed>>

\* l.541: the store after the loop, under no lock.  The handle of another thread
\* may be there by now.
Trail(w) ==
    /\ pc[w] = "trail"
    /\ thread' = NULL
    /\ late' = (late \/ thread # NULL)
    /\ Goto(w, "gone")
    /\ UNCHANGED <<tasks, current, idseed, flagVars, taskVars, callVars, runs,
                   callbacks, work, idle, crashed>>

(***************************************************************************)
(* The specification.                                                      *)
(***************************************************************************)

Client ==
    \/ \E t \in Tasks : Add(Main, t)
    \/ \E t \in Tasks, value \in Priorities : SetPriority(t, value)
    \/ \E t \in Tasks, runCallback \in BOOLEAN : RemoveTask(t, runCallback)
    \/ RemoveWithoutCurrent
    \/ \E t \in Tasks : RequestCancel(t)
    \/ Join
    \/ Dispose

\* The rest of a call the main thread is in, and the main loop.
MainStep ==
    \/ \E w \in Threads : CreateThread(Main, w)
    \/ StoreThread(Main)
    \/ SortTasks
    \/ JoinTest \/ JoinRead \/ JoinWait \/ JoinReturn
    \/ Dispatch

\* What a worker does without being asked; the calls a function or a callback
\* makes, and the cancellation points it passes, are its own choice.
Advance(w) ==
    \/ \E v \in Threads : CreateThread(w, v)
    \/ StoreThread(w)
    \/ pc[w] = "adding" /\ \E t \in Tasks : Add(w, t)
    \/ Pick(w) \/ StopEmpty(w)
    \/ TestFunc(w) \/ StartFunc(w) \/ SkipFunc(w) \/ FuncReturn(w)
    \/ TestCallback(w) \/ EnterCallback(w) \/ SkipCallback(w) \/ CallbackReturn(w)
    \/ Finish(w) \/ FinishTwice(w) \/ Trail(w)

Choice(w) ==
    \/ \E t \in Tasks : Add(w, t)
    \/ BlockOnAdd(w)
    \/ \E runCallback \in BOOLEAN : CancelPoint(w, runCallback)
    \/ CancelUnqueued(w)

Next ==
    /\ ~crashed
    /\ \/ Client
       \/ MainStep
       \/ \E w \in Threads : Advance(w) \/ Choice(w)

Spec == Init /\ [][Next]_vars

\* The scheduler runs every thread, functions and callbacks return, and the
\* main loop gets to its idle sources.  Nobody has to call anything.
FairSpec ==
    /\ Spec
    /\ WF_vars(~crashed /\ MainStep)
    /\ \A w \in Threads : WF_vars(~crashed /\ Advance(w))

(***************************************************************************)
(* Properties.                                                             *)
(***************************************************************************)

WorkerLabels == {"gone", "pick", "empty", "check", "start", "func", "after", "calling",
                 "callback", "adding", "finish", "trail"}
MainLabels == {"loop", "sort", "join", "joinread", "joining", "joined", "disposed",
               "create", "store"}
Labels == WorkerLabels \cup MainLabels

\* Type invariant.
TypeOK ==
    /\ tasks \in Seq(Tasks)
    /\ current \in Tasks \cup {NULL}
    /\ thread \in Threads \cup {NULL}
    /\ idseed \in Nat
    /\ lock \in Procs \cup {NULL}
    /\ id \in [Tasks -> Nat]
    /\ priority \in [Tasks -> Priorities]
    /\ removed \in [Tasks -> BOOLEAN]
    /\ cancelled \in [Tasks -> {"NOT_CANCELLED", "NO_CALLBACK", "DO_CALLBACK"}]
    /\ iwanttocancel \in [Tasks -> BOOLEAN]
    /\ imincallback \in [Tasks -> BOOLEAN]
    /\ queue \in [Tasks -> BOOLEAN]
    /\ pc \in [Procs -> Labels]
    /\ work \in [Threads -> Tasks \cup {NULL}]
    /\ handle \in [Procs -> Threads \cup {NULL}]
    /\ resume \in [Procs -> Labels]
    /\ idle \in Seq([kind : {"started", "finished", "donothing", "restart"},
                     task : Tasks])
    /\ crashed \in BOOLEAN
    /\ calls \in 0 .. MaxCalls
    /\ runs \in [Tasks -> Nat]
    /\ callbacks \in [Tasks -> Nat]
    /\ late \in BOOLEAN

\* A thread inside the loop of thread_main_func (not past it).
Working(w) == pc[w] \notin {"gone", "trail"}

\* o_async_worker_add starts a thread only when there is none, so that tasks
\* run one at a time: never are two threads inside the loop.  Two stores of the
\* handle are made under no lock, so the code does not promise that; but nothing
\* else breaks it, whatever is called, cancelled or restarted.
AtMostOneWorker ==
    late \/ \A v, w \in Threads : Working(v) /\ Working(w) => v = w

\* Why: only the main thread ever starts a thread, when there is no worker and
\* no handle; it holds on to the handle of a thread it has created and of one
\* it joins, and stores NULL only where nobody works.
LabelInv ==
    /\ pc[Main] \in MainLabels /\ resume[Main] \in {"loop", "disposed", "create"}
    /\ \A w \in Threads :
          /\ pc[w] \in WorkerLabels
          /\ pc[w] = "adding" => resume[w] \in {"func", "callback"}
          /\ handle[w] = NULL

HandleInv ==
    /\ \A w \in Threads : Working(w) =>
          thread = w \/ (pc[Main] = "store" /\ handle[Main] = w)
    /\ pc[Main] \in {"create", "store"} => thread = NULL /\ resume[Main] = "loop"
    /\ pc[Main] = "store" => handle[Main] \in Threads
    /\ pc[Main] = "joining" =>
          \A w \in Threads : Working(w) => handle[Main] = w
    /\ pc[Main] = "joined" => \A w \in Threads : ~Working(w)

OneWorkerInv == late \/ (LabelInv /\ HandleInv)

\* The list the worker takes its head from is ordered by priority (doc of
\* o_async_worker_task_set_priority, oasyncworkertask.c:476) and holds no task
\* twice, except between the two halves of set_priority.
ListOrdered ==
    /\ IsInjective(tasks)
    /\ pc[Main] # "sort" =>
          \A i, j \in 1 .. Len(tasks) :
              i < j => priority[tasks[i]] >= priority[tasks[j]]

\* Whatever is queued, cancelled, removed or restarted meanwhile, a function
\* is entered at most once and so is its callback; not once a second worker may
\* have been started.
RunsOnce == late \/ \A t \in Tasks : runs[t] <= 1 /\ callbacks[t] <= 1

\* A task taken off by o_async_worker_remove before it was run is never run,
\* and runs its callback only if the remover asked for it: the worker reads
\* both flags outside G_LOCK(tasks), after it has picked the task, and enters
\* the function and the callback later still.
RemovedNeverRuns ==
    [][late \/ \A t \in Tasks :
          /\ removed[t] => runs'[t] = runs[t]
          /\ removed[t] /\ cancelled[t] = "NO_CALLBACK" =>
                callbacks'[t] = callbacks[t]]_vars

Restarting ==
    \/ \E i \in 1 .. Len(idle) : idle[i].kind = "restart"
    \/ resume[Main] = "create"

\* Tasks in the list are somebody's: a worker that will look at the list
\* again, a thread about to be started, or a restart after a cancellation.
NoStrandedTask ==
    ~late /\ tasks # <<>> =>
        \/ \E w \in Threads : Working(w) /\ pc[w] # "empty"
        \/ \E p \in Procs : pc[p] \in {"create", "store"}
        \/ Restarting

\* "Blocks queue until all tasks are finished" (oasyncworker.c:880).
JoinWaitsForAll == pc[Main] = "joined" /\ resume[Main] = "loop" => tasks = <<>>

\* That is so unless one of the unlocked stores came too late.
JoinWaitsUnlessLate == late \/ JoinWaitsForAll

\* The promise of the queue: tasks run one at a time, the highest priority
\* first, and every one of them is run and finished.  (Without cancellation.)
\* It is broken when, and only when, an unlocked store came too late.
Serial == INSTANCE SerialQueue WITH
    waiting <- Range(tasks) \ {current},
    running <- current,
    done <- {t \in Tasks : id[t] # Unadded} \ Range(tasks),
    broken <- late

RefinesSerialQueue == Serial!FairSpec

Disposing ==
    \/ pc[Main] = "disposed"
    \/ lock = Main /\ resume[Main] = "disposed"

\* Every task that is added leaves the list in the end, unless the client
\* disposes of the queue, or has ended the program with a remove, or a store of
\* the handle came too late.
AddedIsFinished ==
    \A t \in Tasks :
        id[t] # Unadded ~>
            (id[t] # Unadded /\ t \notin Range(tasks)) \/ Disposing \/ crashed \/ late

\* o_async_worker_dispose, which joins the thread while it holds the queue's
\* lock, comes to an end unless a task meanwhile tries to add another, or a store of the
\* handle came too late: nothing else the worker does waits for that lock.
DisposeReturns ==
    Disposing ~>
        (pc[Main] = "disposed" \/ late \/ \E w \in Threads : pc[w] = "adding")

=============================================================================
