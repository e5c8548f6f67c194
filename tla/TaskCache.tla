------------------------------ MODULE TaskCache ------------------------------
(***************************************************************************)
(* lib/gnome-app-task.c and lib/gnome-app-proxy.c: a request is answered    *)
(* from the proxy's table, from a file of an earlier answer (DEVEL_MODE) or *)
(* by the server, through the task queue (SerialQueue, which AsyncWorker    *)
(* implements).  A POST that succeeds refreshes what it made stale.         *)
(*                                                                         *)
(* The main thread's gnome_app_task_push and the worker's async_func share  *)
(* the table and the files and hold no lock: each look, read, call, store   *)
(* and callback is a step.  An OpenResults object is named by the task that *)
(* made it; every task makes at most one.                                   *)
(***************************************************************************)
EXTENDS Naturals, Sequences, FiniteSets

CONSTANTS
    Requests,       \* GETs: records of type, content and page
    Posts,          \* POSTs: records of type and content
    NoPage,         \* the page of a request that has no such parameter
    MaxTasks,       \* bound on the tasks made
    DevelMode,      \* whether DEVEL_MODE is defined
    Main, Worker, NULL

GetTypes == {"CONTENT_GET", "FAN_GET", "FAN_IS_FAN", "COMMENTS_GET"}
PostTypes == {"FAN_ADD", "FAN_REMOVE", "COMMENTS_ADD", "OTHER"}
Procs == {Main, Worker}
TaskIds == 1 .. MaxTasks

ASSUME RequestAssumption ==
    \A r \in Requests : /\ r.type \in GetTypes /\ r.page \in Nat \cup {NoPage}
                        /\ r = [type |-> r.type, content |-> r.content, page |-> r.page]
ASSUME PostAssumption == \A q \in Posts : q.type \in PostTypes
ASSUME BoundAssumption == MaxTasks \in Nat /\ NULL \notin TaskIds \cup Procs \cup Nat
ASSUME PageAssumption == NoPage \notin Nat
ASSUME ProcAssumption == Main # Worker
ASSUME ModeAssumption == DevelMode \in BOOLEAN

VARIABLES
    made,           \* the GnomeAppTask objects, in the order of their making
    waiting, running, done,     \* the task queue
    cache,          \* GnomeAppProxyPrivate.cache: whose results each request has
    disk,           \* version of the answer in the request's file, or NULL
    saved,          \* history: the files this process has written
    refs,           \* reference count of each task's results
    value,          \* what a task's results say: a version, and where it is from
    server,         \* the version of each function's answer at the server
    floor,          \* history: that version when a refresh last took it into account
    pc,             \* where each thread is
    pushed,         \* the task gnome_app_task_push is about
    held,           \* the results find has returned to it
    answer,         \* results of async_func
    cont,           \* where the worker goes on after a push
    calls,          \* history: callbacks of each task
    crashed         \* freed or foreign memory was used

queueVars == <<waiting, running, done>>
storeVars == <<cache, disk, saved>>
resultVars == <<refs, value>>
serverVars == <<server, floor>>
localVars == <<pushed, held, answer, cont>>
vars == <<made, queueVars, storeVars, resultVars, serverVars, localVars, pc, calls,
          crashed>>

PREDICT == 20
PRELOAD == 30
NORMAL == 40

Function(r) == [type |-> r.type, content |-> r.content]
Functions == {Function(r) : r \in Requests}

\* The functions whose answers a POST changes at the server.
Affected(post) ==
    CASE post.type \in {"FAN_ADD", "FAN_REMOVE"} ->
            {f \in Functions : f.content = post.content
                               /\ f.type \in {"CONTENT_GET", "FAN_GET", "FAN_IS_FAN"}}
      [] post.type = "COMMENTS_ADD" ->
            {f \in Functions : f.content = post.content
                               /\ f.type \in {"CONTENT_GET", "COMMENTS_GET"}}
      [] OTHER -> {}

\* strstr (function, "fan")
IsFan(r) == r.type \in {"FAN_GET", "FAN_IS_FAN"}

Method(t) == made[t].method
Request(t) == made[t].request

\* The queue of the store, before any of its promises is broken.
Queue == INSTANCE SerialQueue WITH
    Tasks <- TaskIds,
    broken <- FALSE,
    priority <- [t \in TaskIds |-> IF t <= Len(made) THEN made[t].priority ELSE 0]

Init ==
    /\ made = <<>>
    /\ waiting = {} /\ running = NULL /\ done = {}
    /\ cache = [r \in Requests |-> NULL]
    /\ \E old \in SUBSET {r \in Requests : DevelMode /\ ~IsFan(r)} :
          disk = [r \in Requests |-> IF r \in old THEN 0 ELSE NULL]
    /\ saved = {}
    /\ refs = [t \in TaskIds |-> 0]
    /\ value = [t \in TaskIds |-> NULL]
    /\ server = [f \in Functions |-> 0]
    /\ floor = [f \in Functions |-> 0]
    /\ pc = [p \in Procs |-> "idle"]
    /\ pushed = [p \in Procs |-> NULL]
    /\ held = [p \in Procs |-> NULL]
    /\ answer = NULL
    /\ cont = "idle"
    /\ calls = [t \in TaskIds |-> 0]
    /\ crashed = FALSE

Goto(p, label) == pc' = [pc EXCEPT ![p] = label]
Crash == crashed' = TRUE

(***************************************************************************)
(* The proxy.                                                              *)
(***************************************************************************)

NextPage(r) ==
    IF r.page # NoPage /\ [r EXCEPT !.page = @ + 1] \in Requests
    THEN [r EXCEPT !.page = @ + 1] ELSE NULL

\* next_page_predict makes and pushes a task without callback, and the thread
\* goes on at label when that push is over.
Predict(p, r) ==
    /\ NextPage(r) # NULL /\ Len(made) < MaxTasks
    /\ made' = Append(made, [method |-> "GET", request |-> NextPage(r),
                             priority |-> PREDICT, callback |-> FALSE])
    /\ pushed' = [pushed EXCEPT ![p] = Len(made) + 1]
    /\ Goto(p, "find")

PredictsNothing(p, r, label) ==
    /\ NextPage(r) = NULL \/ Len(made) = MaxTasks
    /\ Goto(p, label)
    /\ UNCHANGED <<made, pushed>>

\* gnome_app_task_get_priority returns nothing: what proxy_add compares with
\* NORMAL is any value.
PredictOrNot(p, r, label) ==
    \/ Predict(p, r)
    \/ Goto(p, label) /\ UNCHANGED <<made, pushed>>

\* Mutant of ProxyAdd: proxy_data_new takes no reference to the results.
ProxyAddUnreferenced(t) ==
    LET old == cache[Request(t)] IN
    /\ cache' = [cache EXCEPT ![Request(t)] = t]
    /\ refs' = IF old = NULL THEN refs ELSE [refs EXCEPT ![old] = @ - 1]

\* g_hash_table_replace frees the data that was there.
ProxyAdd(t) ==
    LET old == cache[Request(t)] IN
    /\ cache' = [cache EXCEPT ![Request(t)] = t]
    /\ refs' = [u \in TaskIds |-> CASE u = t -> refs[u] + 1
                                    [] u = old -> refs[u] - 1
                                    [] OTHER -> refs[u]]

\* Mutant of refresh_array: a comment does not refresh the page of its content.
RefreshArrayShort(type) ==
    CASE type \in {"FAN_ADD", "FAN_REMOVE"} -> {"CONTENT_GET", "FAN_GET", "FAN_IS_FAN"}
      [] type = "COMMENTS_ADD" -> {"COMMENTS_GET"}
refresh_array(type) ==
    CASE type \in {"FAN_ADD", "FAN_REMOVE"} -> {"CONTENT_GET", "FAN_GET", "FAN_IS_FAN"}
      [] type = "COMMENTS_ADD" -> {"CONTENT_GET", "COMMENTS_GET"}

\* Mutant of Refreshed: only the requested page's own entry.
RefreshedFirstPage(post) ==
    {r \in Requests : /\ cache[r] # NULL /\ r.page \in {0, NoPage}
                      /\ r.type \in refresh_array(post.type)
                      /\ r.content = post.content}

\* The entries refresh_by_function removes: all pages of the functions.
Refreshed(post) ==
    {r \in Requests : /\ cache[r] # NULL
                      /\ r.type \in refresh_array(post.type)
                      /\ r.content = post.content}

\* Mutant of Unlinked: the files are left alone.
UnlinkedNone(entries) == {}
Unlinked(entries) == IF DevelMode THEN entries ELSE {}

(***************************************************************************)
(* gnome_app_task_push, by either thread.                                  *)
(***************************************************************************)

PushReturns(p) == Goto(p, IF p = Main THEN "idle" ELSE cont)

AfterHit(p) == PushReturns(p)

CallBack(t) == calls' = IF made[t].callback THEN [calls EXCEPT ![t] = @ + 1] ELSE calls

Find(p) ==
    LET r == Request(pushed[p]) IN
    /\ pc[p] = "find"
    /\ held' = [held EXCEPT ![p] = cache[r]]
    /\ Goto(p, CASE cache[r] # NULL -> "use"
                 [] cache[r] = NULL /\ DevelMode /\ ~IsFan(r) -> "disk"
                 [] OTHER -> "out")
    /\ UNCHANGED <<made, queueVars, storeVars, resultVars, serverVars, pushed, answer,
                   cont, calls, crashed>>

\* The results are passed on without a reference.
UseHit(p) ==
    LET t == pushed[p] IN
    /\ pc[p] = "use"
    /\ made[t].callback => refs[held[p]] > 0
    /\ CallBack(t)
    /\ AfterHit(p)
    /\ held' = [held EXCEPT ![p] = NULL]
    /\ UNCHANGED <<made, queueVars, storeVars, resultVars, serverVars, pushed, answer,
                   cont, crashed>>

\* Meanwhile the other thread has taken them out of the table.
UseFreed(p) ==
    /\ pc[p] = "use" /\ made[pushed[p]].callback /\ refs[held[p]] = 0
    /\ Crash
    /\ UNCHANGED <<made, queueVars, storeVars, resultVars, serverVars, localVars, pc,
                   calls>>

ReadDisk(p) ==
    LET t == pushed[p] IN
    /\ pc[p] = "disk"
    /\ IF disk[Request(t)] = NULL
       THEN Goto(p, "out") /\ UNCHANGED resultVars
       ELSE /\ Goto(p, "loaded")
            /\ refs' = [refs EXCEPT ![t] = 1]
            /\ value' = [value EXCEPT ![t] = [version |-> disk[Request(t)],
                                              from |-> "file"]]
    /\ UNCHANGED <<made, queueVars, storeVars, serverVars, localVars, calls, crashed>>

UseLoaded(p) ==
    /\ pc[p] = "loaded"
    /\ CallBack(pushed[p])
    /\ Goto(p, "add")
    /\ UNCHANGED <<made, queueVars, storeVars, resultVars, serverVars, localVars,
                   crashed>>

AddLoaded(p) ==
    LET t == pushed[p] IN
    /\ pc[p] = "add"
    /\ ProxyAdd(t)
    /\ PredictOrNot(p, Request(t), IF p = Main THEN "idle" ELSE cont)
    /\ UNCHANGED <<queueVars, disk, saved, value, serverVars, held, answer, cont, calls,
                   crashed>>

PushOut(p) ==
    /\ pc[p] = "out"
    /\ PushReturns(p)
    /\ UNCHANGED <<made, storeVars, resultVars, serverVars, localVars, calls, crashed>>
    /\ Queue!Submit(pushed[p])

(***************************************************************************)
(* The main thread's callers.                                              *)
(***************************************************************************)

Push(task) ==
    /\ pc[Main] = "idle" /\ Len(made) < MaxTasks
    /\ made' = Append(made, task)
    /\ pushed' = [pushed EXCEPT ![Main] = Len(made) + 1]
    /\ Goto(Main, IF task.method = "GET" THEN "find" ELSE "out")
    /\ UNCHANGED <<queueVars, storeVars, resultVars, serverVars, held, answer, cont,
                   calls, crashed>>

\* A page asks for what it shows.
Get(r) == Push([method |-> "GET", request |-> r, priority |-> NORMAL, callback |-> TRUE])

\* setup_category loads the first page of each category.
Preload(r) ==
    Push([method |-> "GET", request |-> r, priority |-> PRELOAD, callback |-> FALSE])

Post(q) == Push([method |-> "POST", request |-> q, priority |-> NORMAL, callback |-> TRUE])

(***************************************************************************)
(* The worker: async_func and task_callback.                               *)
(***************************************************************************)

Take ==
    /\ pc[Worker] = "idle"
    /\ Goto(Worker, "func")
    /\ UNCHANGED <<made, storeVars, resultVars, serverVars, localVars, calls, crashed>>
    /\ \E t \in TaskIds : Queue!Begin(t)

FuncFinds ==
    LET r == Request(running) IN
    /\ pc[Worker] = "func" /\ Method(running) = "GET" /\ cache[r] # NULL
    /\ answer' = cache[r]
    /\ cont' = "ref"
    /\ Predict(Worker, r) \/ PredictsNothing(Worker, r, "ref")
    /\ UNCHANGED <<queueVars, storeVars, resultVars, serverVars, held, calls, crashed>>

FuncMisses ==
    /\ pc[Worker] = "func"
    /\ Method(running) = "GET" => cache[Request(running)] = NULL
    /\ Goto(Worker, "call")
    /\ UNCHANGED <<made, queueVars, storeVars, resultVars, serverVars, localVars, calls,
                   crashed>>

\* Mutant of HitReference: async_func returns what find gave it.
HitReferenceNone(count) == count
HitReference(count) == count + 1

Ref ==
    /\ pc[Worker] = "ref" /\ refs[answer] > 0
    /\ refs' = [refs EXCEPT ![answer] = HitReference(@)]
    /\ Goto(Worker, "callback")
    /\ UNCHANGED <<made, queueVars, storeVars, value, serverVars, localVars, calls,
                   crashed>>

RefFreed ==
    /\ pc[Worker] = "ref" /\ refs[answer] = 0
    /\ Crash
    /\ UNCHANGED <<made, queueVars, storeVars, resultVars, serverVars, localVars, pc,
                   calls>>

\* The server carries the request out.
Applied ==
    server' = IF Method(running) = "GET" THEN server
              ELSE [f \in Functions |->
                       IF f \in Affected(Request(running)) THEN server[f] + 1 ELSE server[f]]

\* No answer, or one that is no ocs document; the request may have been
\* carried out.
CallFails ==
    /\ pc[Worker] = "call"
    /\ Applied \/ UNCHANGED server
    /\ answer' = NULL
    /\ Goto(Worker, "callback")
    /\ UNCHANGED <<made, queueVars, storeVars, resultVars, floor, pushed, held, cont,
                   calls, crashed>>

NewResults(version) ==
    /\ answer' = running
    /\ refs' = [refs EXCEPT ![running] = 1]
    /\ value' = [value EXCEPT ![running] = [version |-> version, from |-> "net"]]

\* A statuscode that is not 100: neither stored nor saved.
CallRefused ==
    /\ pc[Worker] = "call"
    /\ NewResults(NULL)
    /\ Goto(Worker, "callback")
    /\ UNCHANGED <<made, queueVars, storeVars, serverVars, pushed, held, cont, calls,
                   crashed>>

CallAnswered ==
    /\ pc[Worker] = "call"
    /\ Applied
    /\ NewResults(IF Method(running) = "GET" THEN server[Function(Request(running))]
                                             ELSE NULL)
    /\ Goto(Worker, "proxyadd")
    /\ UNCHANGED <<made, queueVars, storeVars, floor, pushed, held, cont, calls,
                   crashed>>

AddAnswer ==
    /\ pc[Worker] = "proxyadd" /\ Method(running) = "GET"
    /\ ProxyAdd(running)
    /\ cont' = "save"
    /\ PredictOrNot(Worker, Request(running), "save")
    /\ UNCHANGED <<queueVars, disk, saved, value, serverVars, held, answer, calls,
                   crashed>>

\* (The file async_func writes of a POST's results is never read.)
Refresh ==
    LET post == Request(running) IN
    /\ pc[Worker] = "proxyadd" /\ Method(running) = "POST" /\ post.type # "OTHER"
    /\ LET entries == Refreshed(post)  files == Unlinked(entries) IN
          /\ cache' = [r \in Requests |-> IF r \in entries THEN NULL ELSE cache[r]]
          /\ refs' = [t \in TaskIds |->
                        IF \E r \in entries : cache[r] = t THEN refs[t] - 1 ELSE refs[t]]
          /\ disk' = [r \in Requests |-> IF r \in files THEN NULL ELSE disk[r]]
          /\ saved' = saved \ files
    /\ floor' = [f \in Functions |-> IF f \in Affected(post) THEN server[f] ELSE floor[f]]
    /\ Goto(Worker, "callback")
    /\ UNCHANGED <<made, queueVars, value, server, localVars, calls, crashed>>

\* A function with none of the prefixes leaves `type' unset: the row of
\* refresh_array read is any, in the array or not.  No row refreshes an entry.
RefreshUnknown ==
    /\ pc[Worker] = "proxyadd" /\ Method(running) = "POST"
    /\ Request(running).type = "OTHER"
    /\ \/ Goto(Worker, "callback") /\ UNCHANGED crashed
       \/ Crash /\ UNCHANGED pc
    /\ UNCHANGED <<made, queueVars, storeVars, resultVars, serverVars, localVars, calls>>

Save ==
    LET r == Request(running) IN
    /\ pc[Worker] = "save"
    /\ IF DevelMode /\ ~IsFan(r)
       THEN /\ disk' = [disk EXCEPT ![r] = value[running].version]
            /\ saved' = saved \cup {r}
       ELSE UNCHANGED <<disk, saved>>
    /\ Goto(Worker, "callback")
    /\ UNCHANGED <<made, queueVars, cache, resultVars, serverVars, localVars, calls,
                   crashed>>

\* Mutant of Report: no callback without results.
ReportResults(t) == IF answer = NULL THEN UNCHANGED calls ELSE CallBack(t)
Report(t) == CallBack(t)

\* A task without callback has no task_callback: its results stay referenced.
TaskCallback ==
    /\ pc[Worker] = "callback"
    /\ Report(running)
    /\ refs' = IF answer # NULL /\ made[running].callback
               THEN [refs EXCEPT ![answer] = @ - 1] ELSE refs
    /\ answer' = NULL
    /\ Goto(Worker, "idle")
    /\ UNCHANGED <<made, storeVars, value, serverVars, pushed, held, cont, crashed>>
    /\ Queue!End

Client ==
    \/ \E r \in Requests : Get(r)
    \/ \E r \in Requests : Preload(r)
    \/ \E q \in Posts : Post(q)

PushStep(p) ==
    \/ Find(p) \/ UseHit(p) \/ UseFreed(p)
    \/ ReadDisk(p) \/ UseLoaded(p) \/ AddLoaded(p) \/ PushOut(p)

WorkerStep ==
    \/ Take \/ FuncFinds \/ FuncMisses \/ Ref \/ RefFreed
    \/ CallFails \/ CallRefused \/ CallAnswered
    \/ AddAnswer \/ Refresh \/ RefreshUnknown \/ Save \/ TaskCallback

Next == ~crashed /\ (Client \/ PushStep(Main) \/ PushStep(Worker) \/ WorkerStep)

Spec == Init /\ [][Next]_vars

\* Calls return; the queue serves its tasks (AddedIsFinished in AsyncWorker).
FairSpec ==
    /\ Spec
    /\ WF_vars(~crashed /\ PushStep(Main))
    /\ WF_vars(~crashed /\ (PushStep(Worker) \/ WorkerStep))

(***************************************************************************)
(* Properties.                                                             *)
(***************************************************************************)

Tasks == [method : {"GET"}, request : Requests, priority : {PREDICT, PRELOAD, NORMAL},
          callback : BOOLEAN]
         \cup [method : {"POST"}, request : Posts, priority : {NORMAL}, callback : {TRUE}]

PushLabels == {"find", "use", "disk", "loaded", "add", "out"}
Labels == PushLabels \cup {"idle", "func", "ref", "call", "proxyadd", "save", "callback"}

\* Type invariant.
TypeOK ==
    /\ made \in Seq(Tasks) /\ Len(made) <= MaxTasks
    /\ waiting \subseteq TaskIds /\ running \in TaskIds \cup {NULL} /\ done \subseteq TaskIds
    /\ cache \in [Requests -> TaskIds \cup {NULL}]
    /\ disk \in [Requests -> Nat \cup {NULL}]
    /\ saved \subseteq Requests
    /\ refs \in [TaskIds -> Nat]
    /\ value \in [TaskIds -> [version : Nat \cup {NULL}, from : {"net", "file"}] \cup {NULL}]
    /\ server \in [Functions -> Nat] /\ floor \in [Functions -> Nat]
    /\ pc \in [Procs -> Labels]
    /\ pushed \in [Procs -> TaskIds \cup {NULL}]
    /\ held \in [Procs -> TaskIds \cup {NULL}]
    /\ answer \in TaskIds \cup {NULL}
    /\ cont \in {"idle", "ref", "save"}
    /\ calls \in [TaskIds -> Nat]
    /\ crashed \in BOOLEAN

\* "If we POST, refresh the relevant cached data" (gnome-app-proxy.c:249): an
\* answer the table gives out is not older than the last refresh of it.
PostRefreshesCache ==
    \A r \in Requests :
        cache[r] # NULL => value[cache[r]].version >= floor[Function(r)]

\* That much holds of the answers the worker got from the server.
FetchedIsFresh ==
    \A r \in Requests :
        cache[r] # NULL /\ value[cache[r]].from = "net" =>
            value[cache[r]].version >= floor[Function(r)]

\* A refresh finds files by way of the table: a file this process has written
\* has its entry there, and is not older than the last refresh of it.
SavedIsFresh ==
    \A r \in saved :
        cache[r] # NULL /\ disk[r] # NULL /\ disk[r] >= floor[Function(r)]

\* The results the table points to exist, and so do those a worker's callback
\* is given, whatever the other thread replaces or refreshes meanwhile.
NoDangling ==
    /\ \A r \in Requests : cache[r] # NULL => refs[cache[r]] > 0
    /\ pc[Worker] \in {"proxyadd", "save", "callback"} /\ answer # NULL => refs[answer] > 0

\* A task with a callback is called back in the end, on a hit, from a file, with
\* the server's answer or with NULL.
CalledBack ==
    \A t \in TaskIds :
        (t <= Len(made) /\ made[t].callback) ~> (calls[t] = 1 \/ crashed)

=============================================================================
