------------------------------- MODULE Pages --------------------------------
(***************************************************************************)
(* src/gnome-app-stage.c and the pages it shows: the frame (the list of     *)
(* applications), the info page with its fan button, login and register.    *)
(* A page asks by tasks; while one is in the queue, a page that has a       *)
(* lock-status is locked, and the stage does not replace a locked page.     *)
(*                                                                         *)
(* Handlers, callbacks and gnome_app_stage_load run under the application   *)
(* lock, which is held while `load' is not NULL.  The worker unlocks a page *)
(* after it has left that lock.                                            *)
(***************************************************************************)
EXTENDS Integers, Sequences, FiniteSets

CONSTANTS
    Categories,     \* the buttons of create_category_list
    Total,          \* number of applications of each query, at the server
    PageSize,       \* applications on a page
    MaxClicks,      \* bound on what the user does
    NULL

Queries == {"default", "search"} \cup Categories

ASSUME TotalAssumption == Total \in [Queries -> Nat]
ASSUME SizeAssumption == PageSize \in Nat \ {0} /\ MaxClicks \in Nat
ASSUME CategoryAssumption == {"default", "search"} \cap Categories = {}

VARIABLES
    pages,      \* the page objects, in the order of their making
    freed,      \* those that are no more
    history,    \* the page the stage shows, or NULL
    table,      \* the task saved under "GnomeAppFrame", or NULL
    load,       \* the call of gnome_app_stage_load that is going on, or NULL
    tasks,      \* the GnomeAppTask objects, in the order of their making
    queue,      \* tasks that wait for the worker, the next one first
    running,    \* the task the worker has in hand, or NULL
    stage,      \* where the worker is with it
    result,     \* what its call returned
    stored,     \* lists the proxy has answers of
    status,     \* the answer about the fan status the proxy has, or NULL
    isFan,      \* the fan status at the server; NULL until it matters
    user,       \* whether the store has a user name
    clicks,     \* what the user has done so far
    trouble,    \* history: lost and refused calls, and searches
    came,       \* history: list and request of the frame an icon was pressed in
    crashed     \* a page or a task was used after it was freed

pageVars == <<pages, freed, history, table, load>>
workVars == <<queue, running, stage, result>>
serverVars == <<stored, status, isFan>>
vars == <<pageVars, tasks, workVars, serverVars, user, clicks, trouble, came, crashed>>

Stage == 0
List(query, page) == [query |-> query, page |-> page]

\* A page as its init leaves it.  Before the first results both arrows show.
NewPage(type) ==
    [type |-> type, lock |-> FALSE,
     task |-> NULL,             \* priv->task of a frame
     list |-> NULL,             \* the request whose results its icons are of
     prev |-> TRUE, next |-> TRUE,
     login |-> ~user,           \* the account offers to log in
     fan |-> "FAN_NOT_DEFINED"]

NewTask(kind, page, request, refs) ==
    [kind |-> kind, page |-> page, request |-> request, refs |-> refs]

Id == Len(tasks) + 1
Shows(type) == history # NULL /\ pages[history].type = type
HasLockStatus(p) == p # Stage /\ pages[p].type \in {"Frame", "InfoPage"}
Request(t) == tasks[t].request

(***************************************************************************)
(* Tasks: what a push does to the page that asks, and to the queue.         *)
(***************************************************************************)

NextShown(page, total) == (page + 1) * PageSize <= total

\* frame_load_results: arrows go by the page of the request in priv->task.
LoadResults(f, request, page, answer) ==
    LET total == Total[request.query] IN
    CASE answer = "lost" -> f
      [] answer = "ok" /\ total > 0 ->
            [f EXCEPT !.list = request, !.prev = page > 0, !.next = NextShown(page, total)]
      [] OTHER -> [f EXCEPT !.prev = FALSE, !.next = FALSE]

\* fan_status_callback
SetFanStatus(i, answer) == [i EXCEPT !.fan = answer]

\* gnome_app_task_push of a list: frame f, whose priv->task asks for page, is
\* called back at once or locked.
FrameAsks(f, request, page) ==
    IF request \in stored THEN LoadResults(f, request, page, "ok")
    ELSE [f EXCEPT !.lock = TRUE]

\* Tasks of pages have one priority, and the newest is the next.
Enqueued(t) == <<t>> \o queue
Queued(t, request) == IF request \in stored THEN queue ELSE Enqueued(t)

(***************************************************************************)
(* The stage.                                                              *)
(***************************************************************************)

\* Mutant of Protected: the lock-status is not looked at.
ProtectedNever == FALSE

Protected == history # NULL /\ HasLockStatus(history) /\ pages[history].lock

\* gnome_app_stage_load returns, or goes on to make a page.
StageLoad(type, mode, by) ==
    load' = IF Protected THEN NULL
            ELSE [type |-> type, mode |-> mode, by |-> by, step |-> "new"]

Goto(step) == load' = [load EXCEPT !.step = step]

\* g_object_new of a frame asks for its default list.
NewFrame ==
    LET first == List("default", 0) IN
    /\ pages' = Append(pages, FrameAsks([NewPage("Frame") EXCEPT !.task = Id], first, 0))
    /\ tasks' = Append(tasks, NewTask("list", Len(pages) + 1, first, 2))
    /\ queue' = Queued(Id, first)

LoadNew ==
    /\ load # NULL /\ load.step = "new"
    /\ \/ load.type = "Frame" /\ NewFrame
       \/ /\ load.type # "Frame"
          /\ pages' = Append(pages, NewPage(load.type))
          /\ UNCHANGED <<tasks, queue>>
    /\ Goto("data")
    /\ UNCHANGED <<freed, history, table, running, stage, result, serverVars, user,
                   clicks, trouble, came, crashed>>

\* Mutant of SetData: the frame keeps the task and does not push it.
SetDataUnpushed(f, t, request) == [f EXCEPT !.task = t]

\* The property "data" of a frame.
SetData(f, t, request) == FrameAsks([f EXCEPT !.task = t], request, request.page)

RestoreFrame(p) ==
    /\ load.type = "Frame" /\ table # NULL /\ load.mode = "DEFAULT"
    /\ pages' = [pages EXCEPT ![p] = SetData(@, table, Request(table))]
    /\ tasks' = [tasks EXCEPT ![table].page = p, ![table].refs = @ + 1]
    /\ queue' = Queued(table, Request(table))
    /\ UNCHANGED table

ForgetFrame ==
    /\ load.type = "Frame" /\ table # NULL /\ load.mode = "NEW"
    /\ tasks' = [tasks EXCEPT ![table].refs = @ - 1]
    /\ table' = NULL
    /\ UNCHANGED <<pages, queue>>

\* The property "data" of an info page asks for the fan status.
FillInfoPage(p) ==
    /\ load.type = "InfoPage"
    /\ tasks' = Append(tasks, NewTask("status", p, NULL, 1))
    /\ pages' = [pages EXCEPT ![p] = IF status # NULL THEN SetFanStatus(@, status)
                                     ELSE [@ EXCEPT !.lock = TRUE]]
    /\ queue' = IF status # NULL THEN queue ELSE Enqueued(Id)
    /\ UNCHANGED table

LoadData ==
    /\ load # NULL /\ load.step = "data"
    /\ \/ RestoreFrame(Len(pages)) \/ ForgetFrame \/ FillInfoPage(Len(pages))
       \/ /\ load.type # "InfoPage" /\ (load.type = "Frame" => table = NULL)
          /\ UNCHANGED <<pages, tasks, queue, table>>
    /\ Goto("show")
    /\ UNCHANGED <<freed, history, running, stage, result, serverVars, user,
                   clicks, trouble, came, crashed>>

\* Mutant of SavedRefs: neither g_object_get nor the table takes a reference.
SavedRefsNone(t) == -1

\* g_object_get and the table take a reference, the old frame gives its own back.
SavedRefs(t) == 1

\* gnome_app_stage_show
LoadShow ==
    /\ load # NULL /\ load.step = "show"
    /\ IF Shows("Frame")
       THEN LET t == pages[history].task IN
            /\ table' = t
            /\ tasks' = [u \in 1 .. Len(tasks) |->
                            [tasks[u] EXCEPT !.refs = @ + (IF u = t THEN SavedRefs(t) ELSE 0)
                                                        - (IF u = table THEN 1 ELSE 0)]]
       ELSE UNCHANGED <<table, tasks>>
    /\ freed' = IF history = NULL THEN freed ELSE freed \cup {history}
    /\ history' = Len(pages)
    /\ load' = NULL
    /\ came' = IF load.type = "InfoPage" THEN came ELSE NULL
    /\ UNCHANGED <<pages, workVars, serverVars, user, clicks, trouble, crashed>>

(***************************************************************************)
(* What the user does.                                                     *)
(***************************************************************************)

Click(type) ==
    /\ load = NULL /\ Shows(type)
    /\ clicks < MaxClicks /\ clicks' = clicks + 1
    /\ UNCHANGED <<freed, history, table, running, stage, result, serverVars, crashed>>

\* The frame pushes task Id for request and keeps task kept, on page `page'.
Ask(kept, request, page) ==
    /\ pages' = [pages EXCEPT ![history] = FrameAsks([@ EXCEPT !.task = kept], request, page)]
    /\ queue' = Queued(Id, request)
    /\ UNCHANGED <<load, user, came>>

\* Mutant of IsFrameLocked: handlers do not test the lock.
IsFrameLockedNever == FALSE

IsFrameLocked == pages[history].lock

\* Mutant of NewTaskRefs: the frame takes no reference to its new task.
NewTaskRefsOne == 1

NewTaskRefs == 2

\* The frame gives its task back and keeps the new one.
AskInstead(request) ==
    /\ tasks' = Append([tasks EXCEPT ![pages[history].task].refs = @ - 1],
                       NewTask("list", history, request, NewTaskRefs))
    /\ Ask(Id, request, request.page)
    /\ UNCHANGED trouble

OnCategoryButtonPress(c) ==
    Click("Frame") /\ ~IsFrameLocked /\ AskInstead(List(c, 0))

\* on_icon_press copies the task with another page.
OnIconPress(step) ==
    LET request == Request(pages[history].task) IN
    /\ Click("Frame") /\ ~IsFrameLocked
    /\ IF step = -1 THEN pages[history].prev ELSE pages[history].next
    /\ AskInstead([request EXCEPT !.page = @ + step])

\* The search gives its task back and then takes a reference to it again, not
\* to the new one.
OnSearchEntryActivate ==
    LET old == pages[history].task
        request == List("search", 0)
    IN  /\ Click("Frame") /\ ~IsFrameLocked /\ tasks[old].refs > 1
        /\ tasks' = Append(tasks, NewTask("list", history, request, 1))
        /\ Ask(old, request, Request(old).page)
        /\ trouble' = trouble \cup {"search"}

\* When that was the last reference, gnome_app_task_new may be given the same
\* memory, and the task kept is the new one ...
OnSearchReuses ==
    LET old == pages[history].task
        request == List("search", 0)
    IN  /\ Click("Frame") /\ ~IsFrameLocked /\ tasks[old].refs = 1
        /\ tasks' = Append([tasks EXCEPT ![old].refs = 0],
                           NewTask("list", history, request, 2))
        /\ Ask(Id, request, 0)
        /\ trouble' = trouble \cup {"search"}

\* ... or g_object_ref is given freed memory.
OnSearchCrashes ==
    /\ ~crashed /\ load = NULL /\ Shows("Frame") /\ ~IsFrameLocked
    /\ clicks < MaxClicks
    /\ tasks[pages[history].task].refs = 1
    /\ crashed' = TRUE
    /\ UNCHANGED <<pageVars, tasks, workVars, serverVars, user, clicks, trouble, came>>

OnInfoIconEvent ==
    /\ Click("Frame") /\ pages[history].list # NULL
    /\ StageLoad("InfoPage", "NEW", "main")
    /\ came' = [list |-> pages[history].list, request |-> Request(pages[history].task)]
    /\ UNCHANGED <<pages, tasks, queue, user, trouble>>

Go(type, mode) ==
    StageLoad(type, mode, "main") /\ UNCHANGED <<pages, tasks, queue, trouble, came>>

OnAccountLoginPress ==
    Click("Frame") /\ pages[history].login /\ Go("Login", "DEFAULT") /\ UNCHANGED user

\* set_lock makes the buttons of a locked info page insensitive.
OnReturnButtonPress ==
    /\ Click("InfoPage") /\ ~pages[history].lock
    /\ Go("Frame", "DEFAULT") /\ UNCHANGED user

OnRegisterPress == Click("Login") /\ Go("Register", "DEFAULT") /\ UNCHANGED user

OnBackButtonPress == Click("Register") /\ Go("Login", "DEFAULT") /\ UNCHANGED user

OnGuestLoginPress == Click("Login") /\ Go("Frame", "NEW") /\ user' = FALSE

\* A POST of the page shown.
Post(kind, request) ==
    /\ tasks' = Append(tasks, NewTask(kind, history, request, 1))
    /\ queue' = Enqueued(Id)
    /\ pages' = [pages EXCEPT ![history].lock = HasLockStatus(history)]
    /\ UNCHANGED <<load, user, trouble, came>>

OnLoginPress == Click("Login") /\ Post("check", NULL)

OnRegisterButtonPress == Click("Register") /\ Post("register", NULL)

\* Mutant of Sensitive: the fan button of a locked page can be pressed.
SensitiveAlways == TRUE

Sensitive == ~pages[history].lock

OnFanButtonPress ==
    /\ Click("InfoPage") /\ Sensitive
    /\ Post("fan", IF pages[history].fan = "NOT_FAN" THEN "add" ELSE "remove")

User ==
    \/ \E c \in Categories : OnCategoryButtonPress(c)
    \/ \E step \in {-1, 1} : OnIconPress(step)
    \/ OnSearchEntryActivate \/ OnSearchReuses \/ OnSearchCrashes
    \/ OnInfoIconEvent \/ OnAccountLoginPress \/ OnReturnButtonPress
    \/ OnRegisterPress \/ OnBackButtonPress \/ OnGuestLoginPress
    \/ OnLoginPress \/ OnRegisterButtonPress \/ OnFanButtonPress

(***************************************************************************)
(* The worker.                                                             *)
(***************************************************************************)

Kind == tasks[running].kind
Page == tasks[running].page
Failed(answer) == trouble' = IF answer = "ok" \/ Kind \in {"check", "register"}
                             THEN trouble ELSE trouble \cup {answer}

Take ==
    /\ stage = "idle" /\ queue # <<>>
    /\ running' = Head(queue) /\ queue' = Tail(queue)
    /\ stage' = "func"
    /\ UNCHANGED <<pageVars, tasks, result, serverVars, user, clicks, trouble, came, crashed>>

Returns(answer) ==
    /\ stage = "func"
    /\ stage' = "callback" /\ result' = answer
    /\ Failed(answer)
    /\ UNCHANGED <<pageVars, queue, running, user, clicks, came, crashed>>

\* Another task has brought the answer meanwhile.
FindsAnswer ==
    /\ stage = "func"
    /\ \/ Kind = "list" /\ Request(running) \in stored
       \/ Kind = "status" /\ status # NULL
    /\ Returns("ok")
    /\ UNCHANGED <<tasks, serverVars>>

\* The proxy keeps the results, and the task with them.
CallList(answer) ==
    /\ stage = "func" /\ Kind = "list" /\ Request(running) \notin stored
    /\ Returns(answer)
    /\ stored' = IF answer = "ok" THEN stored \cup {Request(running)} ELSE stored
    /\ tasks' = IF answer = "ok" THEN [tasks EXCEPT ![running].refs = @ + 1] ELSE tasks
    /\ UNCHANGED <<status, isFan>>

CallStatus(answer) ==
    /\ stage = "func" /\ Kind = "status" /\ status = NULL
    /\ Returns(answer)
    /\ isFan' \in IF isFan = NULL /\ answer = "ok" THEN BOOLEAN ELSE {isFan}
    /\ status' = IF answer # "ok" THEN NULL ELSE IF isFan' THEN "IS_FAN" ELSE "NOT_FAN"
    /\ UNCHANGED <<tasks, stored>>

\* The server carries it out or not; a success takes the fan status out of the
\* table.
CallFan(answer) ==
    /\ stage = "func" /\ Kind = "fan"
    /\ Returns(answer)
    /\ \/ answer # "refused" /\ isFan' = (Request(running) = "add")
       \/ answer # "ok" /\ UNCHANGED isFan
    /\ status' = IF answer = "ok" THEN NULL ELSE status
    /\ UNCHANGED <<tasks, stored>>

CallPerson(answer) ==
    /\ stage = "func" /\ Kind \in {"check", "register"}
    /\ Returns(answer)
    /\ UNCHANGED <<tasks, serverVars>>

\* task_callback: the application lock, the page's own callback.
CallBack ==
    /\ stage = "callback" /\ load = NULL
    /\ stage' = "unlock"
    /\ UNCHANGED <<freed, history, table, tasks, queue, running, result, serverVars,
                   clicks, trouble, came, crashed>>

FrameCallback ==
    /\ stage = "callback" /\ Kind = "list" /\ CallBack
    /\ pages' = [pages EXCEPT ![Page] =
                    LoadResults(@, Request(running), Request(@.task).page, result)]
    /\ UNCHANGED <<load, user>>

FanStatusCallback ==
    /\ stage = "callback" /\ Kind = "status" /\ CallBack
    /\ pages' = [pages EXCEPT ![Page] =
                    SetFanStatus(@, IF result = "ok" THEN status ELSE "FAN_ERROR")]
    /\ UNCHANGED <<load, user>>

\* Mutant of FanChanges: the status turns whatever the server says.
FanChangesAlways == TRUE

FanChanges == result = "ok"

AddRemoveFanCallback ==
    /\ stage = "callback" /\ Kind = "fan" /\ CallBack
    /\ pages' = [pages EXCEPT ![Page].fan =
                    IF ~FanChanges THEN @ ELSE IF @ = "NOT_FAN" THEN "IS_FAN" ELSE "NOT_FAN"]
    /\ UNCHANGED <<load, user>>

\* The check of a stored user (the stage) and of one who logs in (a login page).
AuthValidCallback ==
    /\ stage = "callback" /\ Kind = "check" /\ CallBack
    /\ IF result = "ok"
       THEN user' = TRUE /\ StageLoad("Frame", "NEW", "worker")
       ELSE /\ IF Page = Stage THEN StageLoad("Login", "DEFAULT", "worker") ELSE UNCHANGED load
            /\ UNCHANGED user
    /\ UNCHANGED pages

\* register_callback writes texts ...
RegisterCallback ==
    /\ stage = "callback" /\ Kind = "register" /\ result # "lost" /\ CallBack
    /\ UNCHANGED <<pages, load, user>>

\* ... and reads the number of the status of an answer that was lost.
RegisterCrashes ==
    /\ stage = "callback" /\ Kind = "register" /\ result = "lost" /\ load = NULL
    /\ crashed' = TRUE
    /\ UNCHANGED <<pageVars, tasks, workVars, serverVars, user, clicks, trouble, came>>

\* Mutant of Unlocks: only a page whose request succeeded is unlocked.
UnlocksOnResults == result = "ok"

Unlocks == HasLockStatus(Page)

\* The rest of task_callback, outside the application lock.
Unlock ==
    /\ stage = "unlock" /\ (load # NULL => load.by # "worker")
    /\ pages' = IF Unlocks THEN [pages EXCEPT ![Page].lock = FALSE] ELSE pages
    /\ tasks' = [tasks EXCEPT ![running].refs = @ - 1]
    /\ stage' = "idle" /\ running' = NULL /\ result' = NULL
    /\ UNCHANGED <<freed, history, table, load, queue, serverVars, user, clicks, trouble,
                   came, crashed>>

\* A page that was freed: its memory is as it was, or the worker crashes.
UseFreedPage ==
    /\ stage = "unlock" \/ (stage = "callback" /\ load = NULL)
    /\ Page \in freed
    /\ crashed' = TRUE
    /\ UNCHANGED <<pageVars, tasks, workVars, serverVars, user, clicks, trouble, came>>

\* next_page_predict of the proxy, of a list it has.
Predict ==
    /\ stage = "idle"
    /\ \E r \in stored :
          /\ r.page >= 0 /\ r.page * PageSize < Total[r.query]
          /\ stored' = stored \cup {[r EXCEPT !.page = @ + 1]}
    /\ UNCHANGED <<pageVars, tasks, workVars, status, isFan, user, clicks, trouble, came,
                   crashed>>

Call(answer) == CallList(answer) \/ CallStatus(answer) \/ CallFan(answer) \/ CallPerson(answer)

WorkerStep ==
    \/ Take \/ FindsAnswer \/ \E answer \in {"ok", "refused", "lost"} : Call(answer)
    \/ FrameCallback \/ FanStatusCallback \/ AddRemoveFanCallback
    \/ AuthValidCallback \/ RegisterCallback \/ RegisterCrashes \/ Unlock \/ UseFreedPage

LoadStep == LoadNew \/ LoadData \/ LoadShow

\* gnome_app_stage_init: a stored user is checked, or has to log in.
Init ==
    /\ pages = <<>> /\ freed = {} /\ history = NULL /\ table = NULL
    /\ \/ /\ user = TRUE /\ load = NULL
          /\ tasks = <<NewTask("check", Stage, NULL, 1)>> /\ queue = <<1>>
       \/ /\ user = FALSE
          /\ load = [type |-> "Login", mode |-> "DEFAULT", by |-> "main", step |-> "new"]
          /\ tasks = <<>> /\ queue = <<>>
    /\ running = NULL /\ stage = "idle" /\ result = NULL
    /\ stored = {} /\ status = NULL
    /\ isFan = NULL
    /\ clicks = 0 /\ trouble = {} /\ came = NULL /\ crashed = FALSE

Next == ~crashed /\ (User \/ LoadStep \/ WorkerStep \/ Predict)

Spec == Init /\ [][Next]_vars

\* gnome_app_stage_load returns; the worker serves its queue, and its calls
\* return, with an answer or an error.
FairSpec ==
    /\ Spec
    /\ WF_vars(~crashed /\ LoadStep)
    /\ WF_vars(~crashed /\ WorkerStep)

(***************************************************************************)
(* Properties.                                                             *)
(***************************************************************************)

Types == {"Frame", "InfoPage", "Login", "Register"}
Loads == [type : Types, mode : {"NEW", "DEFAULT"}, by : {"main", "worker"},
          step : {"new", "data", "show"}]
Answers == {"ok", "refused", "lost"}
FanStatus == {"FAN_NOT_DEFINED", "IS_FAN", "NOT_FAN", "FAN_ERROR"}

ASSUME NullAssumption == NULL \notin Nat \cup BOOLEAN \cup Answers \cup FanStatus \cup Loads

PageIds == 1 .. Len(pages)
TaskIds == 1 .. Len(tasks)
Lists == [query : Queries, page : Int]
PageObjects ==
    [type : Types, lock : BOOLEAN, task : TaskIds \cup {NULL}, list : Lists \cup {NULL},
     prev : BOOLEAN, next : BOOLEAN, login : BOOLEAN, fan : FanStatus]
TaskObjects ==
    [kind : {"list"}, page : PageIds, request : Lists, refs : Nat] \cup
    [kind : {"fan"}, page : PageIds, request : {"add", "remove"}, refs : Nat] \cup
    [kind : {"check", "register", "status"}, page : PageIds \cup {Stage}, request : {NULL},
     refs : Nat]

\* Type invariant.  Whatever refers to a page or a task refers to one that was made,
\* and a reference count is not below zero: none is given back twice.
TypeOK ==
    /\ pages \in Seq(PageObjects)
    /\ freed \subseteq PageIds /\ history \in PageIds \cup {NULL}
    /\ table \in TaskIds \cup {NULL}
    /\ load \in Loads \cup {NULL}
    /\ tasks \in Seq(TaskObjects)
    /\ queue \in Seq(TaskIds) /\ running \in TaskIds \cup {NULL}
    /\ stage \in {"idle", "func", "callback", "unlock"}
    /\ result \in Answers \cup {NULL}
    /\ stored \subseteq Lists /\ status \in {NULL, "IS_FAN", "NOT_FAN"}
    /\ isFan \in BOOLEAN \cup {NULL} /\ user \in BOOLEAN
    /\ clicks \in 0 .. MaxClicks
    /\ trouble \subseteq {"lost", "refused", "search"}
    /\ came \in [list : Lists, request : Lists] \cup {NULL}
    /\ crashed \in BOOLEAN

Pending == {queue[i] : i \in 1 .. Len(queue)} \cup ({running} \ {NULL})

\* "This is the current way to protect page from load without unlock"
\* (gnome-app-stage.c:229): the page a task is to call back and unlock exists.
PagesAreProtected == \A t \in Pending : tasks[t].page \notin freed

\* The lock does protect the pages that have one, if no call fails: a frame or
\* an info page is not replaced before each of its requests is answered.
LockProtects ==
    trouble \subseteq {"search"} =>
        \A t \in Pending : HasLockStatus(tasks[t].page) => tasks[t].page \notin freed

\* "We need to ref it right after task_new" (gnome-app-frame.c:262): the task
\* of an unlocked frame is the one of the results it shows.
SearchKeepsItsTask ==
    trouble \subseteq {"search"} /\ load = NULL /\ Shows("Frame") /\ ~pages[history].lock =>
        pages[history].list \in {NULL, Request(pages[history].task)}

\* An arrow turns the pages of the list that is shown: without errors or a
\* search, the request kept is the one that was answered last, and no page is
\* asked for but one that exists, or the one after a last page that is full.
ArrowsFitList ==
    LET f == pages[history] IN
    trouble = {} =>
        /\ load = NULL /\ Shows("Frame") /\ ~f.lock /\ (f.prev \/ f.next) =>
              f.list = Request(f.task)
        /\ \A t \in 1 .. Len(tasks) : tasks[t].kind = "list" =>
              /\ Request(t).page >= 0
              /\ Request(t).page * PageSize <= Total[Request(t).query]

\* The tasks that are kept, saved, waiting or running exist: table, frames,
\* proxy and worker take and give back their references apart.
TasksAlive ==
    /\ \A t \in Pending \cup ({table} \ {NULL}) : tasks[t].refs > 0
    /\ load = NULL /\ Shows("Frame") => tasks[pages[history].task].refs > 0

\* Who returns from an info page finds the request of the frame he left, and
\* its list at once if that was what it showed.
ReturnsToList ==
    [][load # NULL /\ load' = NULL /\ load.type = "Frame" /\ load.mode = "DEFAULT" =>
          LET f == pages'[history'] IN
          /\ tasks'[f.task].request = came.request
          /\ trouble = {} /\ came.list = came.request => f.list = came.list /\ ~f.lock]_vars

\* What an unlocked info page says of the user's being a fan is so at the
\* server, unless an answer was lost.
FanAgrees ==
    LET i == pages[history] IN
    "lost" \notin trouble /\ Shows("InfoPage") /\ ~i.lock /\ i.fan \in {"IS_FAN", "NOT_FAN"} =>
        i.fan = "IS_FAN" <=> isFan

ShownIsLocked == history # NULL /\ pages[history].lock

\* The page shown, which cannot be left while it is locked, does not stay so,
\* whether its requests succeed or not.
Unlocked == ShownIsLocked ~> (~ShownIsLocked \/ crashed)

=============================================================================
