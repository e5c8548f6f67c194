# gnome-app-store in TLA+

Models, model checks and proofs of gnome-app-store, a client of an Open
Collaboration Services (OCS) server: a Clutter user interface whose pages push
requests as tasks, a cache that answers what it can, and a worker thread that
asks the server for the rest. Paths below are those of the repository.

## The system

| part | state | operations | talks to |
|---|---|---|---|
| `liboasyncworker/` | a list of tasks, the task in hand, a thread handle, flags of each task | add, remove, set_priority, cancel, join, dispose, the worker's loop | GMainLoop (signals as idle sources), the tasks' functions and callbacks |
| `lib/gnome-app-task.c` | a request, its callback and the actor (`userdata`) it belongs to | push, async_func, task_callback, download | proxy, queue, server, the actor's `lock-status` |
| `lib/gnome-app-proxy.c` | a table from request to answer; files of answers (DEVEL_MODE) | find, add, refresh after a POST, predict the next page | tasks |
| `lib/gnome-app-store.c` | queue, proxy, rest proxy, user, categories, the application lock | add_task, setup_category, set user and password | queue, configuration |
| `common/open-app-config.c` | user name, password, server address in a key file | init, get, save a login | store, login page |
| `common/open-app-utils.c` | picture files in a cache directory | is it there, download with redirections and retries; text patterns | file system, HTTP |
| `src/gnome-app-stage.c` | the page shown, a table of saved requests | check the login at start-up, load a page | pages, store |
| `src/` pages | widgets, a lock, the current request | search, turn pages, show pictures, comment, become a fan, log in, register | tasks, stage |
| `src/` parts of pages | icon view, comments, download list, account with its dialogs | fill, clean, reply, buy, open and close | tasks, page |
| `widgets/` | text, hint, focus, selection, the frames of a spin | set, press, timers | Clutter |

A page makes a task, pushes it, and is locked (`lock-status`) if the task goes
to the queue. The worker runs `async_func`, then `task_callback`, which takes
the application lock, calls the actor back, leaves the lock and unlocks the
actor.

What is hard here:

* The queue has two stores of its thread handle under no lock
  (`oasyncworker.c:541`, `:553`), flags read outside the list's lock, and a
  cancellation that lets the thread exit and restarts it from the main loop.
* Proxy table, files and reference counts are shared between the main thread
  and the worker, and no lock protects them.
* Answers are kept for ever; a POST has to find everything it has made stale.
* The queue serves the newest of equal priority first: answers come in another
  order than requests.
* A page, a dialog or an icon may be locked, loaded, destroyed or asked again
  while its task runs, and tasks know their actors by address.
* Downloads are redirected, retried and written in place, and may leave a file that
  is no picture; some requests cost money.
* User, password, rest proxy and configuration file are set one after the other.

`PROJECT.json` lists each of these hazards at its line with the properties that
would catch it going wrong.

## Modules

| module | models |
|---|---|
| `SerialQueue` | what a task queue promises: one task at a time, highest priority first, each finished once |
| `AsyncWorker` | `liboasyncworker`, thread by thread |
| `TaskCache` | `gnome-app-task.c` and `gnome-app-proxy.c` on top of `SerialQueue` |
| `Pages` | `gnome-app-stage.c` and the frame, info, login and register pages that load, lock and replace each other |
| `Session` | who is logged in: configuration file, credentials of the store, start-up, login, registration, account, categories |
| `Pictures` | icon view, info page and the download of what they show |
| `Requests` | a request as the dialogs see it: proxy, queue, server, owners that are destroyed |
| `Comments`, `Downloads`, `Messages` | the comments of an info page, its download list, the dialogs of an account, each over `Requests` |
| `Dialogs` | these three together, over one worker, one proxy and one server |
| `Widgets` | entries, check boxes, buttons, the spin and the text patterns, as operators on records |
| `ListLemmas` | lemmas on insertion into, deletion from and sorting of sequences |
| `AsyncWorkerProofs`, `AsyncWorkerQueueProofs`, `TaskCacheProofs`, `PagesProofs`, `SessionProofs`, `PicturesProofs`, `DialogsProofs` | theorems about the module in the name (those of `AsyncWorker` in two modules: types, order and the one worker; what follows of them for who uses the queue) |
| `MC...` | small instances for TLC |

`AsyncWorker` implements `SerialQueue` (`RefinesSerialQueue`), `TaskCache` uses
`SerialQueue` as its queue. `Pages`, `Session`, `Pictures` and `Requests` take
from these two what a page sees of them: one worker, the newest request first,
an answer from the proxy at once if it has one.
All of them take the queue as it is before a late store (see AsyncWorker): what a
page or the cache makes of two workers is not modelled.

### AsyncWorker

The variables `tasks`, `current`, `thread`, `idseed` are the fields of
`OAsyncWorkerPrivate`; `priority`, `removed`, `cancelled`, `iwanttocancel`,
`imincallback`, `queue`, `id` those of each task. `pc` says where a thread is;
`handle` is the `GThread*` a caller is about to store or is joining; `idle` is
the main loop's list of idle sources; `crashed` is set where the code uses a
NULL or freed pointer, after which nothing runs.

A `G_LOCK (tasks)` section is one step. Steps of their own are what the code
does outside it: `CreateThread` and `StoreThread` (l.548-553), the worker's reads
of the flags (`TestFunc`, `SkipFunc`, `TestCallback`, `SkipCallback`), the entries
into function and callback that follow them, whatever the flags have become by then
(`StartFunc`, `EnterCallback`), `Trail` (l.541), the two reads of `thread` in join
(`JoinTest`, `JoinRead`), the two halves of set_priority (`SetPriority`,
`SortTasks`), the halves of the exit on an empty list (`Pick`, `StopEmpty`).
`LOCK_OBJECT (queue)` is the variable `lock`: add holds it until the thread it
creates is stored, and dispose while it joins.
`Dispatch` runs idle sources; a `restart` source is a join and then a
new thread. Tasks add tasks from their function or callback (`Adders`), as
`setup_category` and the prediction do.

Threads are scheduled in any way. The code does not prevent that one of its two
unlocked stores comes too late: that of NULL at a thread's end when the handle of
the next is already there (`Trail`, l.541), or that of a handle when its thread has
already reached its end (`StoreThread`, l.553) or has run a task whose add looked for
the handle in vain (`Add`). The history variable `late` becomes TRUE in the step in
which this happens, and only then. Everything the queue promises but its types and
the order of its list (`TypeOK`, `ListOrdered`) may be lost from that step on: a
second worker, a task without one, a removed task that runs, a join that returns
early. So `AtMostOneWorker`, `RunsOnce`, `RemovedNeverRuns`, `NoStrandedTask`,
`JoinWaitsUnlessLate`, `AddedIsFinished`, `DisposeReturns` and `RefinesSerialQueue`
(where `late` is the abstract queue's `broken`) speak of the time until then. What
they say is that nothing else breaks the queue, and which instructions do; what
they do not say is that the code is right. `async_join_race` shows one consequence
of a late store, and the actions `CancelUnqueued` and `FinishTwice` are others.

### TaskCache

`cache` maps a request to the task whose answer it holds, `disk` to the version
in its file, `refs` counts the references of each task's results, `server` is the
version of each function's answer at the server (external), `floor` what that
version was when a POST's refresh was last completed. Both threads run
`gnome_app_task_push`: `Find`, `UseHit`, `ReadDisk`, `UseLoaded`, `AddLoaded`,
`PushOut`; the worker also `FuncFinds` (with the prediction before `Ref`),
`CallFails`, `CallRefused`, `CallAnswered`, `AddAnswer`, `Refresh`, `Save`,
`TaskCallback`. The queue under it is `SerialQueue`: `PushOut` is its `Submit`,
`Take` its `Begin`, `TaskCallback` its `End`.

Undefined behaviour is a choice: `gnome_app_task_get_priority` returns nothing,
so a stored page may or may not predict the next (`PredictOrNot`); a POST with
none of the known prefixes reads an unset `type` (`RefreshUnknown`), which stops
the process or does nothing.

Left out: order and escaping of parameters in the key of a request (a request
is a record of type, content and page), the file async_func writes of a POST's
answer (never read), downloads (`Pictures`), the lock-status of the owner
(`Pages`, `Comments`), the reference counts of the task objects (`Pages`), and
concurrent mutation of the GHashTable itself, which is taken as atomic.

### Pages

`pages` holds the page objects in the order of their making, `history` the one
the stage shows, `freed` those it has replaced, `table` the request saved under
"GnomeAppFrame", `tasks` the `GnomeAppTask` objects with their reference counts.
A page has what the code reads again: `lock`, a frame's `priv->task`, the request
whose results its icons show, its two arrows, `fan_status`.

`load` is the call of `gnome_app_stage_load` that is going on, in three steps
(`LoadNew`, the constructor; `LoadData`, the properties; `LoadShow`); while it is
not NULL the application lock is held, by the main thread or by the worker in a
callback, and handlers and callbacks wait. A handler is one step, as it holds that
lock. `Unlock`, the rest of `task_callback`, is a step outside the lock. The
worker's queue is last in, first out, because the tasks of pages have one
priority. `stored` and `status` say what the proxy can answer; `Predict` lets it
have the next page of a list it has at any time the worker is idle, instead of
the task of its own that `TaskCache` models.

`trouble` and `came` are history variables: which calls failed and whether there
was a search, and what the user saw when he opened an info page. Memory that was
freed is a choice: it is as it was, or its use crashes (`UseFreedPage`,
`OnSearchCrashes`), or the allocator has given it to the next task
(`OnSearchReuses`). `RegisterCrashes` is the `atoi` of a status code that is not
there.

Left out: what the other modules model of these pages (pictures, comments,
downloads, the account, the entries and who logs in). Icons stay as they are when
a list is empty or refused.

### Session

`file` is the configuration file (NULL: none, `Unreadable`: no key file, or the
pair of what it holds), `keys` what the program has read of it, `user`, `pwd` and
`url` the store's credentials and those in its rest proxy. `StartUp` is `main` up
to the main loop: the file is read or written, credentials are checked by a
request (`OnStartAnswered` shows the first page) or a login page is shown at once.
`login` and `regist` hold the entries of the two pages; `Type`, `Focus` and
`PressAutologin` change them also while a check is under way, as the code lets
them: `OnCheckAccepted` reads them again (`edited` remembers that it matters).
`cids` are the identifiers `setup_category` gives each group, for whatever
catalogue the server sends; the group called `Other` gets what matches no name.
A page number in each request (`page`, `made`) tells an answer that comes to a
page that is gone (`OnStaleAnswered`): its use of freed memory may end the
program or do nothing. `kept` is a history of what logins were to be remembered.

Abstracted: an application page and its return stand for all ways off the frame
and back; tasks to preload are a set served when nothing else waits; the list of
applications is one request. The address of the server is known or, with an
unreadable file, is not.

### Pictures

`files` says of each picture whether its file is missing, whole, or cut short: in
part (what there is can be drawn) or unreadable (empty, or too short to be a
picture). So is a file that is being written, and so may be one that was. `view` is the icon view as it is laid out, `count` and `listed`
are `priv->count` and `priv->app_actors`, `page` the info page with its current
picture and arrows, `shown` the picture each living actor shows.
`gnome_app_set_icon` (`SetIcon`) looks for the file and pushes a download if there
is none; what there is it gives to the texture, whose failure to load it nobody
sees (`SetFilename`, `Drawable`): the actor keeps the picture it had. The worker
asks up to three times (`AskFails`, `AskSucceeds`); within each time it follows
every redirection to the next, by a recursion without a bound (`AskRedirected`,
`FollowRedirect`). It writes in place (`Write`) and calls back, with or without a
file. `Clean` destroys the icons of all earlier results once more, as
`app_actors` is never emptied; the icons stay allocated because the script that
made them is never given back, so that their late callbacks draw on them and
nothing is shown of it.

`excused` remembers of the page's picture that it may be overtaken or cannot be
had: the page asked for the small one without having its file (the big one, asked
for later, is then served first and drawn over), or an earlier picture was still on
its way, or the file of the one wanted is missing after its download or is there and
unreadable.

### Requests, Comments, Downloads, Messages, Dialogs

`Requests` has the queue, the task in hand with its step (`call`, `callback`,
`unlock`), the proxy's answers, and the server: the number of comments it has,
and the links it sold, each with whether the answer came (`paid`). It may have
carried out a POST or sold a link although the call failed. The owner of a task becomes "gone" when its actor is
destroyed; its callback is then a choice between nothing and the end of the
program (`GoneCallback`).

`Comments`: a page loads its comments and locks them behind a spin while they
are asked for; a reply is a POST for the comments, a comment one for the page; an
answer to the first asks for the list again, to the second makes new comments.
Each listed comment asks for the picture of its user. The timers of a spin run in
the main loop (`SpinTimeout`); those of a destroyed texture go on (`loose`).

`Downloads`: a press on a price pushes the request that buys the link; the
callback opens it with gnome-open, which is external. How the links, their prices
and the balance look is left out.

`Messages`: an account opens any number of dialogs over the frame; a message
dialog asks for folders, shows one and, of that, a message; a friends dialog asks
for each friend's data. `overtaken` remembers a folder that was pressed while the
request of another waited, and so may be listed over.

`Dialogs` composes the three: one page, or the frame with its dialogs. `OpenPage`
and `OnReturnButtonPress` destroy the actors of the one or the other with all
their tasks' owners.

### Widgets

Operators on records: `FocusIn`, `FocusOut` and `TextChanged` of an entry with a
hint, `PressCheckBox`, `SetSelected` of a button, `Start`, `Stop` and `Timeout` of
a spinning texture (`Stop` has the assignment in its condition,
`gnome-app-texture.c`), and `PatternMatch` on kinds of text. `Session`,
`Comments` and `Downloads` hold the records in their state.

## Runs

| run | question | bounds | states |
|---|---|---|---|
| `async_app` | does the queue keep its promise as the store uses it: it implements the abstract queue with its liveness (`RefinesSerialQueue`), no task is left without a worker (`NoStrandedTask`), join waits for all (`JoinWaitsUnlessLate`) | 3 tasks, 2 priorities, 2 handles, every task may add, 1 join | 361,000 |
| `async_all` | all calls but join together: types (`TypeOK`) and order of the list (`ListOrdered`), also with two workers after a late store; until then one worker (`AtMostOneWorker`), functions and callbacks at most once (`RunsOnce`), removed tasks never run (`RemovedNeverRuns`), every task finished unless the queue is disposed of (`AddedIsFinished`), dispose returns unless a task adds meanwhile (`DisposeReturns`) | 2 tasks, 2 priorities, 1 task adds, 2 calls | 750,000 |
| `async_join_race` | violated: join waits for all, under any scheduling | 2 tasks | |
| `cache_devel` | with DEVEL_MODE: what was fetched or saved is not older than the last refresh of it (`FetchedIsFresh`, `SavedIsFresh`); no dangling results in the table or in the worker (`NoDangling`) | 3 requests of 2 types, 3 POSTs, 3 tasks | 1,567,000 |
| `cache_release` | without DEVEL_MODE: nothing in the table is older than the last refresh (`PostRefreshesCache`); every task is called back (`CalledBack`) | 3 requests, 3 POSTs, 3 tasks | 340,000 |
| `cache_post` | violated: "If we POST, refresh the relevant cached data" | 2 requests, 1 POST | |
| `pages` | a page with a lock-status is not replaced under its requests (`LockProtects`) and does not stay locked (`Unlocked`); arrows and the saved request fit what is shown (`ArrowsFitList`, `ReturnsToList`); no task is given back twice or kept freed (`TypeOK`, `TasksAlive`); the fan button agrees with the server (`FanAgrees`) | 4 clicks, 1 category, lists of 2, 3 and 4 applications on pages of 2 | 837,000 |
| `pages_search` | violated: the frame keeps the task of its search | the same | |
| `pages_replaced` | violated: the page a task will call back and unlock exists | the same | |
| `session` | who gets in (`Admitted`), of whom the frame and its requests are (`ShownIsUsed`), where categories are listed (`EveryCategoryListed`), what the next start remembers (`StartsAsLastLogin`), and that a first page comes (`PageComes`) | 5 starts or presses, 2 users, 4 files, 2 catalogues of 2 categories, 2 ways to fill the registration | 778,000 |
| `pictures` | icons and pictures are those of what is shown (`ViewFits`, `SettledOnCurrent`), a whole file is not written again (`KeptOnceFetched`), every download ends unless it is redirected for ever (`AllServed`) | 5 lists or presses, 2 applications, 4 pictures, lists of 0, 1 and 3 in 2 rows | 2,151,000 |
| `dialogs` | a link is not sold again once the answer to a sale has come (`PaidOnce`); comments are locked as long as they are asked for (`LockedWhileAsked`) and show what was said (`FreshWhenQuiet`); messages are of the folder pressed last (`ListFits`); the spin stops (`SpinStops`) | 4 presses, 2 dialogs, 2 folders, 2 links, 1 friend | 428,000 |

The runs of the queue have state constraints. `async_app` (`UntilLate`) does not
follow a behaviour further than the state a late store leads to: all its properties
excuse what comes after. `async_all` (`LateWithoutCalls`) does if no set_priority or
dispose has been called by then, for the two properties that excuse nothing; the
proofs of these two have no such restriction. `async_join_race` has no constraint.

Two handles and two tasks are enough for the races of the queue: each is between
one old thread, one new one and the caller. The third task in `async_app` tells
stack from queue order and lets one priority have two waiting tasks. Three tasks
in the cache are a GET to fill it, a POST and a GET to use it, or two GETs and
the prediction between them; `MaxTasks`, `MaxCalls` and the sets of requests are
the only bounds there. Four clicks of `pages` are a login, an icon, the fan button
and the return, or a category, the next page, an icon and the return; the lists
end with a page that is full (default, category) or not (search). `MaxClicks` of
`session` counts starts and presses, not typing: five are a start, a login, the
end, a second start and another login, or a registration in between. Five of
`pictures` are a list, an icon, two arrows and the return to another list, with
callbacks of the first icons still to come. Four of `dialogs` are a page, a reply,
the return and another page, or a price pressed on two pages. Deadlock is not
checked: a client that has made all its calls stops.

Fairness: `AsyncWorker` has weak fairness on the steps of each worker and of the
calls and sources the main thread is in: the scheduler runs threads, functions
and callbacks return. Nothing is assumed of what clients call, of additions and
cancellation points. In all other modules the worker's steps are weakly fair:
calls to a server return, with an answer or an error (they are synchronous and
librest and libsoup report a lost connection). A call for a file may also return
with a redirection, and nothing is assumed of how often: `AllServed` leaves out the
runs in which one file is redirected for ever. `TaskCache` and `Pages` add the
steps of a push and of a load that is going on, `Dialogs` the main loop's timers.
Nothing is assumed of what the user does.

## Where code and comments disagree

* `oasyncworkertask.c:165` says that all tasks need to finish for join to return;
  the unlocked stores let it return early (`async_join_race`). So does a
  cancelled task: its thread exits, join returns, and the rest is taken up by the
  restart source later.
* `gnome-app-proxy.c:249`: a POST does not reach the files of requests that have
  no entry in the table (`cache_post`).
* `gnome-app-frame.c:262`: "We need to ref it right after task_new", but the task
  it takes a reference to is the old one (`pages_search`).
* `gnome-app-stage.c:229`: "the current way to protect page from load without
  unlock" does not reach pages without a lock-status: a login or register page is
  replaced while its request runs, a login page by its own callback, and
  `task_callback` goes on to use it (`pages_replaced`).

Seen while modelling, not in a run:

* Queue: `o_async_worker_task_is_cancelled` is inverted (`oasyncworkertask.c:560`
  against `:541`); callbacks are documented to run in the main loop and run in the
  worker thread (`oasyncworker.c:502` against `oasyncworkertask.c:195`);
  `o_async_worker_remove` reads `current->priv` when there is no current task
  (`oasyncworker.c:657`; action `RemoveWithoutCurrent`). `NoStrandedTask` is
  checked with joins, not with joins and cancellations together: a join between a
  cancellation and its restart makes the restart begin on a list that may be
  empty, and a task added between that thread's look and its last store has no
  worker. Nothing in the documentation promises otherwise.
* Cache: the main thread passes cached results to a callback without a reference
  (`gnome-app-task.c:425`; action `UseFreed`).
* Pages: a frame that is loaded again while the default list is not in the proxy
  has two requests for one lock (`gnome-app-frame.c:484` and `:505`); after a lost
  list the arrows are those of the list before, and a press asks for page -1; after
  an exactly full last page `next` leads to an empty one, which `ArrowsFitList`
  allows; the answer of a registration that is lost is read
  (`gnome-app-register.c:83`). `LockProtects`, `ArrowsFitList` and the second half
  of `ReturnsToList` are therefore stated for runs without failed calls;
  `FanAgrees` without lost ones; the others for all.
* Session: the callback of a login reads the entries again (`gnome-app-login.c:77`),
  so that what was typed meanwhile is stored unchecked; a name saved without a
  password keeps the password of the user before (`open-app-config.c:246`). The
  pattern "blank" does not take the empty text, so that an empty name or comment
  passes as not blank (`open-app-utils.c`). The balance is asked for when it is -1
  (`gnome-app-stage.c:84`), and it starts at 0.
* Pictures: "Use the small icon first, as it was already cached"
  (`gnome-app-info-page.c:545`) does not hold if the icon's download failed or is
  late; the queue then serves the big picture first and the small one is drawn over
  it. A file that is cut short is taken as complete from then on
  (`open-app-utils.c:197`), and if nothing can be made of it the actor keeps its
  former picture, as nobody looks at the result (`gnome-app-button.c:255`).
  Redirections are followed by a recursion without a bound
  (`open-app-utils.c:152`): a file whose places name each other keeps the one worker
  and all tasks behind it waiting, and its stack growing.
* Dialogs: a purchase is a GET, and of one whose answer is lost nothing is stored
  (`gnome-app-task.c:208`), so that the next press on the price buys the link again;
  `PaidOnce` says that this is the only way. A second reply's owner is gone when the first one's
  answer reloads the comments; a folder's answer may come after that of the folder
  pressed later, and is then listed under its name (`gnome-app-message.c:364`); the
  userdata of a friend's request is a plain structure, whose class is asked for
  (`gnome-app-friends.c:148`). `FreshWhenQuiet` and `ListFits` exclude the runs in
  which this has happened.

## Proofs

Every theorem is for any values of the constants that satisfy the named
assumptions of its module, and each is stated under the specification without
fairness. TLC finds the inductive invariants of `AsyncWorkerQueueProofs`,
`PagesProofs`, `PicturesProofs` and `DialogsProofs` true in every state of the
instances of `async_app`, `async_all`, `pages`, `pictures` and `dialogs`.

`AsyncWorkerProofs`, with the lemmas of `ListLemmas`:

* `TypeCorrect`: `Spec => []TypeOK`. The inductive invariant adds `HandInv`: a
  worker between picking a task and finishing it has a task in hand, a thread
  about to store a handle has one.
* `ListAlwaysOrdered`: `Spec => []ListOrdered`, under any scheduling. A task
  that is in the list has an id and a queue, so what add inserts is not there
  yet; insertion, deletion and the stable sort preserve order and injectivity.
* `OneWorker`: `Spec => []AtMostOneWorker`, under any scheduling: a second worker
  is there only after a late store. The inductive invariant is `OneWorkerInv`:
  either `late`, or `LabelInv` (only the main thread ever starts a thread) and
  `HandleInv` (and only while nobody works and there is no handle; a thread inside
  the loop is the one `thread` names or the one about to be stored). `WorkerAddFinds`
  says of an add made by a task that it finds its own thread's handle. The proofs of
  these steps begin with `BeforeLate`: a step that ends before the late store began
  before it.

`AsyncWorkerQueueProofs` builds on these. Its theorems assume nothing of the
scheduling, and each invariant has the form "`late`, or". The last three assume that
nobody cancels: a cancelled task's thread leaves the list to a restart source, which
a join may overtake (see the remarks above). `Ops` says what clients call; the
store's own clients neither cancel nor change the priority of a task they have
added.

* `RunsAtMostOnce`: `Spec => []RunsOnce`. `HeldInv`: what a worker has in hand
  stays in the list until it is finished, and is the field `current`. `CountInv`: a
  task in the list whose function was entered is in hand beyond that point, or is
  cancelled, so that who picks it again after a restart skips the function; out of
  the list it is not added again.
* `RemovedStaysOut`: `Spec => RemovedNeverRuns`, an action property. Between the
  worker's read of the flags and the entry there are steps of others; `FlagInv` says
  that what was read is still so when it is acted on. It holds because remove refuses
  the current task, and by `HeldInv` that is the one in hand: with a second worker it
  is not, which is why a late store breaks this property.
* `NothingStranded` and `JoinEmpties`: `Spec => []NoStrandedTask`, `Spec =>
  []JoinWaitsUnlessLate`. `NoRestartInv`: no thread is started but by an add.
  `ServedInv`: a list that is not empty has a worker that will look again, or one
  about to be started, and a handle stands for a worker in its loop. `ServingInv` is
  the two of them, or `late`.
* `ImplementsSerialQueue`: `Spec => Serial!Spec`, the safety part of
  `RefinesSerialQueue`; there must be no set_priority either, whose two halves the
  abstract queue does not have. `CurrentInv`: the field `current` is NULL unless a
  worker has a task in hand. One lemma per kind of step: an add submits, a pick
  begins the head of an ordered list, hence the newest of the highest priority, a
  finish ends, a late store, and whatever comes after it, is the abstract queue's
  `Break`, and everything else stutters.

`TaskCacheProofs`, from two inductive invariants. `BoundAssumption` and the other
assumptions only tell NULL, NoPage and the threads apart from numbers and each
other and give requests and POSTs their fields.

* `ResultsInv` is about references. A count is right because results enter the
  table at most once, under the request of the task that made them (`CacheInv`),
  and because the results of a task that waits or has not been answered are known
  to nobody (`ApartInv`); `CountInv` then says that what the table has is
  referenced and that results which the worker has as well have one reference
  more. From it `TypeCorrect`, `Spec => []TypeOK` (no count falls below zero), and
  `NothingDangles`, `Spec => []NoDangling`.
* `FreshInv` is about versions: `AnsweredInv`, an answer the worker is about to
  store or save is no older than the last refresh; `SavedInv`, a file the worker
  has written, or is about to write, has its entry in the table; `LoadInv` and
  `PlainInv`, what is not fetched comes from a file, and without DEVEL_MODE there
  is none. `RefreshedAffected` compares `refresh_array` with what a POST changes.
  From it `FetchedFresh`, `Spec => []FetchedIsFresh`; `SavedFresh`, `Spec =>
  []SavedIsFresh`; and `ReleaseRefreshes`, `~DevelMode` implies `Spec =>
  []PostRefreshesCache`, the claim that `cache_post` refutes for the other build.

`PagesProofs`. First the effect of every action is stated by properties of pages,
tasks and queue (`Turns`, `Starts`, `Posts`, `MakesFrame`, ..., `Steps`) and shown
of the action together with `TypeOK'`; five invariants are then proved of these
formulas. Assumed is that the totals are numbers, a page has room for an
application, NULL is none of the values it is told apart from, and no category
is called "default" or "search", the names the model gives the lists that have none.

* `Base` is about references: `TypeCorrect`, `Spec => []TypeOK`, and
  `AllTasksAlive`, `Spec => []TasksAlive`. A count only tells how many holders
  there are, so `RefInv` names them: each place in the queue, the worker, the
  table (its own and that of the frame it was saved from, until a frame shares
  it), the frame shown and the frame being made. `KindInv`, `LoadInv`, `StageInv`
  and `AnswerInv` say of which kind they are.
* `LockSuffices`: `Spec => []LockProtects`. `LockedInv`: the page of a task that is
  due is live and locked; this needs `OnceInv`, one due task for each page with a
  lock-status (a first callback would unlock the page under the second request),
  and that `DefaultInv`: no frame is saved before the default list has come, so
  that a frame shown again has that list at once. This is what failed calls
  break.
* `FanButtonAgrees`: `Spec => []FanAgrees`. Info page, stored status and server
  agree (`FanStatusInv`, `FanPageInv`) but between the success of a request and its
  callback (`FanDoneInv`), and a request that is due asks for what the page is not
  (`FanAskedInv`).
* `ArrowsFit`: `Spec => []ArrowsFitList`. `KeptTaskInv`: results come from the task
  the frame keeps; `FitInv` and `ReadyInv`: an unlocked frame's list and arrows are
  of that task; `WithinInv`: no task asks beyond the list.
* `ReturnFindsList`: `Spec => ReturnsToList`, an action property of several steps.
  `CameInv` follows the request that was left through the load of the info page,
  its stay, and the load of the next frame; `ShownInv`: what was ever listed is at
  the proxy.

`SessionProofs`, from the one inductive invariant `SessionInv`. None of the
properties is inductive: an answer changes the page, and what it does was decided
when its request was made. `Proper(r)` says what a request that waits implies of
the page it will find (a check made by this login page carries its entries unless
they were edited, a request of this frame carries the store's credentials, a
start-up check is alone in the queue), and `FileInv` that the memory has what the
file has. One lemma per action.

* `TypeCorrect`: `Spec => []TypeOK`.
* `NobodyUnchecked`: `Spec => []Admitted`.
* `OneUser`: `Spec => []ShownIsUsed`.
* `AllListed`: `Spec => []EveryCategoryListed`. It assumes that the identifiers
  of an answer are distinct and that none is "-1", the value the code puts where
  there is none (`GroupAssumption`).
* `SameAgain`: `Spec => StartsAsLastLogin`.

`PicturesProofs`. `NullAssumption` says that NULL is none of the records the model
tells it apart from. The inductive invariant is `PicInv`: the types, `ViewFits`, and
four parts named below.

* `WholeStaysWhole`: `Spec => KeptOnceFetched`, from `FilesInv` alone: the file of a
  picture in hand is missing while it is asked for and not whole while it is written, as
  the worker looks for the file when it takes a task, and it alone writes.
* `TypeCorrect`: `Spec => []TypeOK`, and `ViewAlwaysFits`: `Spec => []ViewFits`. The
  icons are laid out and set by a recursion over the results (`SetIcons`).
  `LeastNatural` follows from the library's theorem that the naturals are well
  founded, and from it `NatSet` (induction, of a set of numbers) and
  `RecursiveFunction` (a function with given steps exists); so `SetIconsDoes` says
  for lists of any length what each icon draws and asks for. `TasksInv`: what is on
  its way to an icon of the frame is the icon's own picture.
* `AlwaysSettlesOnCurrent`: `Spec => []SettledOnCurrent`. `PageInv`, of a page that
  was not overtaken: all that waits for it is what it is to show, another picture in
  hand has that one wait behind it, and something is on its way unless it is shown.
  `FoundInv`: a task that got no file leaves its picture missing, which excuses the
  page that wanted it, as does a file of it that cannot be drawn.

`DialogsProofs`. `OwnerAssumption` tells NULL from the records and the dialogs from
the other owners of tasks.

* `TypeCorrect`: `Spec => []TypeOK`. An answer is written into the actor that
  asked, so the invariant needs `Served`: the owner of every task is there, of the
  kind that asks for this, or known to be gone.
* `SoldOnce`: `Spec => []PaidOnce`. `PaidInv`: a link that was sold with an answer
  is in the proxy, and a request for a link that is before its call is for one that
  is not.
* `HiddenOnlyWhileAsked`: `Spec => []LockedWhileAsked`: locked comments have a
  task of their own that waits or is in hand, and the spin's timer. It is
  inductive together with the types.
* `AlwaysFreshWhenQuiet`: `Spec => []FreshWhenQuiet`. Nothing can be said of the
  list while something is to come, so `FreshInv` says what covers a list that is
  behind: its request waits or is unanswered, or the POST that overtook it has not
  been called back. It needs that the proxy's list is never behind (a POST drops
  it), nor an answer that is about to be called back, and that only a page or a
  comment, never the comments, asks for a POST.
* `ListAlwaysFits`: `Spec => []ListFits`. `ListInv` speaks of the set of folders
  that wait for a dialog: unless one was overtaken, it has no other folder than
  the one pressed last, and another one in hand has that one wait behind it.

Only model-checked: liveness (`AddedIsFinished`, `DisposeReturns`, `CalledBack`,
`Unlocked`, `PageComes`, `AllServed`, `SpinStops`), and the fairness in
`RefinesSerialQueue`. Liveness under fairness and ENABLED are out of the prover's
reach. The library's induction theorems, which take an operator, are too; the one
induction the models need is over numbers and is done with sets of them, as said
above. RECURSIVE operators, which tlapm cannot handle, are in none of the modules.
Every invariant and every action property that a passing run checks is a theorem,
`NoStrandedTask` and `JoinWaitsUnlessLate` for clients that do not cancel.

## Not modelled

* Drawing, layout, scaling, dragging and scrolling, hovering, key events of the
  stage, the texts shown, UI descriptions, translations.
* Parsing of answers (`common/ocs-*.c`, `open-result*.c`): XML to property lists
  without control state; status, number of items and "no document" are inputs of
  the models.
* `common/open-app-install.c`, a stub; `gnome-app-actions.c` and
  `common/ocs-categories.c`, which are not part of the build.
* The scheduler and affinity setters of `liboasyncworker`, which change nothing
  without HAVE_SCHED_H; the arguments and results handed through by a task.
* Sync tasks, which no page uses; paths and md5 sums of picture files.
* The stars of an application's score, the colours of prices, the balance shown:
  they follow from the data in hand, and no property is about them.
* Levels of comments: a reply is a comment more in the list.
* The GNOME Shell extension, the tests' own main programs, third-party code.
