------------------------------- MODULE Pictures -----------------------------
(***************************************************************************)
(* The pictures of the applications: the icons of the frame's icon view and *)
(* the big picture of an info page, the files they are kept in, and the     *)
(* tasks that download what is not yet in a file.                           *)
(*                                                                         *)
(* The worker serves the newest task first and writes a file in place while *)
(* the interface goes on.  Callbacks and handlers run under the application *)
(* lock, so each is one action.                                             *)
(***************************************************************************)
EXTENDS Integers, Sequences

CONSTANTS
    Urls,
    Apps,
    Small, Big,     \* of each application: its small and its big pictures
    Lists,          \* results the frame may show
    Rows,           \* rows of the icon view
    MaxClicks,      \* bound on lists shown and buttons pressed
    NULL

ASSUME AppAssumption ==
    /\ NULL \notin Urls
    /\ Small \in [Apps -> Seq(Urls)]
    /\ Big \in [Apps -> Seq(Urls \cup {NULL})]
    /\ Lists \subseteq Seq(Apps)

\* The info page of one of the actors, and a task for one.
InfoPages(actors) ==
    [actor : actors, app : Apps, current : Nat, next : BOOLEAN, prev : BOOLEAN]
Hands(actors) ==
    [actor : actors, url : Urls, left : Nat, found : BOOLEAN,
     step : {"ask", "moved", "write", "callback"}]
AllActors == {"icon", "big"} \X Nat

ASSUME NullAssumption == NULL \notin InfoPages(AllActors) \cup Hands(AllActors)
ASSUME BoundAssumption == Rows \in Nat \ {0} /\ MaxClicks \in Nat

VARIABLES
    files,      \* of each picture: no file, a whole one, or one that is cut short, in
                \* part or not at all readable as a picture
    view,       \* the icons of the frame: application, actor, column and row
    count,      \* priv->count of the icon view
    listed,     \* priv->app_actors: every icon it was ever given
    page,       \* the info page, or NULL
    shown,      \* the picture each actor that is alive shows, or NULL
    made,       \* number of actors made
    queue,      \* download tasks that wait, the next one first
    hand,       \* the task the worker is busy with, or NULL
    ended,      \* the program used memory it had freed
    clicks,
    excused     \* history: the page's picture may be overtaken, or cannot be drawn

viewVars == <<view, count, listed>>
workVars == <<queue, hand>>
vars == <<files, viewVars, page, shown, made, workVars, ended, clicks, excused>>

Clicks == ~ended /\ clicks < MaxClicks /\ clicks' = clicks + 1

(***************************************************************************)
(* Tasks.                                                                   *)
(***************************************************************************)

\* open_app_get_local_icon without a download: is there a file of the picture?
LocalIcon(url) == files[url] # "none"

Request(actor, url) == [actor |-> actor, url |-> url]

\* open_app_get_pixmap_uri, for the name of a downloaded file: there is no
\* picture of that name beside those of the program.
PixmapUri(url) == IF files[url] = "none" THEN NULL ELSE url

\* What the texture makes of a file that is there: of one that is empty or cut too
\* short it makes nothing.
Drawable(url) == files[url] \in {"partial", "whole"}

\* The "filename" of a button; the big picture, a texture, takes it likewise.
\* clutter_texture_set_from_file may fail, and nobody looks: the picture stays.
SetFilename(picture, url) ==
    IF url = NULL \/ ~Drawable(url) THEN picture ELSE url

\* set_pic_callback; a file that is not there leaves the actor as it is.
SetPic(s, actor, url) ==
    IF actor \in DOMAIN s.shown
    THEN [s EXCEPT !.shown[actor] = SetFilename(@, PixmapUri(url))] ELSE s

\* gnome_app_set_icon: a picture with a file is shown at once, another is asked
\* for, even if it is already being asked for.
SetIcon(s, actor, url) ==
    IF url = NULL THEN s
    ELSE IF LocalIcon(url) THEN SetPic(s, actor, url)
    ELSE [s EXCEPT !.queue = <<Request(actor, url)>> \o @]

Tasks(actors, q) == [shown |-> actors, queue |-> q]
Icon(n) == <<"icon", n>>
BigPic(n) == <<"big", n>>

(***************************************************************************)
(* The icon view.                                                           *)
(***************************************************************************)

NewView == [view |-> {}, count |-> 0, listed |-> {}]
View == [view |-> view, count |-> count, listed |-> listed]
ActorsOf(icons) == {icon.actor : icon \in icons}

\* Mutant of Clean: the number of icons is not reset.
CleanKeepsCount(v) == IF v.count = 0 THEN v
    ELSE [v EXCEPT !.view = {icon \in @ : icon.actor \notin v.listed}]

\* gnome_app_icon_view_clean: the list of icons is not emptied.
Clean(v) == IF v.count = 0 THEN v
    ELSE [v EXCEPT !.view = {icon \in @ : icon.actor \notin v.listed}, !.count = 0]

\* Mutant of AddActor: the first place of a column stays empty.
AddActorBelow(n, actor, app) ==
    [actor |-> actor, app |-> app, col |-> n \div Rows, row |-> (n % Rows) + 1]

\* gnome_app_icon_view_add_actor: where the icon goes when there are n.
AddActor(n, actor, app) ==
    [actor |-> actor, app |-> app, col |-> n \div Rows, row |-> n % Rows]

\* gnome_app_icon_view_set_with_data
SetWithData(v, list) ==
    LET w == Clean(v) IN
    [view |-> w.view \cup
                {AddActor(w.count + i - 1, Icon(made + i), list[i]) : i \in DOMAIN list},
     count |-> w.count + Len(list),
     listed |-> w.listed \cup {Icon(made + i) : i \in DOMAIN list}]

SmallPic1(app) == IF Small[app] = <<>> THEN NULL ELSE Small[app][1]

\* gnome_app_info_icon_new_with_info for one result after another.
SetIcons(list) ==
    LET New == [a \in {Icon(made + i) : i \in DOMAIN list} |-> NULL]
        set[i \in 0 .. Len(list)] ==
            IF i = 0 THEN Tasks(New, queue)
            ELSE SetIcon(set[i - 1], Icon(made + i), SmallPic1(list[i]))
    IN  set[Len(list)]

ShowList(v, list) ==
    LET w == SetWithData(v, list)
        s == SetIcons(list)
    IN  /\ view' = w.view /\ count' = w.count /\ listed' = w.listed
        /\ made' = made + Len(list)
        /\ shown' = s.shown
        /\ queue' = s.queue

\* The frame gets the results of another list or page.
SetResults(list) ==
    /\ page = NULL
    /\ Clicks
    /\ ShowList(View, list)
    /\ UNCHANGED <<files, page, hand, ended, excused>>

(***************************************************************************)
(* The info page.                                                           *)
(***************************************************************************)

PicCount(app) == Len(Small[app])
PreviewPic(app, i) == IF i \in DOMAIN Big[app] THEN Big[app][i] ELSE NULL

\* Mutant of SetPics: the small icon last.
SetPicsSmallLast(s, actor, app, current) ==
    SetIcon(SetIcon(s, actor, PreviewPic(app, current)), actor, SmallPic1(app))

\* draw_pic: "the small icon first, as it was already cached".
SetPics(s, actor, app, current) ==
    SetIcon(SetIcon(s, actor, SmallPic1(app)), actor, PreviewPic(app, current))

\* The picture an application's page is to show.
Wanted(app, current) ==
    LET big == PreviewPic(app, current) IN IF big = NULL THEN SmallPic1(app) ELSE big

Asked(actor) == \E i \in DOMAIN queue : queue[i].actor = actor
Pending(actor) == Asked(actor) \/ (hand # NULL /\ hand.actor = actor)

\* The picture that is drawn now is not the last one to come: the small one has
\* no file, an earlier one waits behind it, or one comes while it has a file.  Or
\* its file is there and cannot be drawn.
Overtaken(actor, app, current) ==
    LET small == SmallPic1(app)
        big == PreviewPic(app, current)
    IN  \/ small # NULL /\ ~LocalIcon(small)
        \/ Asked(actor)
        \/ Pending(actor) /\ (big = NULL \/ LocalIcon(big))
        \/ LET wanted == Wanted(app, current) IN
           wanted # NULL /\ LocalIcon(wanted) /\ ~Drawable(wanted)

DrawPic(s, actor, app, current) ==
    LET t == SetPics(s, actor, app, current) IN
    /\ page' = [actor |-> actor, app |-> app, current |-> current,
                next |-> current < PicCount(app), prev |-> current > 1]
    /\ shown' = t.shown
    /\ queue' = t.queue
    /\ excused' = Overtaken(actor, app, current)

\* on_info_icon_event: a press on an icon shows the page of its application, in
\* the place of the frame (gnome_app_info_page_set_with_data).
OnInfoIconEvent(icon) ==
    /\ page = NULL
    /\ Clicks
    /\ made' = made + 1
    /\ LET big == BigPic(made + 1) IN
       DrawPic(Tasks([a \in {big} |-> NULL], queue), big, icon.app, 1)
    /\ view' = NewView.view /\ count' = NewView.count /\ listed' = NewView.listed
    /\ UNCHANGED <<files, hand, ended>>

NextPic(current, n) == IF current < n THEN current + 1 ELSE current
PrevPic(current) == IF current > 1 THEN current - 1 ELSE current

\* on_next_button_press and on_prev_button_press
OnPicButtonPress(current) ==
    /\ page # NULL
    /\ Clicks
    /\ IF current = page.current THEN UNCHANGED <<page, shown, queue, excused>>
       ELSE DrawPic(Tasks(shown, queue), page.actor, page.app, current)
    /\ UNCHANGED <<files, viewVars, made, hand, ended>>

OnNextButtonPress ==
    page # NULL /\ OnPicButtonPress(NextPic(page.current, PicCount(page.app)))
OnPrevButtonPress == page # NULL /\ OnPicButtonPress(PrevPic(page.current))

\* on_return_button_press: a new frame, whose list is in the proxy.
OnReturnButtonPress(list) ==
    /\ page # NULL
    /\ Clicks
    /\ page' = NULL
    /\ ShowList(NewView, list)
    /\ UNCHANGED <<files, hand, ended, excused>>

(***************************************************************************)
(* The worker.                                                              *)
(***************************************************************************)

MaxTries == 3

\* Mutant of Found: the task looked for the file when it was pushed.
NotLookedFor(url) == FALSE

\* async_download_func: what has a file by now is not downloaded.
Found(url) == LocalIcon(url)

WorkerTakes ==
    /\ hand = NULL /\ queue # <<>>
    /\ LET r == Head(queue) IN
       hand' = [actor |-> r.actor, url |-> r.url, left |-> MaxTries, found |-> Found(r.url),
                step |-> IF Found(r.url) THEN "callback" ELSE "ask"]
    /\ queue' = Tail(queue)
    /\ UNCHANGED <<files, viewVars, page, shown, made, ended, clicks, excused>>

At(step) == hand # NULL /\ hand.step = step

\* Mutant of OneTryLess: after the last try it starts over.
TriesAgain(h) == [h EXCEPT !.left = IF @ = 1 THEN MaxTries ELSE @ - 1]

OneTryLess(h) ==
    IF h.left = 1 THEN [h EXCEPT !.step = "callback"] ELSE [h EXCEPT !.left = @ - 1]

\* open_app_get_data_by_request: the answer names another place, ...
AskRedirected ==
    /\ At("ask")
    /\ hand' = [hand EXCEPT !.step = "moved"]
    /\ UNCHANGED <<files, viewVars, page, shown, made, queue, ended, clicks, excused>>

\* ... which the function calls itself to ask, however often it was redirected, ...
FollowRedirect ==
    /\ At("moved")
    /\ hand' = [hand EXCEPT !.step = "ask"]
    /\ UNCHANGED <<files, viewVars, page, shown, made, queue, ended, clicks, excused>>

\* ... or there is no data, ...
AskFails ==
    /\ At("ask")
    /\ hand' = OneTryLess(hand)
    /\ UNCHANGED <<files, viewVars, page, shown, made, queue, ended, clicks, excused>>

\* ... or data for a file that is opened, or cannot be.  Whoever looks at an open
\* file finds it empty or a part of it.
AskSucceeds ==
    /\ At("ask")
    /\ \/ /\ \E begun \in {"unreadable", "partial"} :
                files' = [files EXCEPT ![hand.url] = begun]
          /\ hand' = [hand EXCEPT !.step = "write", !.found = TRUE]
       \/ /\ hand' = [hand EXCEPT !.step = "callback", !.found = TRUE]
          /\ UNCHANGED files
    /\ UNCHANGED <<viewVars, page, shown, made, queue, ended, clicks, excused>>

\* fwrite and fclose, whose results download_file does not look at.
Write ==
    /\ At("write")
    /\ hand' = [hand EXCEPT !.step = "callback"]
    /\ \E written \in {"unreadable", "partial", "whole"} :
          files' = [files EXCEPT ![hand.url] = written]
    /\ UNCHANGED <<viewVars, page, shown, made, queue, ended, clicks, excused>>

\* task_callback.  An icon outlives its view, as nothing frees its script; the
\* big picture of a page that is no more is freed memory.
IsPage(actor) == page # NULL /\ page.actor = actor

Callback ==
    /\ At("callback")
    /\ hand' = NULL
    /\ shown' = IF hand.found
                THEN SetPic(Tasks(shown, queue), hand.actor, hand.url).shown ELSE shown
    /\ excused' = (excused \/ /\ IsPage(hand.actor)
                              /\ hand.url = Wanted(page.app, page.current)
                              /\ ~Drawable(hand.url))
    /\ ended' \in IF hand.actor[1] = "big" /\ ~IsPage(hand.actor) THEN BOOLEAN ELSE {FALSE}
    /\ UNCHANGED <<files, viewVars, page, made, queue, clicks>>

Init ==
    /\ files = [u \in Urls |-> "none"]
    /\ view = NewView.view /\ count = NewView.count /\ listed = NewView.listed
    /\ page = NULL /\ shown = << >> /\ made = 0
    /\ queue = <<>> /\ hand = NULL
    /\ ended = FALSE /\ clicks = 0 /\ excused = FALSE

User ==
    \/ \E list \in Lists : SetResults(list) \/ OnReturnButtonPress(list)
    \/ \E icon \in view : OnInfoIconEvent(icon)
    \/ OnNextButtonPress \/ OnPrevButtonPress

Worker ==
    /\ ~ended
    /\ \/ WorkerTakes
       \/ AskRedirected \/ FollowRedirect \/ AskFails \/ AskSucceeds
       \/ Write
       \/ Callback

Next == User \/ Worker

Spec == Init /\ [][Next]_vars

\* The worker's thread runs, and a call to a server returns or fails; nothing says
\* that it does not redirect.
FairSpec == Spec /\ WF_vars(Worker)

-----------------------------------------------------------------------------
Actors == {Icon(n) : n \in 1 .. made} \cup {BigPic(n) : n \in 1 .. made}
Live == IF page = NULL THEN ActorsOf(view) ELSE {page.actor}

FileStates == {"none", "unreadable", "partial", "whole"}

\* Every variable is of its type.
TypeOK ==
    /\ files \in [Urls -> FileStates]
    /\ view \subseteq [actor : Actors, app : Apps, col : Nat, row : 0 .. Rows - 1]
    /\ count \in Nat /\ listed \subseteq Actors /\ made \in Nat
    /\ page \in InfoPages(Actors) \cup {NULL}
    /\ shown \in [Live -> Urls \cup {NULL}]
    /\ queue \in Seq([actor : Actors, url : Urls])
    /\ hand \in Hands(Actors) \cup {NULL}
    /\ hand # NULL => hand.left \in 1 .. MaxTries
    /\ ended \in BOOLEAN /\ clicks \in 0 .. MaxClicks /\ excused \in BOOLEAN

\* Nobody reads a picture that is being written again: however often a picture
\* was asked for before its file was there, a file that is whole stays whole.
KeptOnceFetched ==
    [][\A u \in Urls : files[u] = "whole" => files'[u] = "whole"]_vars

Place(icon) == icon.col * Rows + icon.row

\* The frame shows the icons of its last results and no others, each in a place
\* of its own without gaps and, whichever tasks were on their way when the results
\* changed, with its own picture or none.
ViewFits ==
    /\ \A icon \in view : /\ icon.actor \in listed
                          /\ shown[icon.actor] \in {SmallPic1(icon.app), NULL}
    /\ {Place(icon) : icon \in view} = 0 .. count - 1
    /\ \A a, b \in view : Place(a) = Place(b) => a = b

\* When nothing more is to come, an info page shows the big picture its buttons
\* say it is at, or the small one where there is no big one; not if that one
\* could not be had or drawn, or was overtaken when it was drawn.
SettledOnCurrent ==
    page # NULL /\ ~excused /\ ~Pending(page.actor) =>
        shown[page.actor] = Wanted(page.app, page.current)

\* No picture keeps the others waiting for ever, whether the servers answer, refuse
\* or fail; only one that is redirected again and again, without end, does.
AllServed == []<>(ended \/ (hand = NULL /\ queue = <<>>)) \/ []<>At("moved")
=============================================================================
