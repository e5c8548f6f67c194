------------------------------ MODULE Comments ------------------------------
(***************************************************************************)
(* The comments of an info page: gnome-app-comments.c, gnome-app-comment.c  *)
(* and what gnome-app-info-page.c has to do with them.                      *)
(*                                                                         *)
(* Every answer makes the comments anew, each of which asks for the picture *)
(* of its user; a reply that succeeds has its comments asked for again, and *)
(* a comment that succeeds puts new comments in the place of the old ones.  *)
(***************************************************************************)
EXTENDS Requests, Widgets

VARIABLES
    page,       \* the info page, with its lock, or NULL
    comments,   \* the GnomeAppComments of the page, or NULL
    loose       \* spin timers of textures that are no more

pageVars == <<page, comments, loose>>

\* Actors that are destroyed with the list, and with the comments.
ListActors == {"comment", "usericon"}
CommentsActors == ListActors \cup {"comments"}

\* The list is NULL when there is none: not yet, or no more.
NewComments == [lock |-> FALSE, list |-> NULL, expanded |-> {}, spin |-> NewTexture]

\* gnome_app_comments_set_lock: locked comments are hidden behind the spin; to
\* lock them twice changes nothing.
SetLock(c, lock) ==
    IF c.lock = lock THEN c
    ELSE [c EXCEPT !.lock = lock, !.spin = IF lock THEN Start(@) ELSE Stop(@)]

\* Mutant of Load: the entries of the old comments stay open.
LoadKeepsEntries(c, number) == [c EXCEPT !.list = number]

\* gnome_app_comments_load: the old comments go in any case.
Load(c, number) == [c EXCEPT !.list = number, !.expanded = {}]

\* set_user_icon, for every comment of the list.
UserIcons(number) ==
    IF number = NULL \/ Known("person", NULL) THEN <<>>
    ELSE [i \in 1 .. number |-> Ask("person", NULL, "usericon")]

\* A push of priv->task: what becomes of the comments, and what is asked for.
AskFor(c) ==
    IF Known("comments", NULL)
    THEN LET number == stored[<<"comments", NULL>>] IN
         [comments |-> Load(c, number), asked |-> UserIcons(number), dead |-> ListActors]
    ELSE [comments |-> SetLock(c, TRUE), asked |-> <<Ask("comments", NULL, "comments")>>,
          dead |-> {}]

\* The timers of comments that are destroyed go on with a texture that is freed;
\* gnome_app_comments_finalize writes to it when they are locked.
LooseAfter == loose + (IF comments = NULL THEN 0 ELSE comments.spin.timers)
FinalizeEnds == IF comments # NULL /\ comments.lock THEN BOOLEAN ELSE {FALSE}

(***************************************************************************)
(* The user.                                                                *)
(***************************************************************************)

\* A comment that is not "blank"; the empty one is not.
OnCommentButtonPress ==
    /\ page # NULL /\ ~page.lock
    /\ Clicks
    /\ page' = [page EXCEPT !.lock = TRUE]
    /\ queue' = <<Ask("comment", NULL, "page")>> \o queue
    /\ UNCHANGED <<hand, serverVars, comments, loose, ended>>

Visible == comments # NULL /\ ~comments.lock /\ comments.list # NULL

\* Shows the entry of a comment or hides it; the submit button is there in any
\* case, if only to be found.
OnReplyButtonPress ==
    /\ Visible
    /\ Clicks
    /\ \E i \in 1 .. comments.list :
          comments' = [comments EXCEPT !.expanded =
                           IF i \in @ THEN @ \ {i} ELSE @ \cup {i}]
    /\ UNCHANGED <<workVars, serverVars, page, loose, ended>>

OnSubmitButtonPress ==
    /\ Visible /\ comments.list > 0
    /\ Clicks
    /\ queue' = <<Ask("reply", NULL, "comment")>> \o queue
    /\ UNCHANGED <<hand, serverVars, pageVars, ended>>

(***************************************************************************)
(* Answers.                                                                 *)
(***************************************************************************)

\* set_comments_callback
CommentsCallback ==
    /\ At("callback") /\ hand.task.owner = "comments"
    /\ LET number == IF hand.ok THEN hand.number ELSE NULL IN
       /\ comments' = Load(comments, number)
       /\ CalledBack(UserIcons(number), ListActors)
    /\ UNCHANGED <<serverVars, page, loose, clicks, ended>>

\* comment_reply_callback, and on_comment_refresh_cb of the comments.
ReplyCallback ==
    /\ At("callback") /\ hand.task.owner = "comment"
    /\ IF hand.ok
       THEN LET a == AskFor(comments) IN
            comments' = a.comments /\ CalledBack(a.asked, a.dead)
       ELSE CalledBack(<<>>, {}) /\ UNCHANGED comments
    /\ UNCHANGED <<serverVars, page, loose, clicks, ended>>

\* comment_callback of the info page.
CommentCallback ==
    /\ At("callback") /\ hand.task.owner = "page"
    /\ IF hand.ok
       THEN LET a == AskFor(NewComments) IN
            /\ comments' = a.comments /\ loose' = LooseAfter
            /\ CalledBack(a.asked, CommentsActors)
            /\ ended' \in FinalizeEnds
       ELSE CalledBack(<<>>, {}) /\ UNCHANGED <<comments, loose, ended>>
    /\ UNCHANGED <<serverVars, page, clicks>>

\* _set_user_icon_1: the picture is for Pictures to fetch.
UserIconCallback ==
    /\ At("callback") /\ hand.task.owner = "usericon"
    /\ CalledBack(<<>>, {})
    /\ UNCHANGED <<serverVars, pageVars, clicks, ended>>

\* Mutant of Unlocked: only an answer that is good unlocks.
UnlockedIfGood(c) == IF hand.ok THEN SetLock(c, FALSE) ELSE c

Unlocked(c) == SetLock(c, FALSE)

\* The end of task_callback, out of the application lock; an owner without a
\* "lock-status" is left alone.
Unlock ==
    /\ At("unlock") /\ hand.task.owner # "gone"
    /\ hand' = NULL
    /\ comments' = IF hand.task.owner = "comments" THEN Unlocked(comments) ELSE comments
    /\ page' = IF hand.task.owner = "page" THEN [page EXCEPT !.lock = FALSE] ELSE page
    /\ UNCHANGED <<queue, serverVars, loose, clicks, ended>>

(***************************************************************************)
(* The spin timers.                                                         *)
(***************************************************************************)

SpinTimeout ==
    /\ comments # NULL /\ comments.spin.timers > 0
    /\ comments' = [comments EXCEPT !.spin = Timeout(@)]
    /\ UNCHANGED <<workVars, serverVars, page, loose, clicks, ended>>

\* What a timer reads of a freed texture ends the timer or the program; that it
\* goes on is no step.
LooseTimeout ==
    /\ loose > 0
    /\ \/ loose' = loose - 1 /\ UNCHANGED ended
       \/ ended' = TRUE /\ UNCHANGED loose
    /\ UNCHANGED <<workVars, serverVars, page, comments, clicks>>

Spins == [status : {"INIT", "START", "STOP"}, shown : BOOLEAN, timers : Nat]
CommentLists == [lock : BOOLEAN, list : Nat \cup {NULL}, expanded : SUBSET Nat, spin : Spins]

CommentsType ==
    /\ page \in [lock : BOOLEAN] \cup {NULL}
    /\ loose \in Nat
    /\ comments \in CommentLists \cup {NULL}
    /\ comments # NULL =>
         comments.expanded \subseteq IF comments.list = NULL THEN {} ELSE 1 .. comments.list
=============================================================================
