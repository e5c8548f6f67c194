------------------------------- MODULE Dialogs ------------------------------
(***************************************************************************)
(* The info page with its comments and downloads, or the frame with the     *)
(* dialogs of its account, over one worker, one proxy and one server.       *)
(*                                                                         *)
(* Handlers and callbacks run under the application lock; the unlocking     *)
(* that follows a callback does not, so a handler may come in between.      *)
(***************************************************************************)
EXTENDS Comments, Downloads, Messages

vars == <<workVars, serverVars, pageVars, download, boxes, clicks, ended>>

\* The actors that are destroyed with the page.
PageActors == CommentsActors \cup {"page", "download"}

Owners == Boxes \cup PageActors \cup {"gone"}
Whats == Posts \cup {"comments", "person", "item", "folders", "folder", "friends"}
Ofs == (1 .. Links) \cup Folders \cup {NULL}
Tasks == [what : Whats, of : Ofs, owner : Owners]
Sales == [link : 1 .. Links, answered : BOOLEAN]
Hands == [task : Tasks, step : {"call", "callback", "unlock"}, ok : BOOLEAN, number : Nat]

ASSUME OwnerAssumption ==
    /\ NULL \notin Boxes \cup Hands \cup CommentLists \cup OpenBoxes
    /\ Boxes \cap (PageActors \cup {"gone"}) = {}

Init ==
    /\ InitRequests
    /\ page = NULL /\ comments = NULL /\ loose = 0
    /\ download = NULL
    /\ boxes = [b \in Boxes |-> NULL]

(***************************************************************************)
(* From the frame to a page and back.                                       *)
(***************************************************************************)

\* on_info_icon_event, and gnome_app_info_page_set_with_data with load_comments.
OpenPage ==
    /\ page = NULL
    /\ Clicks
    /\ page' = [lock |-> FALSE]
    /\ LET a == AskFor(NewComments) IN
       comments' = a.comments /\ queue' = QueueAfter(a.asked, Boxes)
    /\ download' = NewDownload
    /\ boxes' = [b \in Boxes |-> NULL]
    /\ hand' = HandAfter(Boxes)
    /\ UNCHANGED <<serverVars, loose, ended>>

\* on_return_button_press: the button does not react while the page is locked.
OnReturnButtonPress ==
    /\ page # NULL /\ ~page.lock
    /\ Clicks
    /\ page' = NULL /\ comments' = NULL /\ download' = NULL
    /\ loose' = LooseAfter
    /\ ended' \in FinalizeEnds
    /\ queue' = QueueAfter(<<>>, PageActors) /\ hand' = HandAfter(PageActors)
    /\ UNCHANGED <<serverVars, boxes>>

(***************************************************************************)
(* A task whose owner is gone.                                              *)
(***************************************************************************)

\* The callback or the unlocking of an actor that is freed.
GoneCallback ==
    /\ At("callback") \/ At("unlock")
    /\ hand.task.owner = "gone"
    /\ hand' = NULL
    /\ ended' \in BOOLEAN
    /\ excused' = (excused \/ hand.task.what \in Posts)
    /\ UNCHANGED <<queue, stored, server, told, paid, pageVars, download, boxes, clicks>>

User ==
    \/ OpenPage \/ OnReturnButtonPress
    \/ /\ OnCommentButtonPress \/ OnReplyButtonPress \/ OnSubmitButtonPress
       /\ UNCHANGED <<download, boxes>>
    \/ /\ OnDownloadButtonPress \/ \E i \in 1 .. Links : OnDownloadItemPress(i)
       /\ UNCHANGED <<pageVars, boxes>>
    \/ /\ page = NULL
       /\ \E b \in Boxes : \/ OnFriendsPress(b) \/ OnMessagePress(b)
                           \/ \E f \in Folders : OnFolderPress(b, f)
                           \/ OnMessageRowPress(b) \/ OnClosePress(b)
       /\ UNCHANGED <<pageVars, download>>

Worker ==
    /\ ~ended
    /\ \/ /\ WorkerTakes \/ Get \/ Post
          /\ UNCHANGED <<pageVars, download, boxes>>
       \/ /\ CommentsCallback \/ ReplyCallback \/ CommentCallback \/ UserIconCallback
             \/ Unlock
          /\ UNCHANGED <<download, boxes>>
       \/ DownloadCallback /\ UNCHANGED <<pageVars, boxes>>
       \/ BoxCallback /\ UNCHANGED <<pageVars, download>>
       \/ GoneCallback

Timers == ~ended /\ (SpinTimeout \/ LooseTimeout) /\ UNCHANGED <<download, boxes>>

Next == User \/ Worker \/ Timers

Spec == Init /\ [][Next]_vars

\* The worker's thread runs, a call returns or fails, and the main loop serves
\* its timers.
FairSpec == Spec /\ WF_vars(Worker) /\ WF_vars(Timers)

-----------------------------------------------------------------------------
\* Every variable is of its type, and an entry that is open is of a comment that
\* is listed.
TypeOK ==
    /\ queue \in Seq(Tasks)
    /\ hand \in Hands \cup {NULL}
    /\ DOMAIN stored \subseteq (Whats \ Posts) \X Ofs
    /\ \A k \in DOMAIN stored : stored[k] \in Nat
    /\ {server, told} \subseteq Nat
    /\ paid \in Seq(Sales)
    /\ {excused, ended} \subseteq BOOLEAN
    /\ clicks \in 0 .. MaxClicks
    /\ CommentsType /\ DownloadType /\ MessagesType

\* However often a price is pressed before and after its link is known, from
\* whichever page, a link is not sold again once the answer to a sale has come.
\* One that is sold without an answer may be sold again at the next press.
PaidOnce ==
    \A i, j \in DOMAIN paid : i < j /\ paid[i].link = paid[j].link => ~paid[i].answered

\* Comments that are hidden behind the spin wait for an answer that is still to
\* come, and the spin turns; those that are shown have none that turns.
LockedWhileAsked ==
    comments # NULL =>
        IF comments.lock
        THEN /\ Pending("comments", "comments")
             /\ comments.spin.status = "START" /\ comments.spin.timers > 0
        ELSE comments.spin.status # "START"

\* When nothing more is to come, the comments that are listed have every comment
\* and reply the server agreed to; not if an answer was lost or came to nobody.
FreshWhenQuiet ==
    comments # NULL /\ queue = <<>> /\ hand = NULL /\ ~excused =>
        comments.list = NULL \/ comments.list >= told

\* When nothing more is to come, the messages that are listed are those of the
\* folder that was pressed last; not if that one overtook another.
ListFits ==
    \A b \in Boxes :
        IsOpen(b, "messages") /\ ~boxes[b].overtaken /\ ~Pending("folder", b) =>
            boxes[b].list \in {NULL, boxes[b].folder}

\* The spin does not turn for ever: its comments are shown, or gone.
SpinStops == []<>(ended \/ comments = NULL \/ comments.spin.timers = 0)
=============================================================================
