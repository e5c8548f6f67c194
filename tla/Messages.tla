------------------------------ MODULE Messages ------------------------------
(***************************************************************************)
(* The dialogs an account opens over the frame: the user's messages, by     *)
(* folder (gnome-app-message.c), and the user's friends                     *)
(* (gnome-app-friends.c).  The account of a user who is logged in opens     *)
(* another dialog at every press.                                           *)
(***************************************************************************)
EXTENDS Requests

CONSTANTS
    Boxes,          \* dialogs that may be open at a time
    Folders,
    Default,        \* the folder "0"
    Full,           \* the folders that have a message
    Friends         \* number of friends

ASSUME FolderAssumption == Default \in Folders /\ Full \subseteq Folders /\ NULL \notin Folders
ASSUME FriendAssumption == Friends \in Nat

VARIABLE boxes      \* what each dialog shows, or NULL

\* The folder that is pressed, the one whose messages are listed, the one the
\* open message is of; overtaken tells of a request that is served too late.
NewBox(kind) == [kind |-> kind, ready |-> FALSE, folder |-> NULL, list |-> NULL,
                 open |-> NULL, overtaken |-> FALSE]

IsOpen(b, kind) == boxes[b] # NULL /\ boxes[b].kind = kind

(***************************************************************************)
(* Friends.                                                                 *)
(***************************************************************************)

\* add_friend for every friend; the person is asked for where not yet known.
AskFriends(b) ==
    IF Known("person", NULL) THEN <<>>
    ELSE [i \in 1 .. Friends |-> Ask("person", NULL, b)]

\* The userdata of such a task, FriendData, is no GObject, but its class is
\* looked at when the task is queued and when it has been called back.
NoObject(asked) == IF asked = <<>> THEN {FALSE} ELSE BOOLEAN

\* set_friends_callback; the close button comes with a good answer.
FriendsAnswered(box, ok) == [box EXCEPT !.ready = ok]

(***************************************************************************)
(* Messages.                                                                *)
(***************************************************************************)

\* Mutant of FolderAnswered: the list is only cleaned for another one.
FolderCleanedIfGood(box, f, ok) == [box EXCEPT !.list = IF ok THEN f ELSE @]

\* message_folder_callback
FolderAnswered(box, f, ok) == [box EXCEPT !.list = IF ok THEN f ELSE NULL]

\* The folder is asked for, and another one, asked for earlier, comes later.
Overtaken(b, f) ==
    Waits("folder", b) \/ (InHand("folder", b) /\ Known("folder", f))

\* A push of the folder's request.
AskFolder(b, box, f) ==
    LET asking == [box EXCEPT !.folder = f, !.overtaken = Overtaken(b, f)] IN
    IF Known("folder", f)
    THEN [box |-> FolderAnswered(asking, f, TRUE), asked |-> <<>>]
    ELSE [box |-> asking, asked |-> <<Ask("folder", f, b)>>]

\* set_message_callback, and set_default_message_list_box.
MessagesAnswered(b, box, ok) ==
    IF ok THEN AskFolder(b, [box EXCEPT !.ready = TRUE], Default)
    ELSE [box |-> box, asked |-> <<>>]

(***************************************************************************)
(* The user.                                                                *)
(***************************************************************************)

\* gnome_app_friends_new and gnome_app_message_new.
FriendsOf(b) ==
    IF ~Known("friends", NULL)
    THEN [box |-> NewBox("friends"), asked |-> <<Ask("friends", NULL, b)>>]
    ELSE [box |-> FriendsAnswered(NewBox("friends"), TRUE), asked |-> AskFriends(b)]

MessagesOf(b) ==
    IF ~Known("folders", NULL)
    THEN [box |-> NewBox("messages"), asked |-> <<Ask("folders", NULL, b)>>]
    ELSE MessagesAnswered(b, NewBox("messages"), TRUE)

Opens(b, a) ==
    /\ boxes[b] = NULL
    /\ Clicks
    /\ boxes' = [boxes EXCEPT ![b] = a.box]
    /\ queue' = a.asked \o queue
    /\ UNCHANGED <<hand, serverVars>>

OnFriendsPress(b) ==
    /\ Opens(b, FriendsOf(b))
    /\ ended' \in IF Known("friends", NULL) THEN NoObject(AskFriends(b)) ELSE {FALSE}

OnMessagePress(b) == Opens(b, MessagesOf(b)) /\ UNCHANGED ended

\* on_folder_press; the folder that is pressed already is not asked for again.
OnFolderPress(b, f) ==
    /\ IsOpen(b, "messages") /\ boxes[b].ready
    /\ f # boxes[b].folder
    /\ Clicks
    /\ LET a == AskFolder(b, boxes[b], f) IN
       boxes' = [boxes EXCEPT ![b] = a.box] /\ queue' = a.asked \o queue
    /\ UNCHANGED <<hand, serverVars, ended>>

\* on_message_press of the list: the message takes the place of the one before.
OnMessageRowPress(b) ==
    /\ IsOpen(b, "messages") /\ boxes[b].list \in Full
    /\ Clicks
    /\ boxes' = [boxes EXCEPT ![b].open = boxes[b].list]
    /\ UNCHANGED <<workVars, serverVars, ended>>

\* on_close_press of either dialog.
OnClosePress(b) ==
    /\ boxes[b] # NULL /\ boxes[b].ready
    /\ Clicks
    /\ boxes' = [boxes EXCEPT ![b] = NULL]
    /\ queue' = QueueAfter(<<>>, {b}) /\ hand' = HandAfter({b})
    /\ UNCHANGED <<serverVars, ended>>

(***************************************************************************)
(* Answers.                                                                 *)
(***************************************************************************)

BoxCallback ==
    /\ At("callback") /\ hand.task.owner \in Boxes
    /\ LET b == hand.task.owner
           box == boxes[b]
           a == CASE hand.task.what = "folders" -> MessagesAnswered(b, box, hand.ok)
                  [] hand.task.what = "folder" ->
                        [box |-> FolderAnswered(box, hand.task.of, hand.ok), asked |-> <<>>]
                  [] hand.task.what = "friends" ->
                        [box |-> FriendsAnswered(box, hand.ok),
                         asked |-> IF hand.ok THEN AskFriends(b) ELSE <<>>]
                  [] hand.task.what = "person" -> [box |-> box, asked |-> <<>>]
       IN  /\ boxes' = [boxes EXCEPT ![b] = a.box]
           /\ CalledBack(a.asked, {})
           /\ ended' \in IF hand.task.what = "person" THEN BOOLEAN
                         ELSE IF hand.task.what = "friends" THEN NoObject(a.asked) ELSE {FALSE}
    /\ UNCHANGED <<serverVars, clicks>>

OpenBoxes == [kind : {"messages", "friends"}, ready : BOOLEAN,
              folder : Folders \cup {NULL}, list : Folders \cup {NULL},
              open : Folders \cup {NULL}, overtaken : BOOLEAN]

MessagesType == boxes \in [Boxes -> OpenBoxes \cup {NULL}]
=============================================================================
