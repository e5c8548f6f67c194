---------------------------- MODULE DialogsProofs ---------------------------
(***************************************************************************)
(* Proofs about the dialogs, for any number of links, folders, friends,     *)
(* comments, dialogs and clicks.                                            *)
(*                                                                         *)
(* That every variable keeps its type is no matter of shapes alone: an      *)
(* answer is written into the actor that asked, so the actor has to be      *)
(* there, and to be of the kind that asks for this.  Served says so of      *)
(* every task that waits or is in hand, and whatever destroys actors has to *)
(* keep it up.                                                              *)
(*                                                                         *)
(* What a dialog shows when nothing more is to come follows from what may   *)
(* still be to come for what it shows now: FreshInv says so of the list of  *)
(* the comments, and ListInv of the messages of a folder.                   *)
(***************************************************************************)
EXTENDS Dialogs, TLAPS

BoxRequests == {"folders", "folder", "friends", "person"}

\* The actor the task is for is there, or known to be gone.
Served(task) ==
    \/ task.owner = "gone"
    \/ task.owner = "page" /\ page \in [lock : BOOLEAN]
    \/ task.owner \in CommentsActors /\ comments \in CommentLists
    \/ task.owner = "download" /\ download \in DownloadLists
    \/ /\ task.owner \in Boxes /\ boxes[task.owner] \in OpenBoxes
       /\ task.what \in BoxRequests

\* What is asked for is there to be asked for, and asked by those who may.
OfItsKind(task) ==
    /\ task.what = "item" => task.of \in 1 .. Links
    /\ task.what = "folder" => task.of \in Folders
    /\ task.what \in Posts => task.owner \in {"page", "comment", "gone"}
    /\ task.owner = "comments" => task.what = "comments" /\ task.of = NULL

Good == {task \in Tasks : Served(task) /\ OfItsKind(task)}

\* The inductive invariant of the types.
TypeInv ==
    /\ TypeOK
    /\ queue \in Seq(Good)
    /\ hand # NULL => hand.task \in Good

-----------------------------------------------------------------------------
(***************************************************************************)
(* Tasks, and what becomes of them when actors are destroyed.               *)
(***************************************************************************)

\* The actors that are not in dead are still there in the next state.
Kept(dead) ==
    /\ "page" \in dead \/ (page \in [lock : BOOLEAN] => page' \in [lock : BOOLEAN])
    /\ CommentsActors \subseteq dead \/ (comments \in CommentLists => comments' \in CommentLists)
    /\ "download" \in dead \/ (download \in DownloadLists => download' \in DownloadLists)
    /\ \A b \in Boxes : b \in dead \/ (boxes[b] \in OpenBoxes => boxes'[b] \in OpenBoxes)

\* A task keeps everything but an owner that is dead.
LEMMA OrphanOf ==
    ASSUME NEW task \in Tasks, NEW dead
    PROVE  /\ Orphan(task, dead) \in Tasks
           /\ Orphan(task, dead).what = task.what
           /\ Orphan(task, dead).of = task.of
           /\ Orphan(task, dead).owner = IF task.owner \in dead THEN "gone" ELSE task.owner
  BY DEF Orphan, Tasks, Owners

LEMMA GoodAfter ==
    ASSUME NEW dead, Kept(dead), NEW task \in Good
    PROVE  Orphan(task, dead) \in Good'
<1>1. task \in Tasks /\ Served(task) /\ OfItsKind(task)
  BY DEF Good
<1> DEFINE after == Orphan(task, dead)
<1>2. /\ after \in Tasks /\ after.what = task.what /\ after.of = task.of
      /\ after.owner = IF task.owner \in dead THEN "gone" ELSE task.owner
  BY <1>1, OrphanOf
<1> HIDE DEF after
<1>3. OfItsKind(after)
  BY <1>1, <1>2 DEF OfItsKind
<1>4. Served(after)'
  BY <1>1, <1>2 DEF Served, Kept
<1> QED
  BY <1>2, <1>3, <1>4 DEF Good, after, OfItsKind

\* The queue after a push of what was asked for.
LEMMA QueueAfterGood ==
    ASSUME NEW dead, Kept(dead), queue \in Seq(Good), NEW asked \in Seq(Good')
    PROVE  QueueAfter(asked, dead) \in Seq(Good')
<1>1. [i \in DOMAIN queue |-> Orphan(queue[i], dead)] \in Seq(Good')
  BY GoodAfter
<1> QED
  BY <1>1 DEF QueueAfter

LEMMA HandAfterGood ==
    ASSUME NEW dead, Kept(dead), TypeInv
    PROVE  /\ HandAfter(dead) \in Hands \cup {NULL}
           /\ hand # NULL => HandAfter(dead) \in Hands /\ HandAfter(dead).task \in Good'
<1>1. CASE hand = NULL
  BY <1>1 DEF HandAfter
<1>2. CASE hand # NULL
  <2>1. hand \in Hands /\ hand.task \in Good
    BY <1>2 DEF TypeInv, TypeOK
  <2>2. Orphan(hand.task, dead) \in Good' /\ Orphan(hand.task, dead) \in Tasks
    BY <2>1, GoodAfter, OrphanOf DEF Hands
  <2> QED
    BY <1>2, <2>1, <2>2 DEF HandAfter, Hands
<1> QED
  BY <1>1, <1>2

\* Good tasks are tasks.
LEMMA GoodTyped == ASSUME NEW s \in Seq(Good') PROVE s \in Seq(Tasks)
  BY DEF Good

(***************************************************************************)
(* What is asked for.                                                       *)
(***************************************************************************)

\* No dialog is one of the actors of the page.
LEMMA BoxesApart ==
    ASSUME NEW b \in Boxes
    PROVE  b \notin {"page", "comment", "usericon", "comments", "download", "gone"}
  BY OwnerAssumption DEF PageActors, CommentsActors, ListActors

\* One request, of the only item there is to ask for.
LEMMA AskedGood ==
    ASSUME NEW what \in Whats, NEW of \in Ofs, NEW owner \in Owners,
           Served(Ask(what, of, owner))', OfItsKind(Ask(what, of, owner))
    PROVE  Ask(what, of, owner) \in Good' /\ <<Ask(what, of, owner)>> \in Seq(Good')
  BY DEF Good, Tasks, Ask, OfItsKind

\* The picture of the user of every comment.
LEMMA UserIconsGood ==
    ASSUME NEW number \in Nat \cup {NULL}, (comments \in CommentLists)'
    PROVE  UserIcons(number) \in Seq(Good')
<1>1. Ask("person", NULL, "usericon") \in Good'
  BY DEF Good, Tasks, Ask, Served, OfItsKind, Whats, Posts, Ofs, Owners, PageActors,
         CommentsActors, ListActors
<1>2. CASE number = NULL \/ Known("person", NULL)
  BY <1>2 DEF UserIcons
<1>3. CASE ~(number = NULL \/ Known("person", NULL))
  <2>1. UserIcons(number) = [i \in 1 .. number |-> Ask("person", NULL, "usericon")]
    BY <1>3 DEF UserIcons
  <2>2. number \in Nat
    BY <1>3
  <2> QED
    BY <1>1, <2>1, <2>2
<1> QED
  BY <1>2, <1>3

\* A list whose open entries are of comments it has.
Fits(c) == c.expanded \subseteq IF c.list = NULL THEN {} ELSE 1 .. c.list

LEMMA LockTyped ==
    ASSUME NEW c \in CommentLists, Fits(c), NEW lock \in BOOLEAN
    PROVE  SetLock(c, lock) \in CommentLists /\ Fits(SetLock(c, lock))
<1> DEFINE spin == IF lock THEN Start(c.spin) ELSE Stop(c.spin)
<1>1. c.spin \in Spins
  BY DEF CommentLists
<1>2. spin \in Spins
  <2>1. Start(c.spin) \in Spins
    BY <1>1 DEF Spins, Start
  <2>2. Stop(c.spin) \in Spins
    BY <1>1 DEF Spins, Stop
  <2> QED
    BY <2>1, <2>2
<1>3. SetLock(c, lock) = IF c.lock = lock THEN c ELSE [c EXCEPT !.lock = lock, !.spin = spin]
  BY DEF SetLock
<1> HIDE DEF spin
<1> QED
  BY <1>2, <1>3 DEF CommentLists, Fits

LEMMA LoadTyped ==
    ASSUME NEW c \in CommentLists, NEW number \in Nat \cup {NULL}
    PROVE  Load(c, number) \in CommentLists /\ Fits(Load(c, number))
  BY DEF Load, CommentLists, Fits

LEMMA NewTyped == NewComments \in CommentLists /\ Fits(NewComments)
  BY DEF NewComments, NewTexture, CommentLists, Spins, Fits

\* A push of the task of the comments.
LEMMA AskForGood ==
    ASSUME TypeInv, NEW c \in CommentLists, Fits(c)
    PROVE  /\ AskFor(c).comments \in CommentLists /\ Fits(AskFor(c).comments)
           /\ (comments \in CommentLists)' => AskFor(c).asked \in Seq(Good')
           /\ AskFor(c).dead \in {{}, ListActors}
<1>1. CASE Known("comments", NULL)
  <2> DEFINE number == stored[<<"comments", NULL>>]
  <2>1. number \in Nat
    BY <1>1 DEF Known, TypeInv, TypeOK
  <2>2. AskFor(c) = [comments |-> Load(c, number), asked |-> UserIcons(number),
                     dead |-> ListActors]
    BY <1>1 DEF AskFor
  <2> HIDE DEF number
  <2> QED
    BY <2>1, <2>2, LoadTyped, UserIconsGood
<1>2. CASE ~Known("comments", NULL)
  <2>1. AskFor(c) = [comments |-> SetLock(c, TRUE),
                     asked |-> <<Ask("comments", NULL, "comments")>>, dead |-> {}]
    BY <1>2 DEF AskFor
  <2>2. (comments \in CommentLists)' => <<Ask("comments", NULL, "comments")>> \in Seq(Good')
    BY DEF Good, Tasks, Ask, Served, OfItsKind, Whats, Posts, Ofs, Owners, PageActors,
           CommentsActors, ListActors
  <2>3. SetLock(c, TRUE) \in CommentLists /\ Fits(SetLock(c, TRUE))
    BY LockTyped
  <2>4. /\ AskFor(c).comments = SetLock(c, TRUE)
        /\ AskFor(c).asked = <<Ask("comments", NULL, "comments")>>
        /\ AskFor(c).dead = {}
    BY <2>1
  <2> QED
    BY <2>2, <2>3, <2>4
<1> QED
  BY <1>1, <1>2

\* The persons behind the friends.
LEMMA AskFriendsGood ==
    ASSUME NEW b \in Boxes, (boxes[b] \in OpenBoxes)'
    PROVE  AskFriends(b) \in Seq(Good')
<1>1. Ask("person", NULL, b) \in Good'
  BY BoxesApart
  DEF Good, Tasks, Ask, Served, OfItsKind, Whats, Posts, Ofs, Owners, BoxRequests
<1>2. Friends \in Nat
  BY FriendAssumption
<1> QED
  BY <1>1, <1>2 DEF AskFriends

\* The messages of a folder.
LEMMA AskFolderGood ==
    ASSUME NEW b \in Boxes, NEW box \in OpenBoxes, NEW f \in Folders
    PROVE  /\ AskFolder(b, box, f).box \in OpenBoxes
           /\ (boxes[b] \in OpenBoxes)' => AskFolder(b, box, f).asked \in Seq(Good')
<1>1. Overtaken(b, f) \in BOOLEAN
  BY DEF Overtaken, Waits, InHand
<1>2. (boxes[b] \in OpenBoxes)' => <<Ask("folder", f, b)>> \in Seq(Good')
  BY BoxesApart
  DEF Good, Tasks, Ask, Served, OfItsKind, Whats, Posts, Ofs, Owners, BoxRequests
<1> DEFINE asking == [box EXCEPT !.folder = f, !.overtaken = Overtaken(b, f)]
<1>3. asking \in OpenBoxes
  BY <1>1 DEF OpenBoxes
<1> HIDE DEF asking
<1>4. FolderAnswered(asking, f, TRUE) \in OpenBoxes
  BY <1>3 DEF FolderAnswered, OpenBoxes
<1>5. AskFolder(b, box, f) =
          IF Known("folder", f)
          THEN [box |-> FolderAnswered(asking, f, TRUE), asked |-> <<>>]
          ELSE [box |-> asking, asked |-> <<Ask("folder", f, b)>>]
  BY DEF AskFolder, asking
<1>6. CASE Known("folder", f)
  <2>1. /\ AskFolder(b, box, f).box = FolderAnswered(asking, f, TRUE)
        /\ AskFolder(b, box, f).asked = <<>>
    BY <1>5, <1>6
  <2>2. <<>> \in Seq(Good')
    OBVIOUS
  <2> QED
    BY <1>4, <2>1, <2>2
<1>7. CASE ~Known("folder", f)
  <2>1. /\ AskFolder(b, box, f).box = asking
        /\ AskFolder(b, box, f).asked = <<Ask("folder", f, b)>>
    BY <1>5, <1>7
  <2> QED
    BY <1>2, <1>3, <2>1
<1> QED
  BY <1>6, <1>7

LEMMA MessagesAnsweredGood ==
    ASSUME NEW b \in Boxes, NEW box \in OpenBoxes, NEW ok \in BOOLEAN
    PROVE  /\ MessagesAnswered(b, box, ok).box \in OpenBoxes
           /\ (boxes[b] \in OpenBoxes)' => MessagesAnswered(b, box, ok).asked \in Seq(Good')
<1>1. [box EXCEPT !.ready = TRUE] \in OpenBoxes /\ Default \in Folders
  BY FolderAssumption DEF OpenBoxes
<1> QED
  BY <1>1, AskFolderGood DEF MessagesAnswered

-----------------------------------------------------------------------------
(***************************************************************************)
(* Type correctness.                                                        *)
(***************************************************************************)

\* The parts of the invariant: the way of the requests, the server with its
\* proxy, the actors, and the count of what the user does.
WorkOK ==
    /\ queue \in Seq(Good)
    /\ hand \in Hands \cup {NULL}
    /\ hand # NULL => hand.task \in Good

ServerOK ==
    /\ DOMAIN stored \subseteq (Whats \ Posts) \X Ofs
    /\ \A k \in DOMAIN stored : stored[k] \in Nat
    /\ {server, told} \subseteq Nat
    /\ paid \in Seq(Sales)
    /\ excused \in BOOLEAN

ActorsOK == CommentsType /\ DownloadType /\ MessagesType

CountOK == clicks \in 0 .. MaxClicks /\ ended \in BOOLEAN

LEMMA PartsOfTypeInv == TypeInv <=> WorkOK /\ ServerOK /\ ActorsOK /\ CountOK
<1>1. queue \in Seq(Good) => queue \in Seq(Tasks)
  BY DEF Good
<1> QED
  BY <1>1 DEF TypeInv, TypeOK, WorkOK, ServerOK, ActorsOK, CountOK

\* The same of the next state.
LEMMA PartsAfter == WorkOK' /\ ServerOK' /\ ActorsOK' /\ CountOK' => TypeInv'
<1>1. queue' \in Seq(Good') => queue' \in Seq(Tasks)
  BY DEF Good
<1> QED
  BY <1>1 DEF TypeInv, TypeOK, WorkOK, ServerOK, ActorsOK, CountOK

\* The requests after a callback, after the user's asking, after the end of
\* actors, and after a step that has nothing to do with them.
LEMMA CalledBackTyped ==
    ASSUME TypeInv, hand # NULL, NEW dead, Kept(dead), NEW asked \in Seq(Good'),
           CalledBack(asked, dead)
    PROVE  WorkOK'
<1>1. queue' \in Seq(Good')
  BY QueueAfterGood DEF CalledBack, TypeInv
<1>2. HandAfter(dead) \in Hands /\ HandAfter(dead).task \in Good'
  BY HandAfterGood
<1>3. hand' = [HandAfter(dead) EXCEPT !.step = "unlock"]
  BY DEF CalledBack
<1>4. hand' \in Hands /\ hand'.task \in Good'
  BY <1>2, <1>3 DEF Hands
<1> QED
  BY <1>1, <1>4 DEF WorkOK

LEMMA AliveStayGood ==
    ASSUME Kept({}), NEW task \in Good
    PROVE  task \in Good'
<1>1. Orphan(task, {}) \in Good'
  BY GoodAfter
<1> QED
  BY <1>1 DEF Orphan

LEMMA AskedTyped ==
    ASSUME TypeInv, Kept({}), NEW asked \in Seq(Good'), queue' = asked \o queue,
           UNCHANGED hand
    PROVE  WorkOK'
<1>1. queue \in Seq(Good')
  BY AliveStayGood DEF TypeInv
<1>2. hand' # NULL => hand'.task \in Good'
  BY AliveStayGood DEF TypeInv
<1> QED
  BY <1>1, <1>2 DEF WorkOK, TypeInv, TypeOK

LEMMA DestroyedTyped ==
    ASSUME TypeInv, NEW dead, Kept(dead), NEW asked \in Seq(Good'),
           queue' = QueueAfter(asked, dead), hand' = HandAfter(dead)
    PROVE  WorkOK'
<1>1. queue' \in Seq(Good')
  BY QueueAfterGood DEF TypeInv
<1>2. hand' \in Hands \cup {NULL}
  BY HandAfterGood
<1>3. CASE hand = NULL
  BY <1>1, <1>3 DEF HandAfter, WorkOK
<1>4. CASE hand # NULL
  BY <1>1, <1>2, <1>4, HandAfterGood DEF WorkOK
<1> QED
  BY <1>3, <1>4

LEMMA UntouchedTyped ==
    ASSUME TypeInv, Kept({}), UNCHANGED workVars
    PROVE  WorkOK'
<1>1. queue \in Seq(Good')
  BY AliveStayGood DEF TypeInv
<1>2. hand' # NULL => hand'.task \in Good'
  BY AliveStayGood DEF TypeInv, workVars
<1> QED
  BY <1>1, <1>2 DEF WorkOK, TypeInv, TypeOK, workVars

LEMMA ServerUntouched == ASSUME TypeInv, UNCHANGED serverVars PROVE ServerOK'
  BY DEF TypeInv, TypeOK, ServerOK, serverVars

LEMMA ClickTyped == ASSUME TypeInv, Clicks, ended' \in BOOLEAN PROVE CountOK'
  BY ClickAssumption DEF TypeInv, TypeOK, Clicks, CountOK

LEMMA NoClick == ASSUME TypeInv, UNCHANGED clicks, ended' \in BOOLEAN PROVE CountOK'
  BY DEF TypeInv, TypeOK, CountOK

LEMMA NothingAsked == <<>> \in Seq(Good')
  OBVIOUS

LEMMA InitTyped == Init => TypeInv
<1> SUFFICES ASSUME Init PROVE TypeInv
  OBVIOUS
<1>1. WorkOK
  BY DEF Init, InitRequests, WorkOK
<1>2. ServerOK
  <2>1. stored = << >> /\ paid = <<>> /\ server = 1 /\ told = 1 /\ excused = FALSE
    BY DEF Init, InitRequests
  <2>2. DOMAIN stored = {}
    BY <2>1
  <2>3. {server, told} \subseteq Nat
    BY <2>1
  <2>4. <<>> \in Seq(Sales)
    OBVIOUS
  <2> QED
    BY <2>1, <2>2, <2>3, <2>4, Zenon DEF ServerOK
<1>3. ActorsOK
  BY DEF Init, ActorsOK, CommentsType, DownloadType, MessagesType
<1>4. CountOK
  <2>1. clicks = 0 /\ ended = FALSE
    BY DEF Init, InitRequests
  <2>2. 0 \in 0 .. MaxClicks
    BY ClickAssumption
  <2> QED
    BY <2>1, <2>2 DEF CountOK
<1> QED
  BY <1>1, <1>2, <1>3, <1>4, PartsOfTypeInv

\* From the frame to a page.
LEMMA OpenPageTyped == ASSUME TypeInv, OpenPage PROVE TypeInv'
<1> DEFINE a == AskFor(NewComments)
<1>1. a.comments \in CommentLists /\ Fits(a.comments)
      /\ ((comments \in CommentLists)' => a.asked \in Seq(Good'))
  BY AskForGood, NewTyped
<1> HIDE DEF a
<1>2. /\ comments' = a.comments /\ queue' = QueueAfter(a.asked, Boxes)
      /\ hand' = HandAfter(Boxes) /\ page' = [lock |-> FALSE]
      /\ download' = NewDownload /\ boxes' = [b \in Boxes |-> NULL]
      /\ UNCHANGED <<serverVars, loose, ended>> /\ Clicks
  BY DEF OpenPage, a
<1>3. NewDownload \in DownloadLists
  BY LinkAssumption DEF NewDownload, NewButton, DownloadLists
<1>4. Kept(Boxes)
  BY <1>1, <1>2, <1>3 DEF Kept
<1>5. WorkOK'
  BY <1>1, <1>2, <1>4, DestroyedTyped
<1>6. ActorsOK'
  <2>1. CommentsType'
    BY <1>1, <1>2 DEF CommentsType, Fits, TypeInv, TypeOK
  <2>2. DownloadType' /\ MessagesType'
    BY <1>2, <1>3 DEF DownloadType, MessagesType
  <2> QED
    BY <2>1, <2>2 DEF ActorsOK
<1>7. CountOK'
  BY <1>2, ClickTyped DEF TypeInv, TypeOK
<1>8. ServerOK'
  BY <1>2, ServerUntouched
<1> QED
  BY <1>5, <1>6, <1>7, <1>8, PartsAfter

\* What is left of comments that are destroyed is of its type.
LEMMA LeftTyped ==
    ASSUME TypeInv
    PROVE  LooseAfter \in Nat /\ FinalizeEnds \subseteq BOOLEAN
<1>1. comments # NULL => comments.spin.timers \in Nat
  BY DEF TypeInv, TypeOK, CommentsType, CommentLists, Spins
<1>2. LooseAfter \in Nat
  BY <1>1 DEF LooseAfter, TypeInv, TypeOK, CommentsType
<1>3. FinalizeEnds \subseteq BOOLEAN
  BY Zenon DEF FinalizeEnds
<1> QED
  BY <1>2, <1>3

\* And back.
LEMMA ReturnTyped == ASSUME TypeInv, OnReturnButtonPress PROVE TypeInv'
<1>1. /\ page' = NULL /\ comments' = NULL /\ download' = NULL /\ UNCHANGED boxes
      /\ loose' = LooseAfter /\ ended' \in FinalizeEnds /\ Clicks
      /\ queue' = QueueAfter(<<>>, PageActors) /\ hand' = HandAfter(PageActors)
      /\ UNCHANGED serverVars
  BY DEF OnReturnButtonPress
<1>2. Kept(PageActors)
  BY <1>1 DEF Kept, PageActors
<1>3. WorkOK'
  BY <1>1, <1>2, NothingAsked, DestroyedTyped
<1>4. ActorsOK'
  BY <1>1, LeftTyped DEF ActorsOK, CommentsType, DownloadType, MessagesType, TypeInv, TypeOK
<1>5. CountOK'
  BY <1>1, LeftTyped, ClickTyped
<1> QED
  BY <1>1, <1>3, <1>4, <1>5, ServerUntouched, PartsAfter

\* What the user does to the comments of a page.
LEMMA CommentPressTyped ==
    ASSUME TypeInv, UNCHANGED <<download, boxes>>,
           OnCommentButtonPress \/ OnReplyButtonPress \/ OnSubmitButtonPress
    PROVE  TypeInv'
<1>1. CASE OnCommentButtonPress
  <2>1. page' \in [lock : BOOLEAN]
    BY <1>1 DEF OnCommentButtonPress, TypeInv, TypeOK, CommentsType
  <2>2. Kept({})
    BY <1>1, <2>1 DEF Kept, OnCommentButtonPress
  <2>3. <<Ask("comment", NULL, "page")>> \in Seq(Good')
    BY <2>1 DEF Good, Tasks, Ask, Served, OfItsKind, Whats, Posts, Ofs, Owners, PageActors
  <2>4. WorkOK'
    BY <1>1, <2>2, <2>3, AskedTyped DEF OnCommentButtonPress
  <2>5. ActorsOK'
    BY <1>1, <2>1 DEF OnCommentButtonPress, ActorsOK, CommentsType, DownloadType,
                      MessagesType, TypeInv, TypeOK
  <2>6. ServerOK' /\ CountOK'
    BY <1>1, ServerUntouched, ClickTyped DEF OnCommentButtonPress, TypeInv, TypeOK
  <2> QED
    BY <2>4, <2>5, <2>6, PartsAfter
<1>2. CASE OnReplyButtonPress
  <2>1. PICK i \in 1 .. comments.list :
            comments' = [comments EXCEPT !.expanded =
                             IF i \in comments.expanded THEN comments.expanded \ {i}
                             ELSE comments.expanded \cup {i}]
    BY <1>2 DEF OnReplyButtonPress
  <2>2. /\ comments \in CommentLists /\ comments.list \in Nat /\ comments.list # NULL
        /\ comments.expanded \subseteq 1 .. comments.list
    BY <1>2 DEF OnReplyButtonPress, Visible, CommentLists, TypeInv, TypeOK, CommentsType
  <2>3. comments' \in CommentLists /\ Fits(comments')
    BY <2>1, <2>2 DEF CommentLists, Fits
  <2>4. Kept({})
    BY <1>2, <2>3 DEF OnReplyButtonPress, Kept
  <2>5. WorkOK'
    BY <1>2, <2>4, UntouchedTyped DEF OnReplyButtonPress
  <2>6. ActorsOK'
    BY <1>2, <2>3 DEF OnReplyButtonPress, Fits, ActorsOK, CommentsType, DownloadType,
                      MessagesType, TypeInv, TypeOK
  <2>7. ServerOK' /\ CountOK'
    BY <1>2, ServerUntouched, ClickTyped DEF OnReplyButtonPress, TypeInv, TypeOK
  <2> QED
    BY <2>5, <2>6, <2>7, PartsAfter
<1>3. CASE OnSubmitButtonPress
  <2>1. Kept({}) /\ comments' \in CommentLists
    BY <1>3 DEF Kept, OnSubmitButtonPress, pageVars, Visible, TypeInv, TypeOK, CommentsType
  <2>2. <<Ask("reply", NULL, "comment")>> \in Seq(Good')
    BY <2>1 DEF Good, Tasks, Ask, Served, OfItsKind, Whats, Posts, Ofs, Owners, PageActors,
                CommentsActors, ListActors
  <2>3. WorkOK'
    BY <1>3, <2>1, <2>2, AskedTyped DEF OnSubmitButtonPress
  <2>4. ActorsOK'
    BY <1>3 DEF OnSubmitButtonPress, pageVars, ActorsOK, CommentsType, DownloadType,
                MessagesType, TypeInv, TypeOK
  <2>5. ServerOK' /\ CountOK'
    BY <1>3, ServerUntouched, ClickTyped DEF OnSubmitButtonPress, TypeInv, TypeOK
  <2> QED
    BY <2>3, <2>4, <2>5, PartsAfter
<1> QED
  BY <1>1, <1>2, <1>3

\* What the user does to the downloads of a page.
LEMMA DownloadPressTyped ==
    ASSUME TypeInv, UNCHANGED <<pageVars, boxes>>,
           OnDownloadButtonPress \/ \E i \in 1 .. Links : OnDownloadItemPress(i)
    PROVE  TypeInv'
<1>1. CASE OnDownloadButtonPress
  <2>1. download' \in DownloadLists
    BY <1>1 DEF OnDownloadButtonPress, SetSelected, TypeInv, TypeOK, DownloadType, DownloadLists
  <2>2. Kept({})
    BY <2>1 DEF Kept, pageVars
  <2>3. WorkOK'
    BY <1>1, <2>2, UntouchedTyped DEF OnDownloadButtonPress
  <2>4. ActorsOK'
    BY <2>1 DEF ActorsOK, pageVars, CommentsType, DownloadType, MessagesType, TypeInv, TypeOK
  <2>5. ServerOK' /\ CountOK'
    BY <1>1, ServerUntouched, ClickTyped DEF OnDownloadButtonPress, TypeInv, TypeOK
  <2> QED
    BY <2>3, <2>4, <2>5, PartsAfter
<1>2. ASSUME NEW i \in 1 .. Links, OnDownloadItemPress(i) PROVE TypeInv'
  <2>1. download \in DownloadLists
    BY <1>2 DEF OnDownloadItemPress, TypeInv, TypeOK, DownloadType
  <2>2. download' \in DownloadLists
    <3>1. OneMore(download, TRUE) \in DownloadLists
      BY <2>1 DEF OneMore, DownloadLists
    <3> QED
      BY <1>2, <2>1, <3>1 DEF OnDownloadItemPress
  <2>3. Kept({})
    BY <2>2 DEF Kept, pageVars
  <2>4. <<Ask("item", i, "download")>> \in Seq(Good')
    BY <2>2 DEF Good, Tasks, Ask, Served, OfItsKind, Whats, Posts, Ofs, Owners, PageActors
  <2>5. WorkOK'
    BY <1>2, <2>3, <2>4, AskedTyped, UntouchedTyped DEF OnDownloadItemPress, workVars
  <2>6. ActorsOK'
    BY <2>2 DEF ActorsOK, pageVars, CommentsType, DownloadType, MessagesType, TypeInv, TypeOK
  <2>7. ServerOK' /\ CountOK'
    BY <1>2, ServerUntouched, ClickTyped DEF OnDownloadItemPress, TypeInv, TypeOK
  <2> QED
    BY <2>5, <2>6, <2>7, PartsAfter
<1> QED
  BY <1>1, <1>2

\* A step that changes boxes, and no other actor.
LEMMA BoxesTyped ==
    ASSUME TypeInv, UNCHANGED <<pageVars, download>>, NEW b \in Boxes,
           NEW box \in OpenBoxes, boxes' = [boxes EXCEPT ![b] = box]
    PROVE  ActorsOK' /\ Kept({}) /\ (boxes[b] \in OpenBoxes)'
<1>1. boxes' \in [Boxes -> OpenBoxes \cup {NULL}] /\ boxes'[b] = box
  BY DEF TypeInv, TypeOK, MessagesType
<1>2. \A c \in Boxes : boxes[c] \in OpenBoxes => boxes'[c] \in OpenBoxes
  BY DEF TypeInv, TypeOK, MessagesType
<1>3. ActorsOK'
  BY <1>1 DEF ActorsOK, pageVars, CommentsType, DownloadType, MessagesType, TypeInv, TypeOK
<1> QED
  BY <1>1, <1>2, <1>3 DEF Kept, pageVars

\* A dialog is opened.
LEMMA NewBoxTyped ==
    ASSUME NEW kind \in {"messages", "friends"}
    PROVE  NewBox(kind) \in OpenBoxes
  BY DEF NewBox, OpenBoxes

LEMMA FriendsAnsweredTyped ==
    ASSUME NEW box \in OpenBoxes, NEW ok \in BOOLEAN
    PROVE  FriendsAnswered(box, ok) \in OpenBoxes
  BY DEF FriendsAnswered, OpenBoxes

LEMMA FriendsOfGood ==
    ASSUME NEW b \in Boxes
    PROVE  /\ FriendsOf(b).box \in OpenBoxes
           /\ (boxes[b] \in OpenBoxes)' => FriendsOf(b).asked \in Seq(Good')
<1>1. CASE ~Known("friends", NULL)
  <2>1. /\ FriendsOf(b).box = NewBox("friends")
        /\ FriendsOf(b).asked = <<Ask("friends", NULL, b)>>
    BY <1>1 DEF FriendsOf
  <2>2. (boxes[b] \in OpenBoxes)' => <<Ask("friends", NULL, b)>> \in Seq(Good')
    BY BoxesApart
    DEF Good, Tasks, Ask, Served, OfItsKind, Whats, Posts, Ofs, Owners, BoxRequests
  <2> QED
    BY <2>1, <2>2, NewBoxTyped
<1>2. CASE Known("friends", NULL)
  <2>1. /\ FriendsOf(b).box = FriendsAnswered(NewBox("friends"), TRUE)
        /\ FriendsOf(b).asked = AskFriends(b)
    BY <1>2 DEF FriendsOf
  <2> QED
    BY <2>1, NewBoxTyped, FriendsAnsweredTyped, AskFriendsGood
<1> QED
  BY <1>1, <1>2

LEMMA MessagesOfGood ==
    ASSUME NEW b \in Boxes
    PROVE  /\ MessagesOf(b).box \in OpenBoxes
           /\ (boxes[b] \in OpenBoxes)' => MessagesOf(b).asked \in Seq(Good')
<1>1. CASE ~Known("folders", NULL)
  <2>1. /\ MessagesOf(b).box = NewBox("messages")
        /\ MessagesOf(b).asked = <<Ask("folders", NULL, b)>>
    BY <1>1 DEF MessagesOf
  <2>2. (boxes[b] \in OpenBoxes)' => <<Ask("folders", NULL, b)>> \in Seq(Good')
    BY BoxesApart
    DEF Good, Tasks, Ask, Served, OfItsKind, Whats, Posts, Ofs, Owners, BoxRequests
  <2> QED
    BY <2>1, <2>2, NewBoxTyped
<1>2. CASE Known("folders", NULL)
  <2>1. MessagesOf(b) = MessagesAnswered(b, NewBox("messages"), TRUE)
    BY <1>2 DEF MessagesOf
  <2> QED
    BY <2>1, NewBoxTyped, MessagesAnsweredGood
<1> QED
  BY <1>1, <1>2

\* What the user does to the dialogs.
LEMMA BoxPressTyped ==
    ASSUME TypeInv, UNCHANGED <<pageVars, download>>, NEW b \in Boxes,
           \/ OnFriendsPress(b) \/ OnMessagePress(b)
           \/ \E f \in Folders : OnFolderPress(b, f)
           \/ OnMessageRowPress(b)
    PROVE  TypeInv'
<1>1. ASSUME NEW a, a.box \in OpenBoxes, Opens(b, a), ended' \in BOOLEAN,
             (boxes[b] \in OpenBoxes)' => a.asked \in Seq(Good')
      PROVE  TypeInv'
  <2>1. ActorsOK' /\ Kept({}) /\ (boxes[b] \in OpenBoxes)'
    BY <1>1, BoxesTyped DEF Opens
  <2>2. WorkOK'
    BY <1>1, <2>1, AskedTyped DEF Opens
  <2>3. ServerOK' /\ CountOK'
    BY <1>1, ServerUntouched, ClickTyped DEF Opens
  <2> QED
    BY <2>1, <2>2, <2>3, PartsAfter
<1>2. CASE OnFriendsPress(b)
  <2>1. NoObject(AskFriends(b)) \subseteq BOOLEAN
    BY Zenon DEF NoObject
  <2>2. ended' \in BOOLEAN
    BY <1>2, <2>1 DEF OnFriendsPress
  <2> QED
    BY <1>1, <1>2, <2>2, FriendsOfGood DEF OnFriendsPress
<1>3. CASE OnMessagePress(b)
  <2>1. ended' \in BOOLEAN
    BY <1>3 DEF OnMessagePress, TypeInv, TypeOK
  <2> QED
    BY <1>1, <1>3, <2>1, MessagesOfGood DEF OnMessagePress
<1>4. ASSUME NEW f \in Folders, OnFolderPress(b, f) PROVE TypeInv'
  <2>1. boxes[b] \in OpenBoxes
    BY <1>4 DEF OnFolderPress, IsOpen, TypeInv, TypeOK, MessagesType
  <2> DEFINE a == AskFolder(b, boxes[b], f)
  <2>2. a.box \in OpenBoxes /\ ((boxes[b] \in OpenBoxes)' => a.asked \in Seq(Good'))
    BY <2>1, AskFolderGood
  <2>3. /\ boxes' = [boxes EXCEPT ![b] = a.box] /\ queue' = a.asked \o queue
        /\ UNCHANGED <<hand, serverVars, ended>> /\ Clicks
    BY <1>4 DEF OnFolderPress
  <2> HIDE DEF a
  <2>4. ActorsOK' /\ Kept({}) /\ (boxes[b] \in OpenBoxes)'
    BY <2>2, <2>3, BoxesTyped
  <2>5. WorkOK'
    BY <2>2, <2>3, <2>4, AskedTyped
  <2>6. ServerOK' /\ CountOK'
    BY <2>3, ServerUntouched, ClickTyped DEF TypeInv, TypeOK
  <2> QED
    BY <2>4, <2>5, <2>6, PartsAfter
<1>5. CASE OnMessageRowPress(b)
  <2> DEFINE box == [boxes[b] EXCEPT !.open = boxes[b].list]
  <2>1. boxes[b] \in OpenBoxes
    BY <1>5 DEF OnMessageRowPress, IsOpen, TypeInv, TypeOK, MessagesType
  <2>2. box \in OpenBoxes
    BY <2>1 DEF OpenBoxes
  <2>3. boxes' = [boxes EXCEPT ![b] = box]
    BY <1>5 DEF OnMessageRowPress, TypeInv, TypeOK, MessagesType
  <2>4. ActorsOK' /\ Kept({})
    BY <2>2, <2>3, BoxesTyped
  <2>5. WorkOK'
    BY <1>5, <2>4, UntouchedTyped DEF OnMessageRowPress
  <2>6. ServerOK' /\ CountOK'
    BY <1>5, ServerUntouched, ClickTyped DEF OnMessageRowPress, TypeInv, TypeOK
  <2> QED
    BY <2>4, <2>5, <2>6, PartsAfter
<1> QED
  BY <1>2, <1>3, <1>4, <1>5

LEMMA ClosePressTyped ==
    ASSUME TypeInv, UNCHANGED <<pageVars, download>>, NEW b \in Boxes, OnClosePress(b)
    PROVE  TypeInv'
<1>1. boxes' = [boxes EXCEPT ![b] = NULL]
  BY DEF OnClosePress
<1>2. \A c \in Boxes : c \in {b} \/ boxes'[c] = boxes[c]
  BY <1>1 DEF TypeInv, TypeOK, MessagesType
<1>3. Kept({b})
  BY <1>2 DEF Kept, pageVars
<1>4. WorkOK'
  BY <1>3, NothingAsked, DestroyedTyped DEF OnClosePress
<1>5. ActorsOK'
  BY <1>1 DEF ActorsOK, pageVars, CommentsType, DownloadType, MessagesType, TypeInv, TypeOK
<1>6. ServerOK' /\ CountOK'
  BY ServerUntouched, ClickTyped DEF OnClosePress, TypeInv, TypeOK
<1> QED
  BY <1>4, <1>5, <1>6, PartsAfter

\* Nobody but the worker is concerned.
LEMMA ActorsUntouched ==
    ASSUME TypeInv, UNCHANGED <<pageVars, download, boxes>>
    PROVE  ActorsOK' /\ Kept({})
  BY DEF ActorsOK, pageVars, CommentsType, DownloadType, MessagesType, TypeInv, TypeOK, Kept

\* The worker takes a task, and calls the server.
LEMMA TakesTask ==
    ASSUME TypeInv, WorkerTakes
    PROVE  /\ hand' \in Hands /\ hand'.task = Head(queue)
           /\ Head(queue) \in Good /\ Tail(queue) \in Seq(Good)
<1> DEFINE task == Head(queue)
<1>1. task \in Good /\ Tail(queue) \in Seq(Good)
  BY DEF WorkerTakes, TypeInv
<1>2. task \in Tasks
  BY <1>1 DEF Good
<1>3. Found(task) => stored[Key(task)] \in Nat
  BY DEF Found, TypeInv, TypeOK
<1>4. hand' = IF Found(task)
              THEN [task |-> task, step |-> "callback", ok |-> TRUE,
                    number |-> stored[Key(task)]]
              ELSE [task |-> task, step |-> "call", ok |-> FALSE, number |-> 0]
  BY DEF WorkerTakes
<1> HIDE DEF task
<1>5. hand' \in Hands /\ hand'.task = task
  BY <1>2, <1>3, <1>4 DEF Hands
<1> QED
  BY <1>1, <1>5 DEF task

LEMMA TakesTyped ==
    ASSUME TypeInv, WorkerTakes, UNCHANGED <<pageVars, download, boxes>>
    PROVE  TypeInv'
<1>1. ActorsOK' /\ Kept({})
  BY ActorsUntouched
<1>2. Head(queue) \in Good' /\ queue' \in Seq(Good')
  BY <1>1, TakesTask, AliveStayGood DEF WorkerTakes
<1>3. WorkOK'
  BY <1>2, TakesTask DEF WorkOK
<1>4. ServerOK' /\ CountOK'
  BY ServerUntouched, NoClick DEF WorkerTakes, TypeInv, TypeOK
<1> QED
  BY <1>1, <1>3, <1>4, PartsAfter

\* The task in hand is answered.
LEMMA AnsweredTask ==
    ASSUME hand \in Hands, NEW ok \in BOOLEAN, NEW number \in Nat
    PROVE  Answered(ok, number) \in Hands /\ Answered(ok, number).task = hand.task
  BY DEF Answered, Hands

LEMMA AnsweredTyped ==
    ASSUME TypeInv, Kept({}), hand # NULL, NEW ok \in BOOLEAN, NEW number \in Nat,
           hand' = Answered(ok, number), UNCHANGED queue
    PROVE  WorkOK'
<1>1. hand \in Hands /\ hand.task \in Good
  BY DEF TypeInv, TypeOK
<1>2. hand' \in Hands /\ hand'.task = hand.task
  BY <1>1, AnsweredTask
<1>3. hand.task \in Good' /\ queue' \in Seq(Good')
  BY <1>1, AliveStayGood DEF TypeInv
<1> QED
  BY <1>2, <1>3 DEF WorkOK

LEMMA GetTyped ==
    ASSUME TypeInv, Get, UNCHANGED <<pageVars, download, boxes>>
    PROVE  TypeInv'
<1>1. hand # NULL /\ hand.task \in Tasks /\ OfItsKind(hand.task) /\ hand.task.what \notin Posts
  BY DEF Get, At, TypeInv, Good
<1>2. server \in Nat /\ told \in Nat
  BY DEF TypeInv, TypeOK
<1>3. ActorsOK' /\ Kept({})
  BY ActorsUntouched
<1>4. WorkOK'
  <2>1. UNCHANGED queue /\ (hand' = Answered(TRUE, server) \/ hand' = Answered(FALSE, 0))
    BY DEF Get
  <2> QED
    BY <1>1, <1>2, <1>3, <2>1, AnsweredTyped
<1>5. ServerOK'
  <2>1. Key(hand.task) \in (Whats \ Posts) \X Ofs
    BY <1>1 DEF Key, Tasks
  <2>2. /\ DOMAIN stored' \subseteq (Whats \ Posts) \X Ofs
        /\ \A k \in DOMAIN stored' : stored'[k] \in Nat
    BY <1>2, <2>1 DEF Get, TypeInv, TypeOK
  <2>3. paid' \in Seq(Sales)
    <3>1. paid \in Seq(Sales)
      BY DEF TypeInv, TypeOK
    <3>2. PICK answered \in BOOLEAN : paid' = paid \/ paid' = Sold(hand.task, answered)
      BY DEF Get
    <3>3. ASSUME hand.task.what = "item" PROVE Sold(hand.task, answered) \in Seq(Sales)
      <4> DEFINE sale == [link |-> hand.task.of, answered |-> answered]
      <4>1. sale \in Sales
        BY <1>1, <3>3 DEF OfItsKind, Sales
      <4>2. Sold(hand.task, answered) = Append(paid, sale)
        BY <3>3 DEF Sold
      <4> HIDE DEF sale
      <4> QED
        BY <3>1, <4>1, <4>2
    <3>4. hand.task.what # "item" => Sold(hand.task, answered) = paid
      BY DEF Sold
    <3> QED
      BY <3>1, <3>2, <3>3, <3>4
  <2>4. UNCHANGED <<server, told, excused>> /\ excused \in BOOLEAN
    BY DEF Get, TypeInv, TypeOK
  <2> QED
    BY <1>2, <2>2, <2>3, <2>4 DEF ServerOK
<1>6. CountOK'
  BY NoClick DEF Get, TypeInv, TypeOK
<1> QED
  BY <1>3, <1>4, <1>5, <1>6, PartsAfter

LEMMA PostTyped ==
    ASSUME TypeInv, Post, UNCHANGED <<pageVars, download, boxes>>
    PROVE  TypeInv'
<1>1. hand # NULL
  BY DEF Post, At
<1>2. server \in Nat /\ told \in Nat /\ excused \in BOOLEAN
  BY DEF TypeInv, TypeOK
<1>3. ActorsOK' /\ Kept({})
  BY ActorsUntouched
<1>4. WorkOK'
  <2>1. UNCHANGED queue /\ (hand' = Answered(TRUE, server + 1) \/ hand' = Answered(FALSE, 0))
    BY DEF Post
  <2>2. server + 1 \in Nat
    BY <1>2
  <2> QED
    BY <1>1, <1>3, <2>1, <2>2, AnsweredTyped
<1>5. ServerOK'
  <2>1. stored' = Refreshed \/ stored' = stored
    BY DEF Post
  <2>2. /\ DOMAIN stored' \subseteq (Whats \ Posts) \X Ofs
        /\ \A k \in DOMAIN stored' : stored'[k] \in Nat
    BY <2>1 DEF Refreshed, TypeInv, TypeOK
  <2>3. /\ server' \in {server, server + 1} /\ told' \in {told, server + 1}
        /\ excused' \in {excused, TRUE}
    BY DEF Post
  <2>4. paid' \in Seq(Sales)
    BY DEF Post, TypeInv, TypeOK
  <2>5. {server', told'} \subseteq Nat
    BY <1>2, <2>3
  <2>6. excused' \in BOOLEAN
    BY <1>2, <2>3, Zenon
  <2> QED
    BY <2>2, <2>4, <2>5, <2>6 DEF ServerOK
<1>6. CountOK'
  BY NoClick DEF Post, TypeInv, TypeOK
<1> QED
  BY <1>3, <1>4, <1>5, <1>6, PartsAfter

\* A step that changes the comments, and no other actor but the page.
LEMMA CommentsTyped ==
    ASSUME TypeInv, comments' \in CommentLists, Fits(comments'), loose' \in Nat,
           page' \in [lock : BOOLEAN] \cup {NULL},
           page \in [lock : BOOLEAN] => page' \in [lock : BOOLEAN],
           UNCHANGED <<download, boxes>>
    PROVE  ActorsOK' /\ \A dead : Kept(dead)
<1>1. ActorsOK'
  BY DEF ActorsOK, CommentsType, Fits, DownloadType, MessagesType, TypeInv, TypeOK
<1>2. \A dead : Kept(dead)
  BY DEF Kept
<1> QED
  BY <1>1, <1>2

\* The task in hand is done with.
LEMMA HandedBack ==
    ASSUME TypeInv, Kept({}), UNCHANGED queue, hand' = NULL
    PROVE  WorkOK'
<1>1. queue \in Seq(Good')
  BY AliveStayGood DEF TypeInv
<1> QED
  BY <1>1 DEF WorkOK

\* The answers about comments.
LEMMA CommentsAnswered ==
    ASSUME TypeInv, UNCHANGED <<download, boxes>>,
           CommentsCallback \/ ReplyCallback \/ UserIconCallback
    PROVE  TypeInv'
<1>1. hand # NULL /\ hand \in Hands /\ Served(hand.task)
  BY DEF CommentsCallback, ReplyCallback, UserIconCallback, At, TypeInv, TypeOK, Good
<1>2. UNCHANGED <<serverVars, page, loose, clicks, ended>>
  BY DEF CommentsCallback, ReplyCallback, UserIconCallback, pageVars
<1>3. hand.task.owner \in CommentsActors
  BY DEF CommentsCallback, ReplyCallback, UserIconCallback, CommentsActors, ListActors
<1>4. comments \in CommentLists /\ Fits(comments)
  <2>1. comments \in CommentLists
    BY <1>1, <1>3, OwnerAssumption
    DEF Served, CommentsActors, ListActors, PageActors
  <2>2. comments = NULL \/ Fits(comments)
    BY DEF TypeInv, TypeOK, CommentsType, Fits
  <2> QED
    BY <2>1, <2>2, OwnerAssumption
<1>5. ASSUME NEW asked, NEW dead, CalledBack(asked, dead),
             (comments \in CommentLists)' => asked \in Seq(Good'),
             comments' \in CommentLists, Fits(comments')
      PROVE  TypeInv'
  <2>1. ActorsOK' /\ \A d : Kept(d)
    BY <1>2, <1>5, CommentsTyped DEF TypeInv, TypeOK, CommentsType
  <2>2. WorkOK'
    BY <1>1, <1>5, <2>1, CalledBackTyped
  <2>3. ServerOK' /\ CountOK'
    BY <1>2, ServerUntouched, NoClick DEF TypeInv, TypeOK
  <2> QED
    BY <2>1, <2>2, <2>3, PartsAfter
<1>6. CASE CommentsCallback
  <2> DEFINE number == IF hand.ok THEN hand.number ELSE NULL
  <2>1. number \in Nat \cup {NULL}
    BY <1>1 DEF Hands
  <2>2. comments' = Load(comments, number) /\ CalledBack(UserIcons(number), ListActors)
    BY <1>6 DEF CommentsCallback
  <2> HIDE DEF number
  <2> QED
    BY <1>4, <1>5, <2>1, <2>2, LoadTyped, UserIconsGood
<1>7. CASE ReplyCallback /\ hand.ok
  <2> DEFINE a == AskFor(comments)
  <2>1. /\ a.comments \in CommentLists /\ Fits(a.comments)
        /\ (comments \in CommentLists)' => a.asked \in Seq(Good')
    BY <1>4, AskForGood
  <2>2. comments' = a.comments /\ CalledBack(a.asked, a.dead)
    BY <1>7 DEF ReplyCallback
  <2> HIDE DEF a
  <2> QED
    BY <1>5, <2>1, <2>2
<1>8. CASE (ReplyCallback /\ ~hand.ok) \/ UserIconCallback
  <2>1. UNCHANGED comments /\ CalledBack(<<>>, {})
    BY <1>8 DEF ReplyCallback, UserIconCallback, pageVars
  <2> QED
    BY <1>4, <1>5, <2>1, NothingAsked
<1> QED
  BY <1>6, <1>7, <1>8

LEMMA PageAnswered ==
    ASSUME TypeInv, UNCHANGED <<download, boxes>>, CommentCallback
    PROVE  TypeInv'
<1>1. hand # NULL /\ hand \in Hands /\ UNCHANGED <<serverVars, page, clicks>>
  BY DEF CommentCallback, At, TypeInv, TypeOK
<1>2. ASSUME hand.ok PROVE TypeInv'
  <2> DEFINE a == AskFor(NewComments)
  <2>1. /\ a.comments \in CommentLists /\ Fits(a.comments)
        /\ (comments \in CommentLists)' => a.asked \in Seq(Good')
    BY NewTyped, AskForGood
  <2>2. /\ comments' = a.comments /\ loose' = LooseAfter
        /\ CalledBack(a.asked, CommentsActors) /\ ended' \in FinalizeEnds
    BY <1>2 DEF CommentCallback
  <2> HIDE DEF a
  <2>3. ActorsOK' /\ \A d : Kept(d)
    BY <1>1, <2>1, <2>2, LeftTyped, CommentsTyped DEF TypeInv, TypeOK, CommentsType
  <2>4. WorkOK'
    BY <1>1, <2>1, <2>2, <2>3, CalledBackTyped
  <2>5. ServerOK' /\ CountOK'
    BY <1>1, <2>2, LeftTyped, ServerUntouched, NoClick
  <2> QED
    BY <2>3, <2>4, <2>5, PartsAfter
<1>3. ASSUME ~hand.ok PROVE TypeInv'
  <2>1. CalledBack(<<>>, {}) /\ UNCHANGED <<comments, loose, ended>>
    BY <1>3 DEF CommentCallback
  <2>2. ActorsOK' /\ Kept({})
    BY <1>1, <2>1, ActorsUntouched DEF pageVars
  <2>3. WorkOK' /\ ServerOK' /\ CountOK'
    BY <1>1, <2>1, <2>2, NothingAsked, CalledBackTyped, ServerUntouched, NoClick
    DEF TypeInv, TypeOK
  <2> QED
    BY <2>2, <2>3, PartsAfter
<1> QED
  BY <1>2, <1>3

\* The end of a task.
LEMMA UnlockTyped ==
    ASSUME TypeInv, UNCHANGED <<download, boxes>>, Unlock
    PROVE  TypeInv'
<1>1. /\ hand # NULL /\ hand \in Hands /\ Served(hand.task) /\ hand' = NULL
      /\ UNCHANGED <<queue, serverVars, loose, clicks, ended>>
  BY DEF Unlock, At, TypeInv, TypeOK, Good
<1>2. CASE hand.task.owner = "comments"
  <2>1. comments \in CommentLists
    BY <1>1, <1>2, OwnerAssumption DEF Served, CommentsActors, ListActors, PageActors
  <2>2. Fits(comments)
    BY <2>1, OwnerAssumption DEF TypeInv, TypeOK, CommentsType, Fits
  <2>3. comments' = SetLock(comments, FALSE) /\ UNCHANGED page
    BY <1>2 DEF Unlock, Unlocked
  <2>4. comments' \in CommentLists /\ Fits(comments')
    BY <2>1, <2>2, <2>3, LockTyped
  <2> QED
    BY <1>1, <2>3, <2>4, CommentsTyped, HandedBack, ServerUntouched, NoClick, PartsAfter
    DEF TypeInv, TypeOK, CommentsType
<1>3. CASE hand.task.owner = "page"
  <2>1. page \in [lock : BOOLEAN]
    BY <1>1, <1>3, OwnerAssumption DEF Served, CommentsActors, ListActors, PageActors
  <2>2. page' \in [lock : BOOLEAN] /\ UNCHANGED comments
    BY <1>3, <2>1 DEF Unlock
  <2>3. ActorsOK' /\ Kept({})
    BY <1>1, <2>2 DEF ActorsOK, Kept, CommentsType, DownloadType, MessagesType, TypeInv, TypeOK
  <2> QED
    BY <1>1, <2>3, HandedBack, ServerUntouched, NoClick, PartsAfter DEF TypeInv, TypeOK
<1>4. CASE hand.task.owner \notin {"comments", "page"}
  <2>1. ActorsOK' /\ Kept({})
    BY <1>1, <1>4, ActorsUntouched DEF Unlock, pageVars
  <2> QED
    BY <1>1, <2>1, HandedBack, ServerUntouched, NoClick, PartsAfter DEF TypeInv, TypeOK
<1> QED
  BY <1>2, <1>3, <1>4

\* The other answers.
LEMMA DownloadAnswered ==
    ASSUME TypeInv, UNCHANGED <<pageVars, boxes>>, DownloadCallback
    PROVE  TypeInv'
<1>1. hand # NULL /\ hand \in Hands /\ Served(hand.task) /\ hand.task.owner = "download"
  BY DEF DownloadCallback, At, TypeInv, TypeOK, Good
<1>2. download \in DownloadLists
  BY <1>1, OwnerAssumption DEF Served, CommentsActors, ListActors, PageActors
<1>3. download' \in DownloadLists
  BY <1>2 DEF DownloadCallback, OneMore, DownloadLists
<1>4. ActorsOK' /\ Kept({})
  BY <1>3 DEF ActorsOK, Kept, pageVars, CommentsType, DownloadType, MessagesType, TypeInv, TypeOK
<1>5. WorkOK'
  BY <1>1, <1>4, NothingAsked, CalledBackTyped DEF DownloadCallback
<1>6. ServerOK' /\ CountOK'
  BY ServerUntouched, NoClick DEF DownloadCallback, TypeInv, TypeOK
<1> QED
  BY <1>4, <1>5, <1>6, PartsAfter

LEMMA GoneTyped ==
    ASSUME TypeInv, GoneCallback
    PROVE  TypeInv'
<1>1. /\ hand' = NULL /\ ended' \in BOOLEAN
      /\ UNCHANGED <<queue, stored, server, told, paid, pageVars, download, boxes, clicks>>
      /\ excused' \in BOOLEAN
  BY DEF GoneCallback
<1>2. ActorsOK' /\ Kept({})
  BY <1>1, ActorsUntouched
<1>3. WorkOK' /\ CountOK'
  BY <1>1, <1>2, HandedBack, NoClick
<1>4. ServerOK'
  BY <1>1 DEF ServerOK, TypeInv, TypeOK
<1> QED
  BY <1>2, <1>3, <1>4, PartsAfter


LEMMA BoxAsks ==
    ASSUME TypeInv, UNCHANGED <<pageVars, download>>, BoxCallback
    PROVE  /\ ActorsOK' /\ Kept({}) /\ ended' \in BOOLEAN
           /\ \E asked \in Seq(Good') : CalledBack(asked, {})
<1>1. /\ hand # NULL /\ hand \in Hands /\ hand.task \in Tasks
      /\ Served(hand.task) /\ OfItsKind(hand.task)
      /\ UNCHANGED <<serverVars, clicks>>
  BY DEF BoxCallback, At, TypeInv, TypeOK, Good
<1>2. PICK b \in Boxes : b = hand.task.owner
  BY DEF BoxCallback
<1>3. PICK box : box = boxes[b]
  OBVIOUS
<1>4. box \in OpenBoxes /\ hand.task.what \in BoxRequests
  BY <1>1, <1>2, <1>3, OwnerAssumption DEF Served, CommentsActors, ListActors, PageActors
<1>5. hand.ok \in BOOLEAN
  BY <1>1 DEF Hands
<1>6. ASSUME NEW after \in OpenBoxes, NEW asked, boxes' = [boxes EXCEPT ![b] = after],
             (boxes[b] \in OpenBoxes)' => asked \in Seq(Good'),
             CalledBack(asked, {}), ended' \in BOOLEAN
      PROVE  /\ ActorsOK' /\ Kept({}) /\ ended' \in BOOLEAN
             /\ \E other \in Seq(Good') : CalledBack(other, {})
  BY <1>6, BoxesTyped
<1>7. CASE hand.task.what = "folders"
  <2> DEFINE a == MessagesAnswered(b, box, hand.ok)
  <2>1. /\ boxes' = [boxes EXCEPT ![b] = a.box] /\ CalledBack(a.asked, {})
        /\ ended' = FALSE
    BY <1>2, <1>3, <1>7 DEF BoxCallback
  <2>2. a.box \in OpenBoxes /\ ((boxes[b] \in OpenBoxes)' => a.asked \in Seq(Good'))
    BY <1>4, <1>5, MessagesAnsweredGood
  <2> HIDE DEF a
  <2> QED
    BY <1>6, <2>1, <2>2
<1>8. CASE hand.task.what = "folder"
  <2> DEFINE after == FolderAnswered(box, hand.task.of, hand.ok)
  <2>1. /\ boxes' = [boxes EXCEPT ![b] = after] /\ CalledBack(<<>>, {})
        /\ ended' = FALSE
    BY <1>2, <1>3, <1>8 DEF BoxCallback
  <2>2. after \in OpenBoxes
    BY <1>1, <1>4, <1>5, <1>8 DEF FolderAnswered, OfItsKind, OpenBoxes
  <2> HIDE DEF after
  <2> QED
    BY <1>6, <2>1, <2>2, NothingAsked
<1>9. CASE hand.task.what = "friends"
  <2> DEFINE after == FriendsAnswered(box, hand.ok)
             asked == IF hand.ok THEN AskFriends(b) ELSE <<>>
  <2>1. /\ boxes' = [boxes EXCEPT ![b] = after] /\ CalledBack(asked, {})
        /\ ended' \in NoObject(asked)
    BY <1>2, <1>3, <1>9 DEF BoxCallback
  <2>2. after \in OpenBoxes
    BY <1>4, <1>5, FriendsAnsweredTyped
  <2>3. (boxes[b] \in OpenBoxes)' => asked \in Seq(Good')
    BY AskFriendsGood, NothingAsked
  <2> HIDE DEF after, asked
  <2>4. NoObject(asked) \subseteq BOOLEAN
    BY Zenon DEF NoObject
  <2> QED
    BY <1>6, <2>1, <2>2, <2>3, <2>4
<1>10. CASE hand.task.what = "person"
  <2>1. /\ boxes' = [boxes EXCEPT ![b] = box] /\ CalledBack(<<>>, {})
        /\ ended' \in BOOLEAN
    BY <1>2, <1>3, <1>10 DEF BoxCallback
  <2> QED
    BY <1>4, <1>6, <2>1, NothingAsked
<1> QED
  BY <1>4, <1>7, <1>8, <1>9, <1>10 DEF BoxRequests

LEMMA BoxAnswered ==
    ASSUME TypeInv, UNCHANGED <<pageVars, download>>, BoxCallback
    PROVE  TypeInv'
<1>1. hand # NULL /\ UNCHANGED <<serverVars, clicks>>
  BY DEF BoxCallback, At
<1>2. /\ ActorsOK' /\ Kept({}) /\ ended' \in BOOLEAN
      /\ \E asked \in Seq(Good') : CalledBack(asked, {})
  BY BoxAsks
<1>3. WorkOK'
  BY <1>1, <1>2, CalledBackTyped
<1>4. ServerOK' /\ CountOK'
  BY <1>1, <1>2, ServerUntouched, NoClick
<1> QED
  BY <1>2, <1>3, <1>4, PartsAfter

\* The spin timers.
LEMMA SpinTyped ==
    ASSUME TypeInv, UNCHANGED <<download, boxes>>, SpinTimeout
    PROVE  TypeInv'
<1>1. /\ UNCHANGED <<workVars, serverVars, page, loose, clicks, ended>>
      /\ comments \in CommentLists /\ Fits(comments) /\ comments.spin.timers > 0
      /\ comments' = [comments EXCEPT !.spin = Timeout(comments.spin)]
  BY DEF SpinTimeout, Fits, TypeInv, TypeOK, CommentsType
<1>2. comments.spin \in Spins
  BY <1>1 DEF CommentLists
<1>3. Timeout(comments.spin) \in Spins
  BY <1>1, <1>2 DEF Timeout, Spins
<1>4. comments' \in CommentLists /\ Fits(comments')
  BY <1>1, <1>3 DEF CommentLists, Fits
<1>5. ActorsOK' /\ Kept({})
  BY <1>1, <1>4, CommentsTyped DEF TypeInv, TypeOK, CommentsType
<1>6. WorkOK' /\ ServerOK' /\ CountOK'
  BY <1>1, <1>5, UntouchedTyped, ServerUntouched, NoClick DEF TypeInv, TypeOK
<1> QED
  BY <1>5, <1>6, PartsAfter

LEMMA LooseTyped ==
    ASSUME TypeInv, UNCHANGED <<download, boxes>>, LooseTimeout
    PROVE  TypeInv'
<1>1. UNCHANGED <<workVars, serverVars, page, comments, clicks>>
  BY DEF LooseTimeout
<1>2. loose' \in Nat /\ ended' \in BOOLEAN
  <2>1. loose \in Nat /\ loose > 0 /\ ended \in BOOLEAN
    BY DEF LooseTimeout, TypeInv, TypeOK, CommentsType
  <2>2. CASE loose' = loose - 1 /\ UNCHANGED ended
    BY <2>1, <2>2
  <2>3. CASE ended' = TRUE /\ UNCHANGED loose
    BY <2>1, <2>3
  <2> QED
    BY <2>2, <2>3 DEF LooseTimeout
<1>3. ActorsOK' /\ Kept({})
  BY <1>1, <1>2 DEF ActorsOK, Kept, CommentsType, DownloadType, MessagesType, TypeInv, TypeOK
<1>4. WorkOK' /\ ServerOK' /\ CountOK'
  BY <1>1, <1>2, <1>3, UntouchedTyped, ServerUntouched, NoClick
<1> QED
  BY <1>3, <1>4, PartsAfter

\* Every step keeps the state well typed, and every owner of a task alive.
LEMMA TypeStep == TypeInv /\ [Next]_vars => TypeInv'
<1> SUFFICES ASSUME TypeInv, [Next]_vars PROVE TypeInv'
  OBVIOUS
<1>1. CASE User
  BY <1>1, OpenPageTyped, ReturnTyped, CommentPressTyped, DownloadPressTyped, BoxPressTyped,
     ClosePressTyped
  DEF User
<1>2. CASE Worker
  BY <1>2, TakesTyped, GetTyped, PostTyped, CommentsAnswered, PageAnswered, UnlockTyped,
     DownloadAnswered, BoxAnswered, GoneTyped
  DEF Worker
<1>3. CASE Timers
  BY <1>3, SpinTyped, LooseTyped DEF Timers
<1>4. CASE UNCHANGED vars
  <2>1. ActorsOK' /\ Kept({})
    BY <1>4, ActorsUntouched DEF vars
  <2>2. WorkOK' /\ ServerOK' /\ CountOK'
    BY <1>4, <2>1, UntouchedTyped, ServerUntouched, NoClick DEF vars, TypeInv, TypeOK
  <2> QED
    BY <2>1, <2>2, PartsAfter
<1> QED
  BY <1>1, <1>2, <1>3, <1>4 DEF Next

\* For any instance: every variable keeps its type, so no answer is written into
\* an actor that is not there or does not take it.
THEOREM TypeCorrect == Spec => []TypeOK
<1>1. TypeInv => TypeOK
  BY DEF TypeInv
<1> QED
  BY <1>1, InitTyped, TypeStep, PTL DEF Spec

-----------------------------------------------------------------------------
(***************************************************************************)
(* A link is not paid for again once the answer to a sale has come.         *)
(***************************************************************************)

\* A link that was sold with an answer is in the proxy and stays there, and one that
\* is about to be asked for is not: async_func looked, and nobody else fills the proxy.
PaidInv ==
    /\ \A i \in DOMAIN paid : paid[i].answered => <<"item", paid[i].link>> \in DOMAIN stored
    /\ At("call") /\ hand.task.what = "item" => Key(hand.task) \notin DOMAIN stored
    /\ PaidOnce

\* Whoever leaves proxy and purchases alone, and the request in hand as it was or
\* answered, leaves the invariant alone.
LEMMA PaidUntouched ==
    ASSUME PaidInv, UNCHANGED <<stored, paid>>,
           \/ UNCHANGED hand
           \/ ~At("call")'
           \/ /\ At("call") /\ hand'.task.what = hand.task.what
              /\ hand'.task.of = hand.task.of
    PROVE  PaidInv'
  BY DEF PaidInv, PaidOnce, At, Key

LEMMA OrphanAsksTheSame ==
    ASSUME TypeInv, NEW dead, hand' = HandAfter(dead)
    PROVE  \/ UNCHANGED hand
           \/ ~At("call")'
           \/ /\ At("call") /\ hand'.task.what = hand.task.what
              /\ hand'.task.of = hand.task.of
<1>1. CASE hand = NULL
  BY <1>1 DEF HandAfter
<1>2. CASE hand # NULL
  <2>1. hand \in Hands /\ hand.task \in Tasks
    BY <1>2 DEF TypeInv, TypeOK, Hands
  <2>2. hand' = [hand EXCEPT !.task = Orphan(hand.task, dead)]
    BY <1>2 DEF HandAfter
  <2>3. hand'.step = hand.step /\ hand'.task = Orphan(hand.task, dead)
    BY <2>1, <2>2 DEF Hands
  <2> QED
    BY <1>2, <2>1, <2>3, OrphanOf DEF At
<1> QED
  BY <1>1, <1>2

\* After a callback the task is to be unlocked.
LEMMA CalledBackIsAnswered ==
    ASSUME TypeInv, hand # NULL, NEW dead, NEW asked, CalledBack(asked, dead)
    PROVE  ~At("call")'
<1>1. hand \in Hands /\ hand.task \in Tasks
  BY DEF TypeInv, TypeOK, Hands
<1>2. HandAfter(dead) \in Hands
  BY <1>1, OrphanOf DEF HandAfter, Hands
<1>3. hand'.step = "unlock"
  BY <1>2 DEF CalledBack, Hands
<1> QED
  BY <1>3 DEF At

LEMMA GetPays == ASSUME TypeInv, PaidInv, Get PROVE PaidInv'
<1>1. /\ hand \in Hands /\ At("call") /\ hand # NULL
      /\ paid \in Seq(Sales)
  BY DEF Get, At, TypeInv, TypeOK
<1>2. ~At("call")'
  BY <1>1 DEF Get, Answered, At, Hands
<1>3. DOMAIN stored \subseteq DOMAIN stored'
  BY DEF Get
<1>4. ASSUME hand.task.what = "item", NEW answered \in BOOLEAN, paid' = Sold(hand.task, answered),
             answered => DOMAIN stored' = DOMAIN stored \cup {Key(hand.task)}
      PROVE  PaidInv'
  <2> DEFINE sale == [link |-> hand.task.of, answered |-> answered]
  <2>1. /\ DOMAIN paid' = 1 .. Len(paid) + 1 /\ DOMAIN paid = 1 .. Len(paid) /\ Len(paid) \in Nat
        /\ \A i \in 1 .. Len(paid) : paid'[i] = paid[i]
        /\ paid'[Len(paid) + 1] = sale
    <3>1. paid' = Append(paid, sale)
      BY <1>4 DEF Sold
    <3> HIDE DEF sale
    <3> QED
      BY <1>1, <3>1
  <2>2. sale.link = hand.task.of /\ sale.answered = answered
    OBVIOUS
  <2> HIDE DEF sale
  <2>3. Key(hand.task) = <<"item", sale.link>> /\ Key(hand.task) \notin DOMAIN stored
    BY <1>1, <1>4, <2>2 DEF Key, PaidInv
  <2>4. \A i \in DOMAIN paid : paid[i].link = sale.link => ~paid[i].answered
    BY <2>3 DEF PaidInv
  <2>5. ASSUME NEW i \in DOMAIN paid', paid'[i].answered
        PROVE  <<"item", paid'[i].link>> \in DOMAIN stored'
    <3>1. CASE i \in 1 .. Len(paid)
      BY <1>3, <2>1, <2>5, <3>1 DEF PaidInv
    <3>2. CASE i = Len(paid) + 1
      BY <1>4, <2>1, <2>2, <2>3, <2>5, <3>2
    <3> QED
      BY <2>1, <3>1, <3>2
  <2>6. PaidOnce'
    <3> SUFFICES ASSUME NEW i \in DOMAIN paid', NEW j \in DOMAIN paid', i < j,
                        paid'[i].link = paid'[j].link
                 PROVE  ~paid'[i].answered
      BY DEF PaidOnce
    <3>1. i \in 1 .. Len(paid) /\ paid'[i] = paid[i]
      BY <2>1
    <3>2. CASE j \in 1 .. Len(paid)
      BY <2>1, <3>1, <3>2 DEF PaidInv, PaidOnce
    <3>3. CASE j = Len(paid) + 1
      BY <2>1, <2>4, <3>1, <3>3
    <3> QED
      BY <2>1, <3>2, <3>3
  <2> QED
    BY <1>2, <2>5, <2>6 DEF PaidInv
<1>5. CASE UNCHANGED paid
  BY <1>2, <1>3, <1>5 DEF PaidInv, PaidOnce
<1>6. CASE hand.task.what # "item"
  BY <1>5, <1>6 DEF Get, Sold
<1>7. CASE hand.task.what = "item" /\ ~UNCHANGED paid
  <2>1. \/ /\ paid' = Sold(hand.task, TRUE)
           /\ DOMAIN stored' = DOMAIN stored \cup {Key(hand.task)}
        \/ paid' = Sold(hand.task, FALSE)
    BY <1>7 DEF Get
  <2> QED
    BY <1>4, <1>7, <2>1
<1> QED
  BY <1>5, <1>6, <1>7

\* Nobody else pays, or takes a link out of the proxy.
LEMMA PostPaysNothing == ASSUME TypeInv, PaidInv, Post PROVE PaidInv'
<1>1. hand \in Hands /\ UNCHANGED paid
  BY DEF Post, At, TypeInv, TypeOK
<1>2. ~At("call")'
  BY <1>1 DEF Post, Answered, At, Hands
<1>3. \A i \in DOMAIN paid : paid[i].answered => <<"item", paid[i].link>> \in DOMAIN stored'
  <2>1. stored' = stored \/ stored' = Refreshed
    BY DEF Post
  <2>2. \A i \in DOMAIN paid : <<"item", paid[i].link>>[1] # "comments"
    OBVIOUS
  <2> QED
    BY <2>1, <2>2 DEF Refreshed, PaidInv
<1> QED
  BY <1>1, <1>2, <1>3 DEF PaidInv, PaidOnce

LEMMA PaidStep == TypeInv /\ PaidInv /\ [Next]_vars => PaidInv'
<1> SUFFICES ASSUME TypeInv, PaidInv, [Next]_vars PROVE PaidInv'
  OBVIOUS
<1>1. CASE User
  <2>1. UNCHANGED serverVars /\ (UNCHANGED hand \/ \E dead : hand' = HandAfter(dead))
    BY <1>1
    DEF User, OpenPage, OnReturnButtonPress, OnCommentButtonPress, OnReplyButtonPress,
        OnSubmitButtonPress, OnDownloadButtonPress, OnDownloadItemPress, OnFriendsPress,
        OnMessagePress, Opens, OnFolderPress, OnMessageRowPress, OnClosePress, workVars
  <2> QED
    BY <2>1, PaidUntouched, OrphanAsksTheSame DEF serverVars
<1>2. CASE WorkerTakes
  <2>1. /\ UNCHANGED serverVars
        /\ At("call")' => ~Found(Head(queue)) /\ hand'.task = Head(queue)
    BY <1>2 DEF WorkerTakes, At
  <2> QED
    BY <2>1 DEF PaidInv, PaidOnce, serverVars, Found, Posts
<1>3. CASE \/ CommentsCallback \/ ReplyCallback \/ CommentCallback \/ UserIconCallback
           \/ DownloadCallback \/ BoxCallback
  <2>1. hand # NULL /\ UNCHANGED serverVars /\ \E asked, dead : CalledBack(asked, dead)
    BY <1>3
    DEF CommentsCallback, ReplyCallback, CommentCallback, UserIconCallback, DownloadCallback,
        BoxCallback, At
  <2> QED
    BY <2>1, PaidUntouched, CalledBackIsAnswered DEF serverVars
<1>4. CASE Unlock \/ GoneCallback
  <2>1. hand' = NULL /\ UNCHANGED <<stored, paid>>
    BY <1>4 DEF Unlock, GoneCallback, serverVars
  <2> QED
    BY <2>1, PaidUntouched DEF At
<1>5. CASE Timers \/ UNCHANGED vars
  <2>1. UNCHANGED <<hand, stored, paid>>
    BY <1>5 DEF Timers, SpinTimeout, LooseTimeout, vars, workVars, serverVars
  <2> QED
    BY <2>1, PaidUntouched
<1> QED
  BY <1>1, <1>2, <1>3, <1>4, <1>5, GetPays, PostPaysNothing DEF Next, Worker

\* For any instance: however often a price is pressed, the server does not sell a
\* link again once its answer to an earlier sale has come.
THEOREM SoldOnce == Spec => []PaidOnce
<1>1. Init => PaidInv
  BY DEF Init, InitRequests, PaidInv, PaidOnce, At
<1>2. PaidInv => PaidOnce
  BY DEF PaidInv
<1> QED
  BY <1>1, <1>2, InitTyped, TypeStep, PaidStep, PTL DEF Spec

-----------------------------------------------------------------------------
(***************************************************************************)
(* What the steps do to the tasks.                                          *)
(***************************************************************************)

\* The task in hand when actors are destroyed.
LEMMA HandAfterIs ==
    ASSUME TypeInv, NEW dead
    PROVE  /\ hand = NULL => HandAfter(dead) = NULL
           /\ hand # NULL => /\ HandAfter(dead) \in Hands /\ HandAfter(dead) # NULL
                             /\ HandAfter(dead).task = Orphan(hand.task, dead)
                             /\ HandAfter(dead).step = hand.step
                             /\ HandAfter(dead).ok = hand.ok
                             /\ HandAfter(dead).number = hand.number
<1>1. CASE hand # NULL
  <2>1. hand \in Hands /\ hand.task \in Tasks
    BY <1>1 DEF TypeInv, TypeOK, Hands
  <2>2. Orphan(hand.task, dead) \in Tasks
    BY <2>1, OrphanOf
  <2>3. HandAfter(dead) = [hand EXCEPT !.task = Orphan(hand.task, dead)]
    BY <1>1 DEF HandAfter
  <2> QED
    BY <1>1, <2>1, <2>2, <2>3, OwnerAssumption DEF Hands
<1> QED
  BY <1>1 DEF HandAfter

\* The task in hand after it was called back.
LEMMA CalledBackIs ==
    ASSUME TypeInv, hand # NULL, NEW dead, NEW asked, CalledBack(asked, dead)
    PROVE  /\ hand' \in Hands /\ hand' # NULL /\ hand'.step = "unlock"
           /\ hand'.task = Orphan(hand.task, dead)
<1>1. /\ HandAfter(dead) \in Hands /\ HandAfter(dead).task = Orphan(hand.task, dead)
      /\ hand' = [HandAfter(dead) EXCEPT !.step = "unlock"]
  BY HandAfterIs DEF CalledBack
<1> QED
  BY <1>1, OwnerAssumption DEF Hands

\* When nobody is destroyed, tasks stay as they are.
LEMMA NobodyGone ==
    ASSUME TypeInv
    PROVE  HandAfter({}) = hand /\ \A asked : QueueAfter(asked, {}) = asked \o queue
<1>1. [i \in DOMAIN queue |-> Orphan(queue[i], {})] = queue
  BY DEF Orphan, TypeInv, TypeOK
<1>2. HandAfter({}) = hand
  BY DEF HandAfter, Orphan, TypeInv, TypeOK, Hands
<1> QED
  BY <1>1, <1>2 DEF QueueAfter

\* What the user presses puts tasks before those that wait, and may destroy a
\* dialog; the list of the comments stays.
LEMMA UserPushes ==
    ASSUME TypeInv, TypeInv', User, ~OpenPage, ~OnReturnButtonPress
    PROVE  /\ UNCHANGED serverVars
           /\ \E asked \in Seq(Tasks), dead \in SUBSET Boxes :
                 queue' = QueueAfter(asked, dead) /\ hand' = HandAfter(dead)
           /\ \/ UNCHANGED comments
              \/ /\ comments \in CommentLists
                 /\ \E e : comments' = [comments EXCEPT !.expanded = e]
<1>1. <<>> \in Seq(Tasks) /\ {} \in SUBSET Boxes
  OBVIOUS
<1>2. ASSUME NEW asked \in Seq(Tasks), queue' = asked \o queue, UNCHANGED hand
      PROVE  queue' = QueueAfter(asked, {}) /\ hand' = HandAfter({})
  BY <1>2, NobodyGone
<1>3. UNCHANGED workVars => queue' = <<>> \o queue /\ UNCHANGED hand
  BY DEF workVars, TypeInv, TypeOK
<1>4. CASE OnReplyButtonPress
  <2>1. UNCHANGED workVars /\ UNCHANGED serverVars /\ comments \in CommentLists
        /\ \E e : comments' = [comments EXCEPT !.expanded = e]
    BY <1>4 DEF OnReplyButtonPress, Visible, TypeInv, TypeOK, CommentsType
  <2> QED
    BY <1>1, <1>2, <1>3, <2>1
<1>5. ASSUME NEW b \in Boxes, OnClosePress(b), UNCHANGED pageVars
      PROVE  /\ queue' = QueueAfter(<<>>, {b}) /\ hand' = HandAfter({b}) /\ {b} \in SUBSET Boxes
             /\ UNCHANGED serverVars /\ UNCHANGED comments
  BY <1>5 DEF OnClosePress, pageVars
<1>6. ASSUME OnDownloadButtonPress \/ \E b \in Boxes : OnMessageRowPress(b), UNCHANGED pageVars
      PROVE  UNCHANGED <<workVars, serverVars, comments>>
  BY <1>6 DEF OnDownloadButtonPress, OnMessageRowPress, pageVars
<1>7. ASSUME \/ OnCommentButtonPress \/ OnSubmitButtonPress
             \/ (\E i \in 1 .. Links : OnDownloadItemPress(i)) /\ UNCHANGED pageVars
      PROVE  /\ UNCHANGED <<serverVars, comments>>
             /\ \E asked \in Seq(Tasks) : queue' = asked \o queue /\ UNCHANGED hand
  <2>1. ASSUME NEW what \in Posts \cup {"item"}, NEW of \in Ofs, NEW owner \in PageActors
        PROVE  <<Ask(what, of, owner)>> \in Seq(Tasks)
    BY DEF Ask, Tasks, Whats, Owners
  <2>2. /\ NULL \in Ofs /\ \A i \in 1 .. Links : i \in Ofs
        /\ {"page", "comment", "download"} \subseteq PageActors
        /\ {"comment", "reply"} \subseteq Posts
    BY DEF Ofs, PageActors, CommentsActors, ListActors, Posts
  <2>3. CASE OnCommentButtonPress
    BY <2>1, <2>2, <2>3 DEF OnCommentButtonPress
  <2>4. CASE OnSubmitButtonPress
    BY <2>1, <2>2, <2>4 DEF OnSubmitButtonPress, pageVars
  <2>5. ASSUME NEW i \in 1 .. Links, OnDownloadItemPress(i), UNCHANGED pageVars
        PROVE  /\ UNCHANGED <<serverVars, comments>>
               /\ \E asked \in Seq(Tasks) : queue' = asked \o queue /\ UNCHANGED hand
    <3>1. CASE Known("item", i)
      BY <1>1, <1>3, <2>5, <3>1 DEF OnDownloadItemPress, workVars, pageVars
    <3>2. CASE ~Known("item", i)
      BY <2>1, <2>2, <2>5, <3>2 DEF OnDownloadItemPress, pageVars
    <3> QED
      BY <3>1, <3>2
  <2> QED
    BY <1>7, <2>3, <2>4, <2>5
<1>8. ASSUME NEW b \in Boxes, UNCHANGED <<pageVars, download>>,
             \/ OnFriendsPress(b) \/ OnMessagePress(b)
             \/ \E f \in Folders : OnFolderPress(b, f)
      PROVE  /\ UNCHANGED <<serverVars, comments>>
             /\ \E asked \in Seq(Tasks) : queue' = asked \o queue /\ UNCHANGED hand
  <2>1. ASSUME NEW a, a.box \in OpenBoxes, boxes' = [boxes EXCEPT ![b] = a.box],
               (boxes[b] \in OpenBoxes)' => a.asked \in Seq(Good')
        PROVE  a.asked \in Seq(Tasks)
    <3>1. (boxes[b] \in OpenBoxes)'
      BY <1>8, <2>1, BoxesTyped
    <3> QED
      BY <2>1, <3>1, GoodTyped
  <2>2. CASE OnFriendsPress(b)
    BY <1>8, <2>1, <2>2, FriendsOfGood DEF OnFriendsPress, Opens, pageVars
  <2>3. CASE OnMessagePress(b)
    BY <1>8, <2>1, <2>3, MessagesOfGood DEF OnMessagePress, Opens, pageVars
  <2>4. ASSUME NEW f \in Folders, OnFolderPress(b, f)
        PROVE  /\ UNCHANGED <<serverVars, comments>>
               /\ \E asked \in Seq(Tasks) : queue' = asked \o queue /\ UNCHANGED hand
    <3>1. boxes[b] \in OpenBoxes
      BY <2>4 DEF OnFolderPress, IsOpen, TypeInv, TypeOK, MessagesType
    <3>2. /\ boxes' = [boxes EXCEPT ![b] = AskFolder(b, boxes[b], f).box]
          /\ queue' = AskFolder(b, boxes[b], f).asked \o queue /\ UNCHANGED <<hand, serverVars>>
      BY <2>4 DEF OnFolderPress
    <3> QED
      BY <1>8, <2>1, <3>1, <3>2, AskFolderGood DEF pageVars
  <2> QED
    BY <1>8, <2>2, <2>3, <2>4
<1> QED
  BY <1>1, <1>2, <1>3, <1>4, <1>5, <1>6, <1>7, <1>8 DEF User

-----------------------------------------------------------------------------
(***************************************************************************)
(* Locked comments wait for an answer.                                      *)
(***************************************************************************)

\* The spin turns when, and only when, the comments are locked.
SpinFits(c) ==
    IF c.lock THEN c.spin.status = "START" /\ c.spin.timers > 0
    ELSE c.spin.status # "START"

AskedFor == Pending("comments", "comments")

\* The request of the comments goes on waiting while others are put before it.
LEMMA WaitsOn ==
    ASSUME TypeInv, NEW dead, "comments" \notin dead, NEW asked \in Seq(Tasks),
           queue' = QueueAfter(asked, dead), Waits("comments", "comments")
    PROVE  Waits("comments", "comments")'
<1>1. PICK i \in DOMAIN queue : queue[i].what = "comments" /\ queue[i].owner = "comments"
  BY DEF Waits
<1> DEFINE rest == [j \in DOMAIN queue |-> Orphan(queue[j], dead)]
<1>2. queue \in Seq(Tasks) /\ queue[i] \in Tasks
  BY DEF TypeInv, TypeOK
<1>3. rest[i].what = "comments" /\ rest[i].owner = "comments"
  BY <1>1, <1>2, OrphanOf
<1>4. rest \in Seq(Tasks) /\ DOMAIN rest = 1 .. Len(rest) /\ i \in 1 .. Len(rest)
  BY <1>2, OrphanOf
<1>6. queue' = asked \o rest
  BY DEF QueueAfter
<1> HIDE DEF rest
<1>7. /\ i + Len(asked) \in DOMAIN (asked \o rest)
      /\ (asked \o rest)[i + Len(asked)] = rest[i]
  BY <1>4
<1> QED
  BY <1>3, <1>6, <1>7 DEF Waits

\* What was just asked for waits.
LEMMA WaitsFirst ==
    ASSUME NEW rest \in Seq(Tasks),
           queue' = <<Ask("comments", NULL, "comments")>> \o rest
    PROVE  Waits("comments", "comments")'
<1>1. /\ 1 \in DOMAIN queue'
      /\ queue'[1] = Ask("comments", NULL, "comments")
  <2>1. Ask("comments", NULL, "comments") \in Tasks
    BY DEF Ask, Tasks, Whats, Ofs, Owners, PageActors, CommentsActors
  <2> QED
    BY <2>1
<1> QED
  BY <1>1 DEF Waits, Ask

\* A request in hand stays in hand, answered or not.
LEMMA HandStays ==
    ASSUME TypeInv, NEW dead, "comments" \notin dead, InHand("comments", "comments"),
           (hand \in Hands)', hand'.task = Orphan(hand.task, dead)
    PROVE  InHand("comments", "comments")'
<1>1. hand.task \in Tasks
  BY DEF InHand, TypeInv, TypeOK, Hands
<1> QED
  BY <1>1, OrphanOf, OwnerAssumption DEF InHand

\* After a callback that did not destroy them, the comments still wait.
LEMMA CallbackKeepsAsked ==
    ASSUME TypeInv, hand # NULL, NEW dead, "comments" \notin dead, NEW asked \in Seq(Tasks),
           CalledBack(asked, dead), AskedFor
    PROVE  AskedFor'
<1>1. hand \in Hands /\ hand.task \in Tasks
  BY DEF TypeInv, TypeOK, Hands
<1>2. HandAfter(dead) = [hand EXCEPT !.task = Orphan(hand.task, dead)]
  BY DEF HandAfter
<1>3. (hand \in Hands)' /\ hand'.task = Orphan(hand.task, dead)
  <2>1. HandAfter(dead) \in Hands /\ HandAfter(dead).task = Orphan(hand.task, dead)
    BY <1>1, <1>2, OrphanOf DEF Hands
  <2>2. hand' = [HandAfter(dead) EXCEPT !.step = "unlock"]
    BY DEF CalledBack
  <2> QED
    BY <2>1, <2>2 DEF Hands
<1>4. Waits("comments", "comments") => Waits("comments", "comments")'
  BY WaitsOn DEF CalledBack
<1>5. InHand("comments", "comments") => InHand("comments", "comments")'
  BY <1>3, HandStays
<1> QED
  BY <1>4, <1>5 DEF AskedFor, Pending

\* And after the user's asking.
LEMMA UserKeepsAsked ==
    ASSUME TypeInv, NEW dead, "comments" \notin dead, NEW asked \in Seq(Tasks),
           queue' = QueueAfter(asked, dead), hand' = HandAfter(dead), AskedFor
    PROVE  AskedFor'
<1>1. Waits("comments", "comments") => Waits("comments", "comments")'
  BY WaitsOn
<1>2. ASSUME InHand("comments", "comments") PROVE InHand("comments", "comments")'
  <2>1. hand \in Hands /\ hand.task \in Tasks
    BY <1>2 DEF InHand, TypeInv, TypeOK, Hands
  <2>2. hand' = [hand EXCEPT !.task = Orphan(hand.task, dead)]
    BY <1>2 DEF InHand, HandAfter
  <2>3. (hand \in Hands)' /\ hand'.task = Orphan(hand.task, dead)
    BY <2>1, <2>2, OrphanOf DEF Hands
  <2> QED
    BY <1>2, <2>3, HandStays
<1> QED
  BY <1>1, <1>2 DEF AskedFor, Pending

\* A push changes the lock and the spin together, and only when it asks.
LEMMA AskForLocks ==
    ASSUME NEW c \in CommentLists, SpinFits(c)
    PROVE  /\ SpinFits(AskFor(c).comments)
           /\ \/ /\ AskFor(c).comments.lock = c.lock
                 /\ AskFor(c).dead = ListActors
              \/ /\ AskFor(c).asked = <<Ask("comments", NULL, "comments")>>
                 /\ AskFor(c).dead = {}
<1>1. CASE Known("comments", NULL)
  <2> DEFINE list == Load(c, stored[<<"comments", NULL>>])
  <2>1. AskFor(c).comments = list /\ AskFor(c).dead = ListActors
    BY <1>1 DEF AskFor
  <2>2. list.lock = c.lock /\ list.spin = c.spin
    BY DEF Load, CommentLists
  <2> HIDE DEF list
  <2> QED
    BY <2>1, <2>2 DEF SpinFits
<1>2. CASE ~Known("comments", NULL)
  <2> DEFINE list == SetLock(c, TRUE)
  <2>1. /\ AskFor(c).comments = list /\ AskFor(c).dead = {}
        /\ AskFor(c).asked = <<Ask("comments", NULL, "comments")>>
    BY <1>2 DEF AskFor
  <2>2. SpinFits(list)
    BY DEF SetLock, SpinFits, Start, CommentLists, Spins
  <2> HIDE DEF list
  <2> QED
    BY <2>1, <2>2
<1> QED
  BY <1>1, <1>2

\* Nothing becomes of the comments, and their request goes on.
LEMMA LockKept ==
    ASSUME LockedWhileAsked, UNCHANGED comments, AskedFor => AskedFor'
    PROVE  LockedWhileAsked'
  BY DEF LockedWhileAsked, AskedFor

LEMMA CommentsThere ==
    ASSUME TypeInv, hand # NULL, hand.task.owner \in CommentsActors
    PROVE  comments \in CommentLists /\ comments # NULL
  BY OwnerAssumption DEF TypeInv, Good, Served, CommentsActors, ListActors, PageActors

\* What the user does.
LEMMA UserLocks ==
    ASSUME TypeInv, TypeInv', LockedWhileAsked, User
    PROVE  LockedWhileAsked'
<1>1. CASE OpenPage
  <2> DEFINE a == AskFor(NewComments)
             rest == [i \in DOMAIN queue |-> Orphan(queue[i], Boxes)]
  <2>1. /\ SpinFits(a.comments)
        /\ a.comments.lock => a.asked = <<Ask("comments", NULL, "comments")>>
    <3>1. SpinFits(NewComments) /\ NewComments.lock = FALSE
      BY DEF SpinFits, NewComments, NewTexture
    <3> QED
      BY <3>1, NewTyped, AskForLocks
  <2>2. comments' = a.comments /\ queue' = a.asked \o rest
    BY <1>1 DEF OpenPage, QueueAfter
  <2>3. rest \in Seq(Tasks)
    <3>1. queue \in Seq(Tasks)
      BY DEF TypeInv, TypeOK
    <3>2. \A i \in DOMAIN queue : Orphan(queue[i], Boxes) \in Tasks
      BY <3>1, OrphanOf
    <3> QED
      BY <3>1, <3>2
  <2> HIDE DEF a, rest
  <2>4. comments'.lock => AskedFor'
    BY <2>1, <2>2, <2>3, WaitsFirst DEF AskedFor, Pending
  <2> QED
    BY <2>1, <2>2, <2>4 DEF LockedWhileAsked, SpinFits, AskedFor
<1>2. CASE OnReturnButtonPress
  BY <1>2 DEF OnReturnButtonPress, LockedWhileAsked
<1>3. CASE ~OpenPage /\ ~OnReturnButtonPress
  <2>1. PICK asked \in Seq(Tasks), dead \in SUBSET Boxes :
           queue' = QueueAfter(asked, dead) /\ hand' = HandAfter(dead)
    BY <1>3, UserPushes
  <2>2. "comments" \notin dead
    BY BoxesApart
  <2>3. AskedFor => AskedFor'
    BY <2>1, <2>2, UserKeepsAsked
  <2>4. CASE UNCHANGED comments
    BY <2>3, <2>4, LockKept
  <2>5. CASE comments \in CommentLists /\ \E e : comments' = [comments EXCEPT !.expanded = e]
    <3>1. comments'.lock = comments.lock /\ comments'.spin = comments.spin /\ comments # NULL
      BY <2>5, OwnerAssumption DEF CommentLists
    <3> QED
      BY <2>3, <3>1 DEF LockedWhileAsked, AskedFor
  <2> QED
    BY <1>3, <2>4, <2>5, UserPushes
<1> QED
  BY <1>1, <1>2, <1>3

\* What the worker does.
LEMMA WorkerLocks ==
    ASSUME TypeInv, TypeInv', LockedWhileAsked, Worker
    PROVE  LockedWhileAsked'
<1>1. CASE WorkerTakes /\ UNCHANGED pageVars
  <2>1. (hand # NULL)' /\ hand'.task = Head(queue) /\ queue' = Tail(queue) /\ queue # <<>>
    BY <1>1, TakesTask, OwnerAssumption DEF WorkerTakes
  <2>2. queue \in Seq(Tasks) /\ hand = NULL
    BY <1>1 DEF WorkerTakes, TypeInv, TypeOK
  <2>3. AskedFor => AskedFor'
    <3>1. SUFFICES ASSUME NEW i \in DOMAIN queue, queue[i].what = "comments",
                          queue[i].owner = "comments"
                   PROVE  AskedFor'
      BY <2>2 DEF AskedFor, Pending, Waits, InHand
    <3>2. CASE i = 1
      BY <2>1, <2>2, <3>1, <3>2 DEF AskedFor, Pending, InHand
    <3>3. CASE i # 1
      <4>1. i - 1 \in DOMAIN queue' /\ queue'[i - 1] = queue[i]
        BY <2>1, <2>2, <3>1, <3>3
      <4> QED
        BY <3>1, <4>1 DEF AskedFor, Pending, Waits
    <3> QED
      BY <3>2, <3>3
  <2> QED
    BY <1>1, <2>3, LockKept DEF pageVars
<1>2. CASE (Get \/ Post) /\ UNCHANGED pageVars
  <2>1. hand \in Hands /\ hand # NULL
    BY <1>2 DEF Get, Post, At, TypeInv, TypeOK
  <2>2. {server, server + 1, 0} \subseteq Nat
    BY DEF TypeInv, TypeOK
  <2>3. PICK ok \in BOOLEAN, number \in Nat : hand' = Answered(ok, number)
    BY <1>2, <2>2 DEF Get, Post
  <2>4. (hand # NULL)' /\ hand'.task = hand.task /\ UNCHANGED queue
    BY <1>2, <2>1, <2>3, AnsweredTask, OwnerAssumption DEF Get, Post
  <2>5. AskedFor => AskedFor'
    BY <2>4 DEF AskedFor, Pending, Waits, InHand
  <2> QED
    BY <1>2, <2>5, LockKept DEF pageVars
<1>3. CASE CommentsCallback
  <2> DEFINE number == IF hand.ok THEN hand.number ELSE NULL
  <2>1. hand # NULL /\ hand \in Hands /\ comments \in CommentLists /\ comments # NULL
    BY <1>3, CommentsThere DEF CommentsCallback, At, TypeInv, TypeOK, CommentsActors
  <2>2. comments' = Load(comments, number) /\ CalledBack(UserIcons(number), ListActors)
    BY <1>3 DEF CommentsCallback
  <2>3. comments'.lock = comments.lock /\ comments'.spin = comments.spin
    BY <2>1, <2>2 DEF Load, CommentLists
  <2>4. UserIcons(number) \in Seq(Tasks)
    <3>1. number \in Nat \cup {NULL}
      BY <2>1 DEF Hands
    <3> HIDE DEF number
    <3>2. (comments \in CommentLists)'
      BY <2>1, <2>2, <3>1, LoadTyped
    <3> QED
      BY <3>1, <3>2, UserIconsGood, GoodTyped
  <2> HIDE DEF number
  <2>5. AskedFor => AskedFor'
    BY <2>1, <2>2, <2>4, CallbackKeepsAsked DEF ListActors
  <2> QED
    BY <2>1, <2>3, <2>5 DEF LockedWhileAsked, AskedFor
<1>4. ASSUME NEW c \in CommentLists, SpinFits(c), Fits(c), c.lock => AskedFor,
             comments' = AskFor(c).comments, hand # NULL,
             NEW dead, dead = AskFor(c).dead \/ (dead = CommentsActors /\ ~c.lock),
             CalledBack(AskFor(c).asked, dead)
      PROVE  LockedWhileAsked'
  <2> DEFINE asked == AskFor(c).asked
             rest == [i \in DOMAIN queue |-> Orphan(queue[i], dead)]
  <2>1. (comments \in CommentLists)' /\ asked \in Seq(Good')
    BY <1>4, AskForGood
  <2>2. asked \in Seq(Tasks) /\ rest \in Seq(Tasks)
    <3>1. queue \in Seq(Tasks)
      BY DEF TypeInv, TypeOK
    <3>2. \A i \in DOMAIN queue : Orphan(queue[i], dead) \in Tasks
      BY <3>1, OrphanOf
    <3> QED
      BY <2>1, <3>1, <3>2, GoodTyped
  <2>3. queue' = asked \o rest
    BY <1>4 DEF CalledBack, QueueAfter
  <2>4. /\ SpinFits(comments')
        /\ \/ comments'.lock = c.lock /\ AskFor(c).dead = ListActors
           \/ asked = <<Ask("comments", NULL, "comments")>>
    BY <1>4, AskForLocks
  <2> HIDE DEF asked, rest
  <2>5. asked = <<Ask("comments", NULL, "comments")>> => AskedFor'
    BY <2>2, <2>3, WaitsFirst DEF AskedFor, Pending
  <2>6. ASSUME c.lock, AskFor(c).dead = ListActors PROVE AskedFor'
    BY <1>4, <2>2, <2>6, CallbackKeepsAsked DEF asked, ListActors
  <2> QED
    BY <2>4, <2>5, <2>6 DEF LockedWhileAsked, SpinFits, AskedFor
<1>5. CASE ReplyCallback /\ hand.ok
  <2>1. hand # NULL /\ comments \in CommentLists /\ comments # NULL
    BY <1>5, CommentsThere DEF ReplyCallback, At, CommentsActors, ListActors
  <2>2. SpinFits(comments) /\ Fits(comments) /\ (comments.lock => AskedFor)
    BY <2>1 DEF LockedWhileAsked, SpinFits, AskedFor, Fits, TypeInv, TypeOK, CommentsType
  <2>3. comments' = AskFor(comments).comments
        /\ CalledBack(AskFor(comments).asked, AskFor(comments).dead)
    BY <1>5 DEF ReplyCallback
  <2> QED
    BY <1>4, <2>1, <2>2, <2>3
<1>6. CASE CommentCallback /\ hand.ok
  <2>1. hand # NULL /\ comments' = AskFor(NewComments).comments
        /\ CalledBack(AskFor(NewComments).asked, CommentsActors)
    BY <1>6 DEF CommentCallback, At
  <2>2. SpinFits(NewComments) /\ NewComments.lock = FALSE
    BY DEF SpinFits, NewComments, NewTexture
  <2> QED
    BY <1>4, <2>1, <2>2, NewTyped
<1>7. CASE \/ UserIconCallback
           \/ (ReplyCallback \/ CommentCallback) /\ ~hand.ok
           \/ DownloadCallback /\ UNCHANGED pageVars
  <2>1. hand # NULL /\ CalledBack(<<>>, {}) /\ UNCHANGED comments
    BY <1>7
    DEF UserIconCallback, ReplyCallback, CommentCallback, DownloadCallback, At, pageVars
  <2>2. <<>> \in Seq(Tasks)
    OBVIOUS
  <2> QED
    BY <2>1, <2>2, CallbackKeepsAsked, LockKept
<1>8. CASE BoxCallback /\ UNCHANGED <<pageVars, download>>
  <2>1. hand # NULL /\ \E asked \in Seq(Good') : CalledBack(asked, {})
    BY <1>8, BoxAsks DEF BoxCallback, At
  <2>2. AskedFor => AskedFor'
    BY <2>1, GoodTyped, CallbackKeepsAsked
  <2> QED
    BY <1>8, <2>2, LockKept DEF pageVars
<1>9. CASE Unlock
  <2>1. CASE hand.task.owner = "comments"
    <3>1. comments \in CommentLists /\ comments # NULL
      BY <1>9, <2>1, CommentsThere DEF Unlock, At, CommentsActors
    <3>2. comments' = SetLock(comments, FALSE)
      BY <1>9, <2>1 DEF Unlock, Unlocked
    <3>3. SpinFits(comments') /\ ~comments'.lock
      <4>1. CASE comments.lock = FALSE
        BY <3>1, <3>2, <4>1 DEF SetLock, LockedWhileAsked, SpinFits
      <4>2. CASE comments.lock # FALSE
        <5>1. comments' = [comments EXCEPT !.lock = FALSE, !.spin = Stop(comments.spin)]
          BY <3>2, <4>2 DEF SetLock
        <5>2. comments'.spin = Stop(comments.spin) /\ comments'.lock = FALSE
          BY <3>1, <5>1 DEF CommentLists
        <5>3. comments.spin \in Spins
          BY <3>1 DEF CommentLists
        <5>4. Stop(comments.spin).status = "STOP"
          BY <5>3 DEF Stop, Spins
        <5> QED
          BY <5>2, <5>4 DEF SpinFits
      <4> QED
        BY <4>1, <4>2
    <3> QED
      BY <3>3 DEF LockedWhileAsked, SpinFits
  <2>2. CASE hand.task.owner # "comments"
    BY <1>9, <2>2, LockKept DEF Unlock, AskedFor, Pending, Waits, InHand
  <2> QED
    BY <2>1, <2>2
<1>10. CASE GoneCallback
  BY <1>10, LockKept DEF GoneCallback, pageVars, AskedFor, Pending, Waits, InHand
<1> QED
  BY <1>1, <1>2, <1>3, <1>5, <1>6, <1>7, <1>8, <1>9, <1>10 DEF Worker

LEMMA LockStep == TypeInv /\ TypeInv' /\ LockedWhileAsked /\ [Next]_vars => LockedWhileAsked'
<1> SUFFICES ASSUME TypeInv, TypeInv', LockedWhileAsked, [Next]_vars PROVE LockedWhileAsked'
  OBVIOUS
<1>1. CASE SpinTimeout
  <2>1. /\ comments \in CommentLists /\ comments # NULL /\ UNCHANGED workVars
        /\ comments' = [comments EXCEPT !.spin = Timeout(comments.spin)]
    BY <1>1 DEF SpinTimeout, TypeInv, TypeOK, CommentsType
  <2>2. comments'.lock = comments.lock /\ comments'.spin = Timeout(comments.spin)
    BY <2>1 DEF CommentLists
  <2>3. comments.spin \in Spins
    BY <2>1 DEF CommentLists
  <2>4. /\ comments.spin.status = "START" => Timeout(comments.spin) = comments.spin
        /\ Timeout(comments.spin).status = comments.spin.status
    BY <2>3 DEF Timeout, Spins
  <2> QED
    BY <2>1, <2>2, <2>4 DEF LockedWhileAsked, Pending, Waits, InHand, workVars
<1>2. CASE LooseTimeout \/ UNCHANGED vars
  BY <1>2, LockKept
  DEF LooseTimeout, vars, workVars, pageVars, AskedFor, Pending, Waits, InHand
<1> QED
  BY <1>1, <1>2, UserLocks, WorkerLocks DEF Next, Timers

\* For any instance: comments are hidden only as long as their answer is to come,
\* and the spin turns as long as they are.
THEOREM HiddenOnlyWhileAsked == Spec => []LockedWhileAsked
<1>1. Init => LockedWhileAsked
  BY DEF Init, LockedWhileAsked
<1> QED
  BY <1>1, InitTyped, TypeStep, LockStep, PTL DEF Spec

-----------------------------------------------------------------------------
(***************************************************************************)
(* Comments that are listed are those the server has.                       *)
(***************************************************************************)

Key0 == <<"comments", NULL>>

\* A list that is behind is to be asked for: its request waits or is not answered
\* yet, or the POST that overtook it has not been called back.
Covered ==
    \/ comments.list = NULL \/ comments.list >= told
    \/ Waits("comments", "comments")
    \/ InHand("comments", "comments") /\ hand.step \in {"call", "callback"}
    \/ At("callback") /\ hand.ok /\ hand.task.what \in Posts

\* As long as no answer of a POST was lost, the proxy and an answer that is to be
\* called back tell what the server has, and the list is covered.
ServerFresh == server = told /\ (Key0 \in DOMAIN stored => stored[Key0] = told)
AnswerFresh == At("callback") /\ hand.ok /\ hand.task.owner = "comments" => hand.number = told
ListFresh == comments # NULL => Covered

FreshInv == ~excused => ServerFresh /\ AnswerFresh /\ ListFresh

\* Answers are read where nothing is asked for.
LEMMA ServerStaysFresh ==
    ASSUME ServerFresh, UNCHANGED serverVars
    PROVE  ServerFresh' /\ UNCHANGED <<told, excused>>
  BY DEF ServerFresh, serverVars

\* A task that the end of actors leaves in hand tells what it told.
LEMMA AnswerStaysFresh ==
    ASSUME TypeInv, AnswerFresh, NEW dead, hand' = HandAfter(dead), UNCHANGED told
    PROVE  AnswerFresh'
<1>1. CASE hand = NULL
  BY <1>1, HandAfterIs DEF AnswerFresh, At
<1>2. CASE hand # NULL
  <2>1. /\ hand'.task = Orphan(hand.task, dead) /\ hand'.step = hand.step
        /\ hand'.ok = hand.ok /\ hand'.number = hand.number
    BY <1>2, HandAfterIs
  <2>2. hand.task \in Tasks
    BY <1>2 DEF TypeInv, TypeOK, Hands
  <2>3. hand'.task.owner = "comments" => hand.task.owner = "comments"
    BY <2>1, <2>2, OrphanOf
  <2> QED
    BY <1>2, <2>1, <2>3 DEF AnswerFresh, At
<1> QED
  BY <1>1, <1>2

\* What is pushed for comments makes a list that the server has, or waits.
LEMMA AskedForCovers ==
    ASSUME TypeInv, ServerFresh, NEW c \in CommentLists, NEW dead,
           comments' = AskFor(c).comments, queue' = QueueAfter(AskFor(c).asked, dead),
           UNCHANGED told
    PROVE  Covered'
<1>1. CASE Known("comments", NULL)
  <2>1. AskFor(c).comments = Load(c, told)
    BY <1>1 DEF AskFor, Known, ServerFresh, Key0
  <2>2. comments'.list = told /\ told \in Nat
    BY <2>1 DEF Load, CommentLists, TypeInv, TypeOK
  <2> QED
    BY <2>2 DEF Covered
<1>2. CASE ~Known("comments", NULL)
  <2> DEFINE rest == [i \in DOMAIN queue |-> Orphan(queue[i], dead)]
  <2>1. rest \in Seq(Tasks)
    <3>1. queue \in Seq(Tasks)
      BY DEF TypeInv, TypeOK
    <3> QED
      BY <3>1, OrphanOf
  <2>2. queue' = <<Ask("comments", NULL, "comments")>> \o rest
    BY <1>2 DEF AskFor, QueueAfter
  <2> HIDE DEF rest
  <2> QED
    BY <2>1, <2>2, WaitsFirst DEF Covered
<1> QED
  BY <1>1, <1>2

\* What the user does.
LEMMA UserFresh ==
    ASSUME TypeInv, TypeInv', FreshInv, User
    PROVE  FreshInv'
<1>1. CASE OpenPage
  <2>1. /\ comments' = AskFor(NewComments).comments /\ UNCHANGED serverVars
        /\ queue' = QueueAfter(AskFor(NewComments).asked, Boxes) /\ hand' = HandAfter(Boxes)
    BY <1>1 DEF OpenPage
  <2> QED
    BY <2>1, NewTyped, ServerStaysFresh, AnswerStaysFresh, AskedForCovers
    DEF FreshInv, ListFresh, serverVars
<1>2. CASE OnReturnButtonPress
  <2>1. comments' = NULL /\ hand' = HandAfter(PageActors) /\ UNCHANGED serverVars
    BY <1>2 DEF OnReturnButtonPress
  <2> QED
    BY <2>1, ServerStaysFresh, AnswerStaysFresh DEF FreshInv, ListFresh, serverVars
<1>3. CASE ~OpenPage /\ ~OnReturnButtonPress
  <2>1. PICK asked \in Seq(Tasks), dead \in SUBSET Boxes :
           queue' = QueueAfter(asked, dead) /\ hand' = HandAfter(dead)
    BY <1>3, UserPushes
  <2>2. "comments" \notin dead
    BY BoxesApart
  <2>3. UNCHANGED serverVars
    BY <1>3, UserPushes
  <2>4. comments' # NULL => comments # NULL /\ comments'.list = comments.list
    <3>1. comments \in CommentLists
          /\ (\E e : comments' = [comments EXCEPT !.expanded = e])
          => comments # NULL /\ comments'.list = comments.list
      BY OwnerAssumption DEF CommentLists
    <3> QED
      BY <1>3, <3>1, UserPushes
  <2>5. ASSUME Covered, comments' # NULL, UNCHANGED told PROVE Covered'
    <3>1. Waits("comments", "comments") => Waits("comments", "comments")'
      BY <2>1, <2>2, WaitsOn
    <3>2. ASSUME hand # NULL
          PROVE  /\ hand' # NULL /\ hand'.step = hand.step /\ hand'.ok = hand.ok
                 /\ hand'.task.what = hand.task.what
                 /\ hand.task.owner = "comments" => hand'.task.owner = "comments"
      <4>1. hand.task \in Tasks
        BY <3>2 DEF TypeInv, TypeOK, Hands
      <4> QED
        BY <2>1, <2>2, <3>2, <4>1, HandAfterIs, OrphanOf
    <3> QED
      BY <2>4, <2>5, <3>1, <3>2 DEF Covered, InHand, At
  <2> QED
    BY <2>1, <2>3, <2>4, <2>5, ServerStaysFresh, AnswerStaysFresh
    DEF FreshInv, ListFresh, serverVars
<1> QED
  BY <1>1, <1>2, <1>3

\* A callback of another request leaves the comments covered.
LEMMA CallbackStaysFresh ==
    ASSUME TypeInv, FreshInv, hand # NULL, NEW dead, "comments" \notin dead,
           NEW asked \in Seq(Tasks), CalledBack(asked, dead), UNCHANGED serverVars,
           UNCHANGED comments, hand.task.owner # "comments",
           hand.ok => hand.task.what \notin Posts
    PROVE  FreshInv'
<1>1. hand' # NULL /\ hand'.step = "unlock" /\ queue' = QueueAfter(asked, dead)
  BY CalledBackIs DEF CalledBack
<1>2. AnswerFresh'
  BY <1>1 DEF AnswerFresh, At
<1>3. Waits("comments", "comments") => Waits("comments", "comments")'
  BY <1>1, WaitsOn
<1>4. Covered /\ UNCHANGED told => Covered'
  BY <1>3 DEF Covered, InHand, At
<1> QED
  BY <1>2, <1>4, ServerStaysFresh DEF FreshInv, ListFresh, serverVars

\* The first half of a task.
LEMMA TakesFresh ==
    ASSUME TypeInv, TypeInv', FreshInv, WorkerTakes, UNCHANGED comments
    PROVE  FreshInv'
<1> DEFINE task == Head(queue)
<1>1. /\ hand' \in Hands /\ hand' # NULL /\ hand'.task = task /\ queue' = Tail(queue)
      /\ queue # <<>> /\ hand = NULL /\ task \in Good /\ UNCHANGED serverVars
  BY TakesTask, OwnerAssumption DEF WorkerTakes
<1>2. /\ hand'.step \in {"call", "callback"}
      /\ hand'.step = "callback" => Found(task) /\ hand'.number = stored[Key(task)]
  <2>1. hand' = IF Found(task)
                THEN [task |-> task, step |-> "callback", ok |-> TRUE,
                      number |-> stored[Key(task)]]
                ELSE [task |-> task, step |-> "call", ok |-> FALSE, number |-> 0]
    BY DEF WorkerTakes
  <2> HIDE DEF task
  <2> QED
    BY <2>1
<1> HIDE DEF task
<1>3. ServerFresh => AnswerFresh'
  <2>1. task.owner = "comments" => Key(task) = Key0
    BY <1>1 DEF Good, OfItsKind, Key, Key0
  <2> QED
    BY <1>1, <1>2, <2>1 DEF ServerFresh, AnswerFresh, At, Found, serverVars
<1>4. ASSUME Waits("comments", "comments")
      PROVE  Waits("comments", "comments")' \/ InHand("comments", "comments")'
  <2>1. PICK i \in DOMAIN queue : queue[i].what = "comments" /\ queue[i].owner = "comments"
    BY <1>4 DEF Waits
  <2>2. queue \in Seq(Tasks)
    BY DEF TypeInv, TypeOK
  <2>3. CASE i = 1
    BY <1>1, <2>1, <2>2, <2>3 DEF InHand, task
  <2>4. CASE i # 1
    <3>1. i - 1 \in DOMAIN queue' /\ queue'[i - 1] = queue[i]
      BY <1>1, <2>1, <2>2, <2>4
    <3> QED
      BY <2>1, <3>1 DEF Waits
  <2> QED
    BY <2>3, <2>4
<1>5. Covered /\ UNCHANGED told => Covered'
  BY <1>1, <1>2, <1>4 DEF Covered, InHand, At
<1> QED
  BY <1>1, <1>3, <1>5, ServerStaysFresh DEF FreshInv, ListFresh, serverVars

\* An answer, and what it is of.
LEMMA AnsweredIs ==
    ASSUME TypeInv, hand # NULL, NEW ok \in BOOLEAN, NEW number \in Nat,
           hand' = Answered(ok, number)
    PROVE  /\ hand' # NULL /\ hand'.task = hand.task /\ hand'.step = "callback"
           /\ hand'.ok = ok /\ hand'.number = number
<1>1. hand \in Hands /\ hand' \in Hands
  BY AnsweredTask DEF TypeInv, TypeOK
<1> QED
  BY <1>1, OwnerAssumption DEF Answered, Hands

\* The server answers a GET.
LEMMA GetFresh ==
    ASSUME TypeInv, FreshInv, Get, UNCHANGED comments
    PROVE  FreshInv'
<1>1. /\ hand # NULL /\ hand.step = "call" /\ UNCHANGED <<queue, server, told, excused>>
      /\ server \in Nat
  BY DEF Get, At, TypeInv, TypeOK
<1>2. PICK ok \in BOOLEAN :
         /\ hand' = Answered(ok, IF ok THEN server ELSE 0)
         /\ \/ UNCHANGED stored
            \/ stored' = [k \in DOMAIN stored \cup {Key(hand.task)} |->
                              IF k = Key(hand.task) THEN server ELSE stored[k]]
  BY DEF Get
<1>3. /\ hand' # NULL /\ hand'.task = hand.task /\ hand'.step = "callback"
      /\ hand'.ok = ok /\ (ok => hand'.number = server)
  <2> DEFINE number == IF ok THEN server ELSE 0
  <2>1. number \in Nat /\ (ok => number = server)
    BY <1>1
  <2>2. hand' = Answered(ok, number)
    BY <1>2
  <2> HIDE DEF number
  <2> QED
    BY <1>1, <2>1, <2>2, AnsweredIs
<1>4. ServerFresh => ServerFresh'
  BY <1>1, <1>2 DEF ServerFresh
<1>5. ServerFresh => AnswerFresh'
  BY <1>1, <1>3 DEF ServerFresh, AnswerFresh, At
<1>6. Covered => Covered'
  BY <1>1, <1>3 DEF Covered, Waits, InHand, At
<1> QED
  BY <1>1, <1>4, <1>5, <1>6 DEF FreshInv, ListFresh

\* The server agrees to a POST, which its callback follows up, or its answer is
\* lost.
LEMMA PostFresh ==
    ASSUME TypeInv, FreshInv, Post, UNCHANGED comments
    PROVE  FreshInv'
<1>1. /\ hand # NULL /\ hand.task.what \in Posts /\ UNCHANGED queue
      /\ server \in Nat /\ server + 1 \in Nat /\ 0 \in Nat
  BY DEF Post, At, TypeInv, TypeOK
<1>2. hand.task.owner # "comments"
  <2>1. OfItsKind(hand.task)
    BY <1>1 DEF TypeInv, Good
  <2> QED
    BY <1>1, <2>1 DEF OfItsKind, Posts
<1>3. CASE /\ hand' = Answered(TRUE, server + 1)
           /\ server' = server + 1 /\ told' = server + 1
           /\ stored' = Refreshed
  <2>1. /\ hand' # NULL /\ hand'.task = hand.task /\ hand'.step = "callback"
        /\ hand'.ok = TRUE
    BY <1>1, <1>3, AnsweredIs
  <2>2. Key0 \notin DOMAIN stored'
    BY <1>3 DEF Refreshed, Key0
  <2>3. ServerFresh'
    BY <1>3, <2>2 DEF ServerFresh
  <2>4. AnswerFresh'
    BY <1>2, <2>1 DEF AnswerFresh
  <2>5. Covered'
    BY <1>1, <2>1 DEF Covered, At
  <2> QED
    BY <2>3, <2>4, <2>5 DEF FreshInv, ListFresh
<1>4. CASE hand' = Answered(FALSE, 0) /\ UNCHANGED <<server, told, stored, excused>>
  <2>1. /\ hand' # NULL /\ hand'.task = hand.task /\ hand'.step = "callback"
        /\ hand'.ok = FALSE
    BY <1>1, <1>4, AnsweredIs
  <2>2. hand.step = "call"
    BY DEF Post, At
  <2>3. /\ ServerFresh => ServerFresh'
        /\ AnswerFresh'
        /\ Covered => Covered'
    BY <1>1, <1>2, <1>4, <2>1, <2>2 DEF ServerFresh, AnswerFresh, Covered, Waits, InHand, At
  <2> QED
    BY <1>4, <2>3 DEF FreshInv, ListFresh
<1>5. CASE excused'
  BY <1>5 DEF FreshInv
<1> QED
  BY <1>3, <1>4, <1>5 DEF Post

\* What the worker does.
LEMMA WorkerFresh ==
    ASSUME TypeInv, TypeInv', FreshInv, Worker
    PROVE  FreshInv'
<1>1. CASE (WorkerTakes \/ Get \/ Post) /\ UNCHANGED pageVars
  BY <1>1, TakesFresh, GetFresh, PostFresh DEF pageVars
<1>2. ASSUME hand # NULL PROVE OfItsKind(hand.task) /\ hand \in Hands
  BY <1>2 DEF TypeInv, TypeOK, Good
<1>3. CASE CommentsCallback
  <2> DEFINE number == IF hand.ok THEN hand.number ELSE NULL
  <2>1. hand # NULL /\ comments \in CommentLists /\ told \in Nat /\ UNCHANGED serverVars
    BY <1>3, CommentsThere DEF CommentsCallback, At, CommentsActors, TypeInv, TypeOK
  <2>2. comments' = Load(comments, number) /\ CalledBack(UserIcons(number), ListActors)
    BY <1>3 DEF CommentsCallback
  <2>3. AnswerFresh => number \in {told, NULL}
    BY <1>3 DEF AnswerFresh, CommentsCallback
  <2> HIDE DEF number
  <2>4. comments'.list = number
    BY <2>1, <2>2 DEF Load, CommentLists
  <2>5. hand'.step = "unlock"
    BY <2>1, <2>2, CalledBackIs
  <2>6. AnswerFresh' /\ (AnswerFresh /\ UNCHANGED told => Covered')
    BY <2>1, <2>3, <2>4, <2>5 DEF AnswerFresh, Covered, At
  <2> QED
    BY <2>1, <2>6, ServerStaysFresh DEF FreshInv, ListFresh, serverVars
<1>4. ASSUME NEW c \in CommentLists, hand # NULL, NEW dead, UNCHANGED serverVars,
             comments' = AskFor(c).comments, CalledBack(AskFor(c).asked, dead)
      PROVE  FreshInv'
  <2>1. hand'.step = "unlock" /\ queue' = QueueAfter(AskFor(c).asked, dead)
    BY <1>4, CalledBackIs DEF CalledBack
  <2>2. AnswerFresh'
    BY <2>1 DEF AnswerFresh, At
  <2>3. ServerFresh => Covered'
    BY <1>4, <2>1, AskedForCovers DEF serverVars
  <2> QED
    BY <1>4, <2>2, <2>3, ServerStaysFresh DEF FreshInv, ListFresh, serverVars
<1>5. CASE ReplyCallback /\ hand.ok
  <2>1. hand # NULL /\ comments \in CommentLists
    BY <1>5, CommentsThere DEF ReplyCallback, At, CommentsActors, ListActors
  <2> QED
    BY <1>4, <1>5, <2>1 DEF ReplyCallback
<1>6. CASE CommentCallback /\ hand.ok
  <2>1. hand # NULL
    BY <1>6 DEF CommentCallback, At
  <2> QED
    BY <1>4, <1>6, <2>1, NewTyped DEF CommentCallback
<1>7. CASE \/ UserIconCallback
           \/ (ReplyCallback \/ CommentCallback) /\ ~hand.ok
           \/ DownloadCallback /\ UNCHANGED pageVars
  <2>1. /\ hand # NULL /\ CalledBack(<<>>, {}) /\ UNCHANGED comments /\ UNCHANGED serverVars
        /\ hand.task.owner \in {"usericon", "comment", "page", "download"}
        /\ hand.ok => hand.task.owner \in {"usericon", "download"}
    BY <1>7
    DEF UserIconCallback, ReplyCallback, CommentCallback, DownloadCallback, At, pageVars
  <2>2. hand.ok => hand.task.what \notin Posts
    BY <1>2, <2>1 DEF OfItsKind
  <2>3. <<>> \in Seq(Tasks)
    OBVIOUS
  <2> QED
    BY <2>1, <2>2, <2>3, CallbackStaysFresh
<1>8. CASE BoxCallback /\ UNCHANGED <<pageVars, download>>
  <2>1. /\ hand # NULL /\ UNCHANGED serverVars /\ UNCHANGED comments
        /\ hand.task.owner \in Boxes
    BY <1>8 DEF BoxCallback, At, pageVars
  <2>2. hand.task.owner \notin {"page", "comment", "gone", "comments"}
    BY <2>1, BoxesApart
  <2>3. hand.task.what \notin Posts
    BY <1>2, <2>1, <2>2 DEF OfItsKind
  <2>4. PICK asked \in Seq(Tasks) : CalledBack(asked, {})
    BY <1>8, BoxAsks, GoodTyped
  <2> QED
    BY <2>1, <2>2, <2>3, <2>4, CallbackStaysFresh
<1>9. CASE Unlock
  <2>1. /\ hand # NULL /\ hand.step = "unlock" /\ hand' = NULL /\ UNCHANGED queue
        /\ UNCHANGED serverVars
    BY <1>9 DEF Unlock, At
  <2>2. comments' # NULL => comments # NULL /\ comments'.list = comments.list
    <3>1. CASE hand.task.owner = "comments"
      <4>1. comments \in CommentLists /\ comments # NULL
        BY <2>1, <3>1, CommentsThere DEF CommentsActors
      <4>2. comments' = SetLock(comments, FALSE)
        BY <1>9, <3>1 DEF Unlock, Unlocked
      <4> QED
        BY <4>1, <4>2 DEF SetLock, CommentLists
    <3>2. CASE hand.task.owner # "comments"
      BY <1>9, <3>2 DEF Unlock
    <3> QED
      BY <3>1, <3>2
  <2>3. AnswerFresh'
    BY <2>1 DEF AnswerFresh, At
  <2>4. Covered /\ comments' # NULL /\ UNCHANGED told => Covered'
    BY <2>1, <2>2 DEF Covered, Waits, InHand, At
  <2> QED
    BY <2>1, <2>2, <2>3, <2>4, ServerStaysFresh DEF FreshInv, ListFresh, serverVars
<1>10. CASE GoneCallback
  <2>1. /\ hand # NULL /\ hand.task.owner = "gone" /\ hand' = NULL
        /\ excused' = (excused \/ hand.task.what \in Posts)
        /\ UNCHANGED <<queue, stored, server, told, comments>>
    BY <1>10 DEF GoneCallback, At, pageVars
  <2>2. AnswerFresh' /\ (ServerFresh => ServerFresh')
    BY <2>1 DEF AnswerFresh, ServerFresh, At
  <2>3. Covered /\ ~excused' => Covered'
    BY <2>1 DEF Covered, Waits, InHand
  <2> QED
    BY <2>1, <2>2, <2>3 DEF FreshInv, ListFresh
<1> QED
  BY <1>1, <1>3, <1>5, <1>6, <1>7, <1>8, <1>9, <1>10 DEF Worker

LEMMA FreshStep == TypeInv /\ TypeInv' /\ FreshInv /\ [Next]_vars => FreshInv'
<1> SUFFICES ASSUME TypeInv, TypeInv', FreshInv, [Next]_vars PROVE FreshInv'
  OBVIOUS
<1>1. CASE Timers \/ UNCHANGED vars
  <2>1. UNCHANGED workVars /\ UNCHANGED serverVars
    BY <1>1 DEF Timers, SpinTimeout, LooseTimeout, vars
  <2>2. comments' # NULL => comments # NULL /\ comments'.list = comments.list
    <3>1. CASE SpinTimeout
      <4>1. comments \in CommentLists /\ comments # NULL
            /\ comments' = [comments EXCEPT !.spin = Timeout(comments.spin)]
        BY <3>1 DEF SpinTimeout, TypeInv, TypeOK, CommentsType
      <4> QED
        BY <4>1 DEF CommentLists
    <3>2. CASE UNCHANGED comments
      BY <3>2
    <3> QED
      BY <1>1, <3>1, <3>2 DEF Timers, LooseTimeout, vars, pageVars
  <2>3. AnswerFresh /\ UNCHANGED told => AnswerFresh'
    BY <2>1 DEF AnswerFresh, At, workVars
  <2>4. Covered /\ comments' # NULL /\ UNCHANGED told => Covered'
    BY <2>1, <2>2 DEF Covered, Waits, InHand, At, workVars
  <2> QED
    BY <2>1, <2>2, <2>3, <2>4, ServerStaysFresh DEF FreshInv, ListFresh, serverVars
<1> QED
  BY <1>1, UserFresh, WorkerFresh DEF Next

\* For any instance: when nothing more is to come, comments that are listed are
\* all that the server agreed to, unless the answer of a POST was lost.
THEOREM AlwaysFreshWhenQuiet == Spec => []FreshWhenQuiet
<1>1. Init => FreshInv
  BY DEF Init, InitRequests, FreshInv, ServerFresh, AnswerFresh, ListFresh, At
<1>2. FreshInv => FreshWhenQuiet
  BY DEF FreshInv, ListFresh, Covered, FreshWhenQuiet, Waits, InHand, At
<1> QED
  BY <1>1, <1>2, InitTyped, TypeStep, FreshStep, PTL DEF Spec

-----------------------------------------------------------------------------
(***************************************************************************)
(* The messages of the folder that was pressed.                             *)
(***************************************************************************)

\* The folders that are asked for a dialog by tasks of a queue, by those that
\* wait, and by the task in hand, unless it was called back.
FoldersIn(s, b) ==
    {s[i].of : i \in {j \in DOMAIN s : s[j].what = "folder" /\ s[j].owner = b}}
FoldersOf(b) == FoldersIn(queue, b)
FolderInHand(b) ==
    IF InHand("folder", b) /\ hand.step # "unlock" THEN {hand.task.of} ELSE {}

\* A dialog whose folder was not overtaken: only that folder waits, another in
\* hand has it wait behind, and a list of another one has something to come.
Follows(b) ==
    IsOpen(b, "messages") /\ ~boxes[b].overtaken =>
        /\ FoldersOf(b) \subseteq {boxes[b].folder}
        /\ FoldersOf(b) = {} => FolderInHand(b) \subseteq {boxes[b].folder}
        /\ boxes[b].list \in {NULL, boxes[b].folder} \/ FoldersOf(b) \cup FolderInHand(b) # {}

ListInv == \A b \in Boxes : Follows(b)

\* What is asked for asks for no folder of the dialog.
Spares(asked, b) == \A i \in DOMAIN asked : asked[i].what # "folder" \/ asked[i].owner # b

\* The folders of a queue in two parts, of one whose owners died, and of one that
\* spares the dialog.
LEMMA FoldersOfBoth ==
    ASSUME NEW s \in Seq(Tasks), NEW t \in Seq(Tasks), NEW b
    PROVE  FoldersIn(s \o t, b) = FoldersIn(s, b) \cup FoldersIn(t, b)
<1> DEFINE u == s \o t
<1>1. u \in Seq(Tasks) /\ Len(u) = Len(s) + Len(t)
  OBVIOUS
<1>2. \A i \in DOMAIN s : i \in DOMAIN u /\ u[i] = s[i]
  OBVIOUS
<1>3. \A i \in DOMAIN t : i + Len(s) \in DOMAIN u /\ u[i + Len(s)] = t[i]
  OBVIOUS
<1>4. \A i \in DOMAIN u : \/ i \in DOMAIN s
                          \/ i - Len(s) \in DOMAIN t /\ i = (i - Len(s)) + Len(s)
  BY <1>1
<1> HIDE DEF u
<1>5. FoldersIn(s, b) \cup FoldersIn(t, b) \subseteq FoldersIn(u, b)
  BY <1>2, <1>3 DEF FoldersIn
<1>6. FoldersIn(u, b) \subseteq FoldersIn(s, b) \cup FoldersIn(t, b)
  <2> SUFFICES ASSUME NEW i \in DOMAIN u, u[i].what = "folder", u[i].owner = b
               PROVE  u[i].of \in FoldersIn(s, b) \cup FoldersIn(t, b)
    BY DEF FoldersIn
  <2>1. CASE i \in DOMAIN s
    BY <1>2, <2>1 DEF FoldersIn
  <2>2. CASE i - Len(s) \in DOMAIN t /\ i = (i - Len(s)) + Len(s)
    <3>1. u[i] = t[i - Len(s)]
      BY <1>3, <2>2
    <3> QED
      BY <2>2, <3>1 DEF FoldersIn
  <2> QED
    BY <1>4, <2>1, <2>2
<1> QED
  BY <1>5, <1>6 DEF u

LEMMA FoldersOfAlive ==
    ASSUME NEW s \in Seq(Tasks), NEW b \in Boxes, NEW dead, b \notin dead
    PROVE  FoldersIn([i \in DOMAIN s |-> Orphan(s[i], dead)], b) = FoldersIn(s, b)
<1> DEFINE t == [i \in DOMAIN s |-> Orphan(s[i], dead)]
<1>1. DOMAIN t = DOMAIN s
  OBVIOUS
<1>2. ASSUME NEW i \in DOMAIN s
      PROVE  /\ t[i].what = s[i].what /\ t[i].of = s[i].of
             /\ t[i].owner = b <=> s[i].owner = b
  <2>1. s[i] \in Tasks
    OBVIOUS
  <2>2. b # "gone"
    BY BoxesApart
  <2> QED
    BY <2>1, <2>2, OrphanOf
<1> HIDE DEF t
<1> QED
  BY <1>1, <1>2 DEF FoldersIn, t

LEMMA NoFolders == ASSUME NEW s, NEW b, Spares(s, b) PROVE FoldersIn(s, b) = {}
  BY DEF Spares, FoldersIn

\* The folders that wait after a push, for a dialog that lives.
LEMMA FoldersAfter ==
    ASSUME TypeInv, NEW asked \in Seq(Tasks), NEW b \in Boxes, NEW dead, b \notin dead,
           queue' = QueueAfter(asked, dead)
    PROVE  /\ FoldersOf(b)' = FoldersIn(asked, b) \cup FoldersOf(b)
           /\ Spares(asked, b) => FoldersOf(b)' = FoldersOf(b)
<1> DEFINE rest == [i \in DOMAIN queue |-> Orphan(queue[i], dead)]
<1>1. queue \in Seq(Tasks)
  BY DEF TypeInv, TypeOK
<1>2. rest \in Seq(Tasks)
  BY <1>1, OrphanOf
<1>3. FoldersIn(rest, b) = FoldersIn(queue, b)
  BY <1>1, FoldersOfAlive
<1>4. queue' = asked \o rest
  BY DEF QueueAfter
<1> HIDE DEF rest
<1>5. FoldersIn(queue', b) = FoldersIn(asked, b) \cup FoldersIn(queue, b)
  BY <1>2, <1>3, <1>4, FoldersOfBoth
<1> QED
  BY <1>5, NoFolders DEF FoldersOf

\* The folder in hand when others die, and when its task is called back.
LEMMA HandFolderAlive ==
    ASSUME TypeInv, NEW b \in Boxes, NEW dead, b \notin dead, hand' = HandAfter(dead)
    PROVE  FolderInHand(b)' = FolderInHand(b)
<1>1. CASE hand = NULL
  BY <1>1, HandAfterIs DEF FolderInHand, InHand
<1>2. CASE hand # NULL
  <2>1. /\ hand' # NULL /\ hand'.task = Orphan(hand.task, dead) /\ hand'.step = hand.step
    BY <1>2, HandAfterIs
  <2>2. hand.task \in Tasks
    BY <1>2 DEF TypeInv, TypeOK, Hands
  <2>3. /\ hand'.task.what = hand.task.what /\ hand'.task.of = hand.task.of
        /\ hand'.task.owner = b <=> hand.task.owner = b
    BY <2>1, <2>2, OrphanOf, BoxesApart
  <2> QED
    BY <1>2, <2>1, <2>3 DEF FolderInHand, InHand
<1> QED
  BY <1>1, <1>2

LEMMA HandFolderDone ==
    ASSUME TypeInv, hand # NULL, NEW asked, NEW dead, CalledBack(asked, dead), NEW b
    PROVE  FolderInHand(b)' = {}
  BY CalledBackIs DEF FolderInHand

\* A dialog that shows what it showed, with what is to come for it.
LEMMA FollowsOn ==
    ASSUME NEW b \in Boxes, Follows(b),
           IsOpen(b, "messages")' =>
               /\ IsOpen(b, "messages") /\ boxes'[b].overtaken = boxes[b].overtaken
               /\ boxes'[b].folder = boxes[b].folder /\ boxes'[b].list = boxes[b].list,
           FoldersOf(b)' = FoldersOf(b), FolderInHand(b)' = FolderInHand(b)
    PROVE  Follows(b)'
  BY DEF Follows

\* A folder that is pressed, and not overtaken by another one.
LEMMA PressedFollows ==
    ASSUME TypeInv, NEW b \in Boxes, NEW box \in OpenBoxes, NEW f \in Folders,
           boxes'[b] = AskFolder(b, box, f).box, NEW dead, b \notin dead,
           queue' = QueueAfter(AskFolder(b, box, f).asked, dead),
           FolderInHand(b)' \subseteq FolderInHand(b)
    PROVE  Follows(b)'
<1> DEFINE asking == [box EXCEPT !.folder = f, !.overtaken = Overtaken(b, f)]
<1>1. asking.folder = f /\ asking.overtaken = Overtaken(b, f) /\ asking \in OpenBoxes
  <2>1. Overtaken(b, f) \in BOOLEAN
    BY DEF Overtaken, Waits, InHand
  <2> QED
    BY <2>1 DEF OpenBoxes
<1>2. AskFolder(b, box, f) =
          IF Known("folder", f)
          THEN [box |-> FolderAnswered(asking, f, TRUE), asked |-> <<>>]
          ELSE [box |-> asking, asked |-> <<Ask("folder", f, b)>>]
  BY DEF AskFolder
<1> HIDE DEF asking
<1>3. ~Overtaken(b, f) => FoldersOf(b) = {}
  BY DEF Overtaken, Waits, FoldersOf, FoldersIn
<1>4. CASE Known("folder", f)
  <2>1. boxes'[b] = FolderAnswered(asking, f, TRUE) /\ queue' = QueueAfter(<<>>, dead)
    BY <1>2, <1>4
  <2>2. /\ boxes'[b].folder = f /\ boxes'[b].list = f
        /\ boxes'[b].overtaken = Overtaken(b, f)
    BY <1>1, <2>1 DEF FolderAnswered, OpenBoxes
  <2>3. FoldersOf(b)' = FoldersOf(b)
    <3>1. <<>> \in Seq(Tasks) /\ Spares(<<>>, b)
      BY DEF Spares
    <3> QED
      BY <2>1, <3>1, FoldersAfter
  <2>4. ~Overtaken(b, f) => FolderInHand(b) = {}
    BY <1>4 DEF Overtaken, FolderInHand
  <2> QED
    BY <1>3, <2>2, <2>3, <2>4 DEF Follows
<1>5. CASE ~Known("folder", f)
  <2>1. boxes'[b] = asking /\ queue' = QueueAfter(<<Ask("folder", f, b)>>, dead)
    BY <1>2, <1>5
  <2>2. FoldersOf(b)' = {f} \cup FoldersOf(b)
    <3> DEFINE asked == <<Ask("folder", f, b)>>
    <3>1. asked \in Seq(Tasks) /\ DOMAIN asked = {1}
      BY DEF Ask, Tasks, Whats, Ofs, Owners
    <3>2. asked[1].what = "folder" /\ asked[1].owner = b /\ asked[1].of = f
      BY DEF Ask
    <3> HIDE DEF asked
    <3>3. FoldersIn(asked, b) = {f}
      BY <3>1, <3>2 DEF FoldersIn
    <3> QED
      BY <2>1, <3>1, <3>3, FoldersAfter DEF asked
  <2> QED
    BY <1>1, <1>3, <2>1, <2>2 DEF Follows
<1> QED
  BY <1>4, <1>5

\* What spares a dialog.
LEMMA OneSpares ==
    ASSUME NEW what, NEW of, NEW owner, NEW b, what # "folder" \/ owner # b
    PROVE  Spares(<<Ask(what, of, owner)>>, b)
  BY DEF Spares, Ask

LEMMA NothingSpares == ASSUME NEW b PROVE Spares(<<>>, b) /\ <<>> \in Seq(Tasks)
  BY DEF Spares

LEMMA UserIconsSpare == ASSUME NEW number, NEW b PROVE Spares(UserIcons(number), b)
  BY DEF Spares, UserIcons, Ask

LEMMA AskForSpares == ASSUME NEW c, NEW b PROVE Spares(AskFor(c).asked, b)
<1>1. AskFor(c).asked \in {UserIcons(stored[<<"comments", NULL>>]),
                           <<Ask("comments", NULL, "comments")>>}
  BY DEF AskFor
<1> QED
  BY <1>1, UserIconsSpare, OneSpares

LEMMA FriendsSpare == ASSUME NEW a, NEW b PROVE Spares(AskFriends(a), b)
  BY DEF Spares, AskFriends, Ask

LEMMA FolderSpares ==
    ASSUME NEW a, NEW b, a # b, NEW box, NEW f
    PROVE  Spares(AskFolder(a, box, f).asked, b)
<1>1. AskFolder(a, box, f).asked \in {<<>>, <<Ask("folder", f, a)>>}
  BY DEF AskFolder
<1> QED
  BY <1>1, NothingSpares, OneSpares

LEMMA MessagesSpare ==
    ASSUME NEW a, NEW b, a # b, NEW box, NEW ok
    PROVE  Spares(MessagesAnswered(a, box, ok).asked, b)
<1>1. CASE ok
  BY <1>1, FolderSpares DEF MessagesAnswered
<1>2. CASE ~ok
  BY <1>2, NothingSpares DEF MessagesAnswered
<1> QED
  BY <1>1, <1>2

\* A step that shows nothing else and asks nothing else for a dialog.
LEMMA SparedFollows ==
    ASSUME TypeInv, NEW b \in Boxes, Follows(b), boxes'[b] = boxes[b],
           NEW asked \in Seq(Tasks), Spares(asked, b), NEW dead, b \notin dead,
           queue' = QueueAfter(asked, dead), FolderInHand(b)' = FolderInHand(b)
    PROVE  Follows(b)'
  BY FoldersAfter, FollowsOn DEF IsOpen

\* A dialog that is not open has nothing to come.
LEMMA ClosedAsksNothing ==
    ASSUME TypeInv, NEW b \in Boxes, boxes[b] = NULL
    PROVE  FoldersOf(b) = {} /\ FolderInHand(b) = {}
<1>1. ASSUME NEW task \in Good, task.owner = b PROVE FALSE
  <2>1. boxes[b] \in OpenBoxes
    BY <1>1, BoxesApart DEF Good, Served, CommentsActors, ListActors
  <2> QED
    BY <2>1, OwnerAssumption
<1>2. \A i \in DOMAIN queue : queue[i] \in Good
  BY DEF TypeInv
<1> QED
  BY <1>1, <1>2 DEF FoldersOf, FoldersIn, FolderInHand, InHand, TypeInv

\* What the user does on the page.
LEMMA PagePressFollows ==
    ASSUME TypeInv, TypeInv', NEW b \in Boxes, Follows(b), UNCHANGED boxes,
           \/ OnCommentButtonPress \/ OnReplyButtonPress \/ OnSubmitButtonPress
           \/ OnDownloadButtonPress \/ \E i \in 1 .. Links : OnDownloadItemPress(i)
    PROVE  Follows(b)'
<1>1. ASSUME NEW asked \in Seq(Tasks), Spares(asked, b), queue' = asked \o queue, UNCHANGED hand
      PROVE  Follows(b)'
  <2>1. queue' = QueueAfter(asked, {}) /\ hand' = HandAfter({})
    BY <1>1, NobodyGone
  <2>2. FolderInHand(b)' = FolderInHand(b)
    BY <1>1 DEF FolderInHand, InHand
  <2> QED
    BY <1>1, <2>1, <2>2, SparedFollows
<1>2. ASSUME UNCHANGED workVars PROVE Follows(b)'
  <2>1. queue' = <<>> \o queue /\ UNCHANGED hand
    BY <1>2 DEF workVars, TypeInv, TypeOK
  <2> QED
    BY <1>1, <2>1, NothingSpares
<1>3. ASSUME NEW what \in Posts \cup {"item"}, NEW of, NEW owner, UNCHANGED hand,
             queue' = <<Ask(what, of, owner)>> \o queue
      PROVE  Follows(b)'
  <2> DEFINE task == Ask(what, of, owner)
  <2>1. task.what = what
    BY DEF Ask
  <2> HIDE DEF task
  <2>2. queue' = <<task>> \o queue /\ queue' \in Seq(Tasks) /\ queue \in Seq(Tasks)
    BY <1>3 DEF task, TypeInv, TypeOK
  <2>3. task \in Tasks
    <3>1. queue'[1] = task /\ Len(queue') = 1 + Len(queue)
      BY <2>2
    <3> QED
      BY <2>2, <3>1
  <2>4. <<task>> \in Seq(Tasks) /\ Spares(<<task>>, b)
    BY <2>1, <2>3 DEF Spares, Posts
  <2> QED
    BY <1>1, <1>3, <2>2, <2>4
<1>4. CASE OnCommentButtonPress
  BY <1>3, <1>4 DEF OnCommentButtonPress, Posts
<1>5. CASE OnReplyButtonPress
  BY <1>2, <1>5 DEF OnReplyButtonPress
<1>6. CASE OnSubmitButtonPress
  BY <1>3, <1>6 DEF OnSubmitButtonPress, Posts
<1>7. CASE OnDownloadButtonPress
  BY <1>2, <1>7 DEF OnDownloadButtonPress
<1>8. ASSUME NEW i \in 1 .. Links, OnDownloadItemPress(i) PROVE Follows(b)'
  <2>1. CASE Known("item", i)
    BY <1>2, <1>8, <2>1 DEF OnDownloadItemPress, workVars
  <2>2. CASE ~Known("item", i)
    BY <1>3, <1>8, <2>2 DEF OnDownloadItemPress
  <2> QED
    BY <2>1, <2>2
<1> QED
  BY <1>4, <1>5, <1>6, <1>7, <1>8

\* What the user does to dialog a, as dialog b sees it.
LEMMA BoxPressFollows ==
    ASSUME TypeInv, TypeInv', UNCHANGED <<pageVars, download>>,
           NEW a \in Boxes, NEW b \in Boxes, Follows(b),
           \/ OnFriendsPress(a) \/ OnMessagePress(a)
           \/ \E f \in Folders : OnFolderPress(a, f)
           \/ OnMessageRowPress(a) \/ OnClosePress(a)
    PROVE  Follows(b)'
<1>1. boxes \in [Boxes -> OpenBoxes \cup {NULL}] /\ NULL \notin OpenBoxes
  BY OwnerAssumption DEF TypeInv, TypeOK, MessagesType
<1>2. ASSUME NEW asked, NEW box \in OpenBoxes, queue' = asked \o queue, UNCHANGED hand,
             boxes' = [boxes EXCEPT ![a] = box], a = b \/ Spares(asked, b),
             (boxes[a] \in OpenBoxes)' => asked \in Seq(Good')
      PROVE  /\ asked \in Seq(Tasks) /\ queue' = QueueAfter(asked, {})
             /\ FolderInHand(b)' = FolderInHand(b) /\ boxes'[a] = box
             /\ a # b => Follows(b)'
  <2>1. asked \in Seq(Tasks) /\ boxes'[a] = box
    BY <1>1, <1>2, GoodTyped
  <2>2. queue' = QueueAfter(asked, {}) /\ hand' = HandAfter({})
    BY <1>2, NobodyGone
  <2>3. FolderInHand(b)' = FolderInHand(b)
    BY <1>2 DEF FolderInHand, InHand
  <2>4. a # b => boxes'[b] = boxes[b]
    BY <1>1, <1>2
  <2> QED
    BY <1>2, <2>1, <2>2, <2>3, <2>4, SparedFollows
<1>3. CASE OnFriendsPress(a)
  <2> DEFINE x == FriendsOf(a)
  <2>1. /\ x.box \in OpenBoxes /\ x.box.kind = "friends"
        /\ (boxes[a] \in OpenBoxes)' => x.asked \in Seq(Good')
    <3>1. x.box \in {NewBox("friends"), FriendsAnswered(NewBox("friends"), TRUE)}
      BY DEF FriendsOf
    <3>2. /\ NewBox("friends").kind = "friends"
          /\ FriendsAnswered(NewBox("friends"), TRUE).kind = "friends"
      BY DEF NewBox, FriendsAnswered
    <3> HIDE DEF x
    <3>3. x.box.kind = "friends"
      BY <3>1, <3>2
    <3> QED
      BY <3>3, FriendsOfGood DEF x
  <2>2. Spares(x.asked, b)
    <3>1. x.asked \in {<<Ask("friends", NULL, a)>>, AskFriends(a)}
      BY DEF FriendsOf
    <3> HIDE DEF x
    <3> QED
      BY <3>1, OneSpares, FriendsSpare
  <2>3. /\ queue' = x.asked \o queue /\ UNCHANGED hand /\ boxes' = [boxes EXCEPT ![a] = x.box]
    BY <1>3 DEF OnFriendsPress, Opens
  <2> HIDE DEF x
  <2>4. boxes'[a] = x.box /\ (a # b => Follows(b)')
    BY <1>2, <2>1, <2>2, <2>3
  <2> QED
    BY <2>1, <2>4 DEF Follows, IsOpen
<1>4. CASE OnMessagePress(a)
  <2> DEFINE x == MessagesOf(a)
  <2>1. /\ queue' = x.asked \o queue /\ UNCHANGED hand /\ boxes' = [boxes EXCEPT ![a] = x.box]
        /\ boxes[a] = NULL
    BY <1>4 DEF OnMessagePress, Opens
  <2>2. x.box \in OpenBoxes /\ ((boxes[a] \in OpenBoxes)' => x.asked \in Seq(Good'))
    BY MessagesOfGood
  <2>3. a # b => Spares(x.asked, b)
    BY MessagesSpare, OneSpares DEF MessagesOf
  <2> HIDE DEF x
  <2>4. /\ x.asked \in Seq(Tasks) /\ queue' = QueueAfter(x.asked, {})
        /\ FolderInHand(b)' = FolderInHand(b) /\ boxes'[a] = x.box
        /\ a # b => Follows(b)'
    BY <1>2, <2>1, <2>2, <2>3
  <2>5. CASE a = b /\ ~Known("folders", NULL)
    <3>1. x.box = NewBox("messages") /\ x.asked = <<Ask("folders", NULL, a)>>
      BY <2>5 DEF MessagesOf, x
    <3>2. Spares(x.asked, b)
      BY <3>1, OneSpares
    <3>3. FoldersOf(b)' = FoldersOf(b)
      BY <2>4, <3>2, FoldersAfter
    <3>4. FoldersOf(b)' = {} /\ FolderInHand(b)' = {}
      BY <2>1, <2>4, <2>5, <3>3, ClosedAsksNothing
    <3>5. boxes'[b].list = NULL
      BY <2>4, <2>5, <3>1 DEF NewBox
    <3> QED
      BY <3>4, <3>5 DEF Follows
  <2>6. CASE a = b /\ Known("folders", NULL)
    <3> DEFINE box == [NewBox("messages") EXCEPT !.ready = TRUE]
    <3>1. box \in OpenBoxes /\ Default \in Folders
      BY FolderAssumption DEF NewBox, OpenBoxes
    <3>2. x = AskFolder(b, box, Default)
      BY <2>6 DEF x, MessagesOf, MessagesAnswered
    <3> HIDE DEF box
    <3> QED
      BY <2>4, <2>6, <3>1, <3>2, PressedFollows
  <2> QED
    BY <2>4, <2>5, <2>6
<1>5. ASSUME NEW f \in Folders, OnFolderPress(a, f) PROVE Follows(b)'
  <2> DEFINE x == AskFolder(a, boxes[a], f)
  <2>1. /\ queue' = x.asked \o queue /\ UNCHANGED hand /\ boxes' = [boxes EXCEPT ![a] = x.box]
        /\ boxes[a] \in OpenBoxes
    BY <1>1, <1>5 DEF OnFolderPress, IsOpen
  <2>2. x.box \in OpenBoxes /\ ((boxes[a] \in OpenBoxes)' => x.asked \in Seq(Good'))
    BY <2>1, AskFolderGood
  <2>3. a # b => Spares(x.asked, b)
    BY FolderSpares
  <2> HIDE DEF x
  <2>4. /\ queue' = QueueAfter(x.asked, {}) /\ FolderInHand(b)' = FolderInHand(b)
        /\ boxes'[a] = x.box /\ (a # b => Follows(b)')
    BY <1>2, <2>1, <2>2, <2>3
  <2>5. CASE a = b
    BY <2>1, <2>4, <2>5, PressedFollows DEF x
  <2> QED
    BY <2>4, <2>5
<1>6. CASE OnMessageRowPress(a)
  <2>1. /\ boxes[a] \in OpenBoxes /\ UNCHANGED workVars
        /\ boxes' = [boxes EXCEPT ![a] = [boxes[a] EXCEPT !.open = boxes[a].list]]
    BY <1>1, <1>6 DEF OnMessageRowPress, IsOpen
  <2>2. /\ IsOpen(b, "messages")' => IsOpen(b, "messages")
        /\ IsOpen(b, "messages") =>
               /\ boxes'[b].overtaken = boxes[b].overtaken
               /\ boxes'[b].folder = boxes[b].folder /\ boxes'[b].list = boxes[b].list
    BY <1>1, <2>1 DEF IsOpen, OpenBoxes
  <2>3. FoldersOf(b)' = FoldersOf(b) /\ FolderInHand(b)' = FolderInHand(b)
    BY <2>1 DEF FoldersOf, FolderInHand, InHand, workVars
  <2> QED
    BY <2>2, <2>3, FollowsOn
<1>7. CASE OnClosePress(a)
  <2>1. /\ boxes' = [boxes EXCEPT ![a] = NULL]
        /\ queue' = QueueAfter(<<>>, {a}) /\ hand' = HandAfter({a})
    BY <1>7 DEF OnClosePress
  <2>2. CASE a = b
    BY <1>1, <2>1, <2>2 DEF Follows, IsOpen
  <2>3. CASE a # b
    <3>1. boxes'[b] = boxes[b] /\ b \notin {a}
      BY <1>1, <2>1, <2>3
    <3>2. FolderInHand(b)' = FolderInHand(b)
      BY <2>1, <3>1, HandFolderAlive
    <3> QED
      BY <2>1, <3>1, <3>2, NothingSpares, SparedFollows
  <2> QED
    BY <2>2, <2>3
<1> QED
  BY <1>3, <1>4, <1>5, <1>6, <1>7

LEMMA UserFollows ==
    ASSUME TypeInv, TypeInv', NEW b \in Boxes, Follows(b), User
    PROVE  Follows(b)'
<1>1. CASE OpenPage
  <2>1. boxes'[b] = NULL
    BY <1>1 DEF OpenPage
  <2> QED
    BY <2>1 DEF Follows, IsOpen
<1>2. CASE OnReturnButtonPress
  <2>1. /\ UNCHANGED boxes
        /\ queue' = QueueAfter(<<>>, PageActors) /\ hand' = HandAfter(PageActors)
    BY <1>2 DEF OnReturnButtonPress
  <2>2. b \notin PageActors
    BY OwnerAssumption
  <2>3. FolderInHand(b)' = FolderInHand(b)
    BY <2>1, <2>2, HandFolderAlive
  <2> QED
    BY <2>1, <2>2, <2>3, NothingSpares, SparedFollows
<1> QED
  BY <1>1, <1>2, PagePressFollows, BoxPressFollows DEF User

\* The worker takes the request of a folder, which is then in hand.
LEMMA TakesFollows ==
    ASSUME TypeInv, TypeInv', NEW b \in Boxes, Follows(b), WorkerTakes, UNCHANGED boxes
    PROVE  Follows(b)'
<1> DEFINE task == Head(queue)
<1>1. /\ hand' \in Hands /\ hand' # NULL /\ hand'.task = task /\ queue' = Tail(queue)
      /\ queue # <<>> /\ hand = NULL /\ task \in Good
  BY TakesTask, OwnerAssumption DEF WorkerTakes
<1>2. hand'.step # "unlock"
  BY DEF WorkerTakes
<1>3. FoldersOf(b) = FoldersOf(b)' \cup FolderInHand(b)'
  <2>1. queue \in Seq(Tasks) /\ task \in Tasks /\ queue' \in Seq(Tasks)
    BY <1>1 DEF Good, TypeInv, TypeOK
  <2>2. queue = <<task>> \o queue'
    BY <1>1, <2>1
  <2> HIDE DEF task
  <2>3. FoldersIn(queue, b) = FoldersIn(<<task>>, b) \cup FoldersIn(queue', b)
    <3>1. <<task>> \in Seq(Tasks)
      BY <2>1
    <3>2. PICK s \in Seq(Tasks) : s = <<task>>
      BY <3>1
    <3>3. PICK t \in Seq(Tasks) : t = queue'
      BY <2>1
    <3>4. FoldersIn(s \o t, b) = FoldersIn(s, b) \cup FoldersIn(t, b)
      BY FoldersOfBoth
    <3> QED
      BY <2>2, <3>2, <3>3, <3>4
  <2>4. FoldersIn(<<task>>, b) = FolderInHand(b)'
    BY <1>1, <1>2 DEF FoldersIn, FolderInHand, InHand
  <2> QED
    BY <2>3, <2>4 DEF FoldersOf
<1>4. FolderInHand(b) = {}
  BY <1>1 DEF FolderInHand, InHand
<1> QED
  BY <1>3, <1>4 DEF Follows, IsOpen

\* An answer to dialog a, as dialog b sees it.
LEMMA AnswerFollows ==
    ASSUME TypeInv, TypeInv', NEW b \in Boxes, Follows(b), BoxCallback,
           UNCHANGED <<pageVars, download>>
    PROVE  Follows(b)'
<1>1. /\ hand # NULL /\ hand \in Hands /\ hand.step = "callback" /\ OfItsKind(hand.task)
      /\ hand.ok \in BOOLEAN
  BY DEF BoxCallback, At, TypeInv, TypeOK, Good, Hands
<1>2. PICK a \in Boxes : a = hand.task.owner
  BY DEF BoxCallback
<1>3. PICK box : box = boxes[a]
  OBVIOUS
<1>4. /\ box \in OpenBoxes /\ hand.task.what \in BoxRequests
      /\ boxes \in [Boxes -> OpenBoxes \cup {NULL}]
  <2>1. Served(hand.task)
    BY <1>1 DEF TypeInv, Good
  <2> QED
    BY <1>2, <1>3, <2>1, BoxesApart
    DEF Served, CommentsActors, ListActors, TypeInv, TypeOK, MessagesType
<1>5. ASSUME NEW asked, NEW after \in OpenBoxes, boxes' = [boxes EXCEPT ![a] = after],
             CalledBack(asked, {}), (boxes[a] \in OpenBoxes)' => asked \in Seq(Good'),
             a = b \/ Spares(asked, b)
      PROVE  /\ asked \in Seq(Tasks) /\ queue' = QueueAfter(asked, {}) /\ boxes'[a] = after
             /\ FolderInHand(b)' = {} /\ (a # b => Follows(b)')
  <2>1. /\ asked \in Seq(Tasks) /\ queue' = QueueAfter(asked, {}) /\ boxes'[a] = after
        /\ FolderInHand(b)' = {}
    BY <1>1, <1>4, <1>5, GoodTyped, HandFolderDone DEF CalledBack
  <2>2. a # b => FolderInHand(b) = {} /\ boxes'[b] = boxes[b]
    BY <1>2, <1>4, <1>5 DEF FolderInHand, InHand
  <2> QED
    BY <1>5, <2>1, <2>2, SparedFollows
<1>6. ASSUME NEW asked, NEW after \in OpenBoxes, boxes' = [boxes EXCEPT ![a] = after],
             CalledBack(asked, {}), (boxes[a] \in OpenBoxes)' => asked \in Seq(Good'),
             Spares(asked, b), hand.task.what # "folder",
             after.kind = box.kind, after.overtaken = box.overtaken,
             after.folder = box.folder, after.list = box.list
      PROVE  Follows(b)'
  <2>1. /\ asked \in Seq(Tasks) /\ queue' = QueueAfter(asked, {}) /\ boxes'[a] = after
        /\ FolderInHand(b)' = {} /\ (a # b => Follows(b)')
    BY <1>5, <1>6
  <2>2. FoldersOf(b)' = FoldersOf(b)
    BY <1>6, <2>1, FoldersAfter
  <2>3. FolderInHand(b) = {}
    BY <1>6 DEF FolderInHand, InHand
  <2>4. CASE a = b
    <3>1. boxes[b] # NULL
      BY <1>3, <1>4, <2>4, OwnerAssumption
    <3> QED
      BY <1>3, <1>6, <2>1, <2>2, <2>3, <2>4, <3>1, FollowsOn DEF IsOpen
  <2> QED
    BY <2>1, <2>4
<1>7. CASE hand.task.what = "folders"
  <2> DEFINE x == MessagesAnswered(a, box, hand.ok)
  <2>1. boxes' = [boxes EXCEPT ![a] = x.box] /\ CalledBack(x.asked, {})
    BY <1>2, <1>3, <1>7 DEF BoxCallback
  <2>2. x.box \in OpenBoxes /\ ((boxes[a] \in OpenBoxes)' => x.asked \in Seq(Good'))
    BY <1>1, <1>4, MessagesAnsweredGood
  <2>3. a # b => Spares(x.asked, b)
    BY MessagesSpare
  <2>4. CASE hand.ok
    <3> DEFINE other == [box EXCEPT !.ready = TRUE]
    <3>1. x = AskFolder(a, other, Default) /\ other \in OpenBoxes /\ Default \in Folders
      BY <1>4, <2>4, FolderAssumption DEF MessagesAnswered, OpenBoxes
    <3> HIDE DEF x, other
    <3>2. /\ queue' = QueueAfter(x.asked, {}) /\ boxes'[a] = x.box
          /\ FolderInHand(b)' = {} /\ (a # b => Follows(b)')
      BY <1>5, <2>1, <2>2, <2>3
    <3> QED
      BY <3>1, <3>2, PressedFollows
  <2>5. CASE ~hand.ok
    <3>1. x.box = box /\ x.asked = <<>>
      BY <2>5 DEF MessagesAnswered
    <3> HIDE DEF x
    <3> QED
      BY <1>4, <1>6, <1>7, <2>1, <2>2, <3>1, NothingSpares
  <2> QED
    BY <2>4, <2>5
<1>8. CASE hand.task.what = "folder"
  <2> DEFINE after == FolderAnswered(box, hand.task.of, hand.ok)
  <2>1. boxes' = [boxes EXCEPT ![a] = after] /\ CalledBack(<<>>, {})
    BY <1>2, <1>3, <1>8 DEF BoxCallback
  <2>2. after \in OpenBoxes
    BY <1>1, <1>4, <1>8 DEF FolderAnswered, OfItsKind, OpenBoxes
  <2>3. /\ after.kind = box.kind /\ after.overtaken = box.overtaken
        /\ after.folder = box.folder /\ after.list \in {NULL, hand.task.of}
    BY <1>4 DEF FolderAnswered, OpenBoxes
  <2> HIDE DEF after
  <2>4. /\ queue' = QueueAfter(<<>>, {}) /\ boxes'[a] = after
        /\ FolderInHand(b)' = {} /\ (a # b => Follows(b)')
    BY <1>5, <2>1, <2>2, NothingSpares, NothingAsked
  <2>5. FoldersOf(b)' = FoldersOf(b)
    BY <2>4, NothingSpares, FoldersAfter
  <2>6. CASE a = b
    <3>1. FolderInHand(b) = {hand.task.of}
      BY <1>1, <1>2, <1>8, <2>6 DEF FolderInHand, InHand
    <3>2. boxes[b] # NULL
      BY <1>3, <1>4, <2>6, OwnerAssumption
    <3> QED
      BY <1>3, <2>3, <2>4, <2>5, <2>6, <3>1, <3>2 DEF Follows, IsOpen
  <2> QED
    BY <2>4, <2>6
<1>9. CASE hand.task.what = "friends"
  <2> DEFINE after == FriendsAnswered(box, hand.ok)
             asked == IF hand.ok THEN AskFriends(a) ELSE <<>>
  <2>1. boxes' = [boxes EXCEPT ![a] = after] /\ CalledBack(asked, {})
    BY <1>2, <1>3, <1>9 DEF BoxCallback
  <2>2. after \in OpenBoxes
    BY <1>1, <1>4, FriendsAnsweredTyped
  <2>3. /\ after.kind = box.kind /\ after.overtaken = box.overtaken
        /\ after.folder = box.folder /\ after.list = box.list
    BY <1>4 DEF FriendsAnswered, OpenBoxes
  <2>4. Spares(asked, b) /\ ((boxes[a] \in OpenBoxes)' => asked \in Seq(Good'))
    BY AskFriendsGood, NothingAsked, FriendsSpare, NothingSpares
  <2> HIDE DEF after, asked
  <2> QED
    BY <1>6, <1>9, <2>1, <2>2, <2>3, <2>4
<1>10. CASE hand.task.what = "person"
  <2>1. boxes' = [boxes EXCEPT ![a] = box] /\ CalledBack(<<>>, {})
    BY <1>2, <1>3, <1>10 DEF BoxCallback
  <2> QED
    BY <1>4, <1>6, <1>10, <2>1, NothingSpares, NothingAsked
<1> QED
  BY <1>4, <1>7, <1>8, <1>9, <1>10 DEF BoxRequests

\* What the worker does.
LEMMA WorkerFollows ==
    ASSUME TypeInv, TypeInv', NEW b \in Boxes, Follows(b), Worker
    PROVE  Follows(b)'
<1>1. CASE WorkerTakes /\ UNCHANGED boxes
  BY <1>1, TakesFollows
<1>2. CASE (Get \/ Post) /\ UNCHANGED boxes
  <2>1. hand # NULL /\ hand.step = "call" /\ UNCHANGED queue
    BY <1>2 DEF Get, Post, At
  <2>2. PICK ok \in BOOLEAN, number \in Nat : hand' = Answered(ok, number)
    <3>1. {server, server + 1, 0} \subseteq Nat
      BY DEF TypeInv, TypeOK
    <3> QED
      BY <1>2, <3>1 DEF Get, Post
  <2>3. hand' # NULL /\ hand'.task = hand.task /\ hand'.step = "callback"
    BY <2>1, <2>2, AnsweredIs
  <2>4. FoldersOf(b)' = FoldersOf(b) /\ FolderInHand(b)' = FolderInHand(b)
    BY <2>1, <2>3 DEF FoldersOf, FolderInHand, InHand
  <2> QED
    BY <1>2, <2>4, FollowsOn DEF IsOpen
<1>3. ASSUME hand # NULL, hand.task.owner # b, UNCHANGED boxes, NEW asked \in Seq(Tasks),
             Spares(asked, b), NEW dead, b \notin dead, CalledBack(asked, dead)
      PROVE  Follows(b)'
  <2>1. FolderInHand(b) = {} /\ FolderInHand(b)' = {}
    BY <1>3, HandFolderDone DEF FolderInHand, InHand
  <2> QED
    BY <1>3, <2>1, SparedFollows DEF CalledBack
<1>4. b \notin CommentsActors
  BY BoxesApart DEF CommentsActors, ListActors
<1>5. CASE CommentsCallback /\ UNCHANGED boxes
  <2> DEFINE number == IF hand.ok THEN hand.number ELSE NULL
  <2>1. /\ hand # NULL /\ hand \in Hands /\ comments \in CommentLists
        /\ hand.task.owner = "comments"
    BY <1>5, CommentsThere DEF CommentsCallback, At, CommentsActors, TypeInv, TypeOK
  <2>2. comments' = Load(comments, number) /\ CalledBack(UserIcons(number), ListActors)
    BY <1>5 DEF CommentsCallback
  <2>3. number \in Nat \cup {NULL}
    BY <2>1 DEF Hands
  <2> HIDE DEF number
  <2>4. UserIcons(number) \in Seq(Tasks)
    <3>1. (comments \in CommentLists)'
      BY <2>1, <2>2, <2>3, LoadTyped
    <3> QED
      BY <2>3, <3>1, UserIconsGood, GoodTyped
  <2>5. b \notin ListActors /\ b # "comments"
    BY <1>4 DEF CommentsActors
  <2> QED
    BY <1>3, <1>5, <2>1, <2>2, <2>4, <2>5, UserIconsSpare
<1>6. ASSUME NEW c \in CommentLists, Fits(c), hand # NULL, hand.task.owner # b,
             UNCHANGED boxes, comments' = AskFor(c).comments, NEW dead,
             dead \in {AskFor(c).dead, CommentsActors}, CalledBack(AskFor(c).asked, dead)
      PROVE  Follows(b)'
  <2>1. AskFor(c).asked \in Seq(Tasks) /\ b \notin dead
    <3>1. (comments \in CommentLists)' /\ AskFor(c).dead \in {{}, ListActors}
      BY <1>6, AskForGood
    <3>2. AskFor(c).asked \in Seq(Good')
      BY <1>6, <3>1, AskForGood
    <3> QED
      BY <1>4, <1>6, <3>1, <3>2, GoodTyped DEF CommentsActors
  <2> QED
    BY <1>3, <1>6, <2>1, AskForSpares
<1>7. CASE ReplyCallback /\ hand.ok /\ UNCHANGED boxes
  <2>1. hand # NULL /\ comments \in CommentLists /\ comments # NULL /\ hand.task.owner # b
    BY <1>7, CommentsThere, BoxesApart DEF ReplyCallback, At, CommentsActors, ListActors
  <2>2. Fits(comments)
    BY <2>1 DEF Fits, TypeInv, TypeOK, CommentsType
  <2>3. /\ comments' = AskFor(comments).comments
        /\ CalledBack(AskFor(comments).asked, AskFor(comments).dead)
    BY <1>7 DEF ReplyCallback
  <2> QED
    BY <1>6, <1>7, <2>1, <2>2, <2>3
<1>8. CASE CommentCallback /\ hand.ok /\ UNCHANGED boxes
  <2>1. /\ hand # NULL /\ hand.task.owner # b /\ comments' = AskFor(NewComments).comments
        /\ CalledBack(AskFor(NewComments).asked, CommentsActors)
    BY <1>8, BoxesApart DEF CommentCallback, At
  <2> QED
    BY <1>6, <1>8, <2>1, NewTyped
<1>9. CASE /\ \/ UserIconCallback \/ DownloadCallback
              \/ (ReplyCallback \/ CommentCallback) /\ ~hand.ok
           /\ UNCHANGED boxes
  <2>1. /\ hand # NULL /\ CalledBack(<<>>, {})
        /\ hand.task.owner \in {"usericon", "comment", "page", "download"}
    BY <1>9 DEF UserIconCallback, ReplyCallback, CommentCallback, DownloadCallback, At
  <2> QED
    BY <1>3, <1>9, <2>1, NothingSpares, BoxesApart
<1>10. CASE BoxCallback /\ UNCHANGED <<pageVars, download>>
  BY <1>10, AnswerFollows
<1>11. CASE (Unlock \/ GoneCallback) /\ UNCHANGED boxes
  <2>1. FolderInHand(b) = {}
    BY <1>11, BoxesApart DEF Unlock, GoneCallback, At, FolderInHand, InHand
  <2>2. FolderInHand(b)' = {} /\ FoldersOf(b)' = FoldersOf(b)
    BY <1>11 DEF Unlock, GoneCallback, FolderInHand, InHand, FoldersOf
  <2> QED
    BY <1>11, <2>1, <2>2, FollowsOn DEF IsOpen
<1> QED
  BY <1>1, <1>2, <1>5, <1>7, <1>8, <1>9, <1>10, <1>11 DEF Worker, GoneCallback

LEMMA ListStep == TypeInv /\ TypeInv' /\ ListInv /\ [Next]_vars => ListInv'
<1> SUFFICES ASSUME TypeInv, TypeInv', [Next]_vars, NEW b \in Boxes, Follows(b)
             PROVE  Follows(b)'
  BY DEF ListInv
<1>1. CASE Timers \/ UNCHANGED vars
  <2>1. UNCHANGED workVars /\ UNCHANGED boxes
    BY <1>1 DEF Timers, SpinTimeout, LooseTimeout, vars
  <2>2. FoldersOf(b)' = FoldersOf(b) /\ FolderInHand(b)' = FolderInHand(b)
    BY <2>1 DEF FoldersOf, FolderInHand, InHand, workVars
  <2> QED
    BY <2>1, <2>2, FollowsOn DEF IsOpen
<1> QED
  BY <1>1, UserFollows, WorkerFollows DEF Next

\* For any instance: a dialog of messages that waits for nothing lists the folder
\* that was pressed last, unless its request overtook another one.
THEOREM ListAlwaysFits == Spec => []ListFits
<1>1. Init => ListInv
  BY DEF Init, ListInv, Follows, IsOpen
<1>2. ListInv => ListFits
  <2> SUFFICES ASSUME NEW b \in Boxes, Follows(b), IsOpen(b, "messages"), ~boxes[b].overtaken,
                      ~Pending("folder", b)
               PROVE  boxes[b].list \in {NULL, boxes[b].folder}
    BY DEF ListInv, ListFits
  <2>1. FoldersOf(b) = {}
    BY DEF FoldersOf, FoldersIn, Pending, Waits
  <2>2. FolderInHand(b) = {}
    BY DEF FolderInHand, Pending
  <2> QED
    BY <2>1, <2>2 DEF Follows
<1> QED
  BY <1>1, <1>2, InitTyped, TypeStep, ListStep, PTL DEF Spec
=============================================================================
