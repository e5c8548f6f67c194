---------------------------- MODULE PicturesProofs --------------------------
(***************************************************************************)
(* Proofs about the pictures, for any applications, pictures, lists, rows   *)
(* and number of clicks.                                                    *)
(*                                                                         *)
(* Files change in two steps of the worker, and only the file of the task   *)
(* in hand.  What has to be kept up is that this file is none before the    *)
(* data comes and one that is cut short while it is written: nobody else     *)
(* writes, and a task whose picture has a file by then is not asked for.     *)
(*                                                                         *)
(* That the frame and the info page come to show what they say depends on   *)
(* the tasks that are on their way: TasksInv says which picture each one    *)
(* may bring to an actor that is still there, and PageInv that one of them  *)
(* will bring the right picture to the page, last.  That what a new list    *)
(* asks for is like this is an induction on the list.                       *)
(***************************************************************************)
EXTENDS Pictures, WellFoundedInduction, TLAPS

HandFields == {"actor", "url", "left", "found", "step"}

\* The part of the inductive invariant that is about files.
FilesInv ==
    /\ files \in [Urls -> FileStates]
    /\ hand # NULL => hand = [f \in HandFields |-> hand[f]]
    /\ (At("ask") \/ At("moved")) /\ hand.url \in Urls => files[hand.url] = "none"
    /\ At("write") /\ hand.url \in Urls => files[hand.url] \in {"unreadable", "partial"}

\* A task that found no file, and got none, ends without one.
FoundInv ==
    /\ At("callback") /\ ~hand.found => files[hand.url] = "none"
    /\ At("write") => hand.found

\* Whatever is on its way to an icon of the frame is the icon's own picture.
TasksInv ==
    \A icon \in view :
        /\ \A i \in DOMAIN queue :
              queue[i].actor = icon.actor => queue[i].url = SmallPic1(icon.app)
        /\ hand # NULL /\ hand.actor = icon.actor => hand.url = SmallPic1(icon.app)

\* A page that was not overtaken: what waits for it is what it is to show, what
\* is in hand for it is this or comes before it, and unless it is shown already
\* something is on its way.
Settles(p) ==
    /\ \A i \in DOMAIN queue : queue[i].actor = p.actor => queue[i].url = Wanted(p.app, p.current)
    /\ hand # NULL /\ hand.actor = p.actor /\ hand.url # Wanted(p.app, p.current) => Asked(p.actor)
    /\ shown[p.actor] # Wanted(p.app, p.current) => Pending(p.actor)

PageInv ==
    page # NULL => /\ view = {}
                   /\ page.current = 1 \/ page.current \in 1 .. PicCount(page.app)
                   /\ ~excused => Settles(page)

\* The inductive invariant.
PicInv == TypeOK /\ ViewFits /\ FilesInv /\ FoundInv /\ TasksInv /\ PageInv

Pics == Urls \cup {NULL}

-----------------------------------------------------------------------------
(***************************************************************************)
(* Files.                                                                   *)
(***************************************************************************)

\* Whoever leaves files and hand alone leaves the invariant alone.
LEMMA FilesUntouched ==
    ASSUME FilesInv, UNCHANGED <<files, hand>>
    PROVE  FilesInv' /\ \A u \in Urls : files[u] = "whole" => files'[u] = "whole"
  BY DEF FilesInv, At

\* What the user does leaves the files and the task in hand alone.
LEMMA UserTouchesNoFile == User => UNCHANGED <<files, hand>>
  BY DEF User, SetResults, OnReturnButtonPress, OnInfoIconEvent, OnNextButtonPress,
         OnPrevButtonPress, OnPicButtonPress

\* A step of the worker keeps the invariant, and every file that is whole.
LEMMA WorkerKeeps ==
    ASSUME FilesInv, Worker
    PROVE  FilesInv' /\ \A u \in Urls : files[u] = "whole" => files'[u] = "whole"
<1>1. CASE WorkerTakes
  BY <1>1 DEF WorkerTakes, FilesInv, At, Found, LocalIcon, HandFields
<1>2. CASE AskFails
  BY <1>2 DEF AskFails, OneTryLess, FilesInv, At, HandFields
<1>3. CASE AskSucceeds
  <2>1. PICK step \in {"write", "callback"}, begun \in {"unreadable", "partial"} :
           /\ hand' = [hand EXCEPT !.step = step, !.found = TRUE]
           /\ files' = IF step = "write" THEN [files EXCEPT ![hand.url] = begun] ELSE files
    BY <1>3 DEF AskSucceeds
  <2>2. hand' = [f \in HandFields |-> hand'[f]] /\ hand'.url = hand.url /\ hand'.step = step
    <3>1. hand = [f \in HandFields |-> hand[f]]
      BY <1>3 DEF AskSucceeds, FilesInv, At
    <3> QED
      BY <2>1, <3>1 DEF HandFields
  <2>3. hand.url \in Urls => files[hand.url] = "none"
    BY <1>3 DEF AskSucceeds, FilesInv
  <2>4. /\ files' \in [Urls -> FileStates]
        /\ step = "write" /\ hand.url \in Urls => files'[hand.url] \in {"unreadable", "partial"}
        /\ \A u \in Urls : files[u] = "whole" => files'[u] = "whole"
    BY <2>1, <2>3 DEF FilesInv, FileStates
  <2> QED
    BY <2>2, <2>4 DEF FilesInv, At
<1>4. CASE Write
  <2>1. PICK written \in {"unreadable", "partial", "whole"} :
           files' = [files EXCEPT ![hand.url] = written]
    BY <1>4 DEF Write
  <2>2. /\ files' \in [Urls -> FileStates]
        /\ \A u \in Urls : files[u] = "whole" => files'[u] = "whole"
    BY <1>4, <2>1 DEF Write, FilesInv, FileStates
  <2> QED
    BY <1>4, <2>2 DEF Write, FilesInv, At, HandFields
<1>5. CASE Callback
  BY <1>5 DEF Callback, FilesInv, At
<1>6. CASE AskRedirected
  BY <1>6 DEF AskRedirected, FilesInv, At, HandFields
<1>7. CASE FollowRedirect
  BY <1>7 DEF FollowRedirect, FilesInv, At, HandFields
<1> QED
  BY <1>1, <1>2, <1>3, <1>4, <1>5, <1>6, <1>7 DEF Worker

\* For any instance: nobody writes to a picture that is whole.
THEOREM WholeStaysWhole == Spec => KeptOnceFetched
<1>1. Init => FilesInv
  BY DEF Init, FilesInv, FileStates, At
<1>2. FilesInv /\ [Next]_vars =>
          FilesInv' /\ [\A u \in Urls : files[u] = "whole" => files'[u] = "whole"]_vars
  <2> SUFFICES ASSUME FilesInv, [Next]_vars
               PROVE  FilesInv' /\ [\A u \in Urls : files[u] = "whole"
                                                    => files'[u] = "whole"]_vars
    OBVIOUS
  <2>1. CASE User
    BY <2>1, UserTouchesNoFile, FilesUntouched
  <2>2. CASE Worker
    BY <2>2, WorkerKeeps
  <2>3. CASE UNCHANGED vars
    BY <2>3, FilesUntouched DEF vars, workVars
  <2> QED
    BY <2>1, <2>2, <2>3 DEF Next
<1> QED
  BY <1>1, <1>2, PTL DEF Spec, KeptOnceFetched

-----------------------------------------------------------------------------
(***************************************************************************)
(* Recursion over the naturals.                                             *)
(***************************************************************************)

\* A set of naturals that is not empty has a least one.
LEMMA LeastNatural ==
    ASSUME NEW T, T \subseteq Nat, T # {}
    PROVE  \E n \in T : \A m \in T : n <= m
<1> DEFINE R == OpToRel(<, Nat)
<1>1. IsWellFoundedOn(R, Nat)
  BY NatLessThanWellFounded
<1>2. \A x, y \in Nat : x < y => <<x, y>> \in R
  BY DEF OpToRel
<1> HIDE DEF R
<1>3. PICK x \in T : \A y \in T : ~ (<<y, x>> \in R)
  BY <1>1, WFMin
<1>4. \A y \in T : x \in Nat /\ y \in Nat /\ ~(y < x)
  BY <1>2, <1>3
<1> QED
  BY <1>4

\* A set with zero and the successors of its naturals has all of them.
LEMMA NatSet ==
    ASSUME NEW T, 0 \in T, \A n \in Nat : n \in T => n + 1 \in T
    PROVE  Nat \subseteq T
<1> SUFFICES ASSUME ~(Nat \subseteq T) PROVE FALSE
  OBVIOUS
<1> DEFINE M == Nat \ T
<1>1. PICK n \in M : \A m \in M : n <= m
  BY LeastNatural
<1>2. n \in Nat /\ n # 0 /\ n - 1 \in Nat
  BY <1>1
<1>3. n - 1 \notin M
  BY <1>1, <1>2
<1> QED
  BY <1>1, <1>2, <1>3

\* f begins with b, and goes from one value to the next with G.
Recurs(f, n, b, G) == f[0] = b /\ \A i \in 1 .. n : f[i] = G[<<f[i - 1], i>>]

\* There is such a function for any set of values that G does not leave.
LEMMA RecursiveFunction ==
    ASSUME NEW V, NEW n \in Nat, NEW b \in V, NEW G \in [V \X (1 .. n) -> V]
    PROVE  \E f \in [0 .. n -> V] : Recurs(f, n, b, G)
<1> DEFINE Def(m, f) == f = [i \in 0 .. m |-> IF i = 0 THEN b ELSE G[<<f[i - 1], i>>]]
           T == {m \in Nat : m <= n => \E f \in [0 .. m -> V] : Def(m, f)}
<1>1. 0 \in T
  <2> DEFINE f == [i \in 0 .. 0 |-> b]
  <2>1. f \in [0 .. 0 -> V]
    OBVIOUS
  <2>2. f = [i \in 0 .. 0 |-> IF i = 0 THEN b ELSE G[<<f[i - 1], i>>]]
    OBVIOUS
  <2> QED
    BY <2>1, <2>2
<1>2. ASSUME NEW m \in Nat, m \in T PROVE m + 1 \in T
  <2> SUFFICES ASSUME m + 1 <= n
               PROVE  \E f \in [0 .. m + 1 -> V] : Def(m + 1, f)
    OBVIOUS
  <2>1. PICK f \in [0 .. m -> V] : Def(m, f)
    BY <1>2
  <2> DEFINE e == G[<<f[m], m + 1>>]
             g == [i \in 0 .. m + 1 |-> IF i = m + 1 THEN e ELSE f[i]]
  <2>2. e \in V
    BY <2>1
  <2>3. g \in [0 .. m + 1 -> V]
    BY <2>1, <2>2
  <2>4. ASSUME NEW i \in 0 .. m + 1 PROVE g[i] = IF i = 0 THEN b ELSE G[<<g[i - 1], i>>]
    <3>1. CASE i = m + 1
      <4>1. g[i] = e /\ i # 0 /\ i - 1 = m /\ m \in 0 .. m + 1 /\ m # m + 1
        BY <3>1
      <4>2. g[m] = f[m]
        BY <4>1
      <4> QED
        BY <3>1, <4>1, <4>2
    <3>2. CASE i # m + 1
      <4>1. i \in 0 .. m /\ (i # 0 => i - 1 \in 0 .. m)
        BY <3>2
      <4>2. g[i] = f[i] /\ (i # 0 => g[i - 1] = f[i - 1])
        BY <4>1
      <4>3. f[i] = IF i = 0 THEN b ELSE G[<<f[i - 1], i>>]
        BY <2>1, <4>1
      <4> QED
        BY <4>2, <4>3
    <3> QED
      BY <3>1, <3>2
  <2>5. Def(m + 1, g)
    BY <2>4
  <2> QED
    BY <2>3, <2>5
<1> HIDE DEF T
<1>3. n \in T
  BY <1>1, <1>2, NatSet
<1>4. PICK f \in [0 .. n -> V] : Def(n, f)
  BY <1>3 DEF T
<1>5. \A i \in 0 .. n : f[i] = IF i = 0 THEN b ELSE G[<<f[i - 1], i>>]
  BY <1>4
<1>6. f[0] = b /\ \A i \in 1 .. n : f[i] = G[<<f[i - 1], i>>]
  <2>1. 0 \in 0 .. n /\ \A i \in 1 .. n : i \in 0 .. n /\ i # 0
    OBVIOUS
  <2> QED
    BY <1>5, <2>1
<1> QED
  BY <1>6 DEF Recurs

-----------------------------------------------------------------------------
(***************************************************************************)
(* Pictures that are set.                                                   *)
(***************************************************************************)

\* What becomes of the pictures f of the actors D and of the tasks q when one of
\* the actors is given a picture: it is shown at once, or asked for, or there is none.
IconWasSet(s, D, f, q, actor, url) ==
    /\ s = Tasks(s.shown, s.queue)
    /\ s.shown \in [D -> Pics]
    /\ \A a \in D \ {actor} : s.shown[a] = f[a]
    /\ url = NULL => s.shown = f /\ s.queue = q
    /\ url # NULL /\ LocalIcon(url)
          => s.queue = q /\ s.shown[actor] = IF Drawable(url) THEN url ELSE f[actor]
    /\ url # NULL /\ ~LocalIcon(url)
          => s.shown = f /\ s.queue = <<Request(actor, url)>> \o q

LEMMA SetIconDoes ==
    ASSUME files \in [Urls -> FileStates], NULL \notin Urls,
           NEW D, NEW f \in [D -> Pics], NEW q, NEW actor \in D, NEW url \in Urls \cup {NULL}
    PROVE  IconWasSet(SetIcon(Tasks(f, q), actor, url), D, f, q, actor, url)
<1> USE DEF IconWasSet
<1>1. CASE url = NULL
  BY <1>1 DEF SetIcon, Tasks
<1>2. CASE url # NULL /\ LocalIcon(url)
  <2> DEFINE pic == IF Drawable(url) THEN url ELSE f[actor]
  <2>1. SetIcon(Tasks(f, q), actor, url)
          = [shown |-> [f EXCEPT ![actor] = pic], queue |-> q]
    BY <1>2 DEF SetIcon, SetPic, SetFilename, PixmapUri, LocalIcon, Tasks
  <2>2. pic \in Pics
    BY DEF Pics
  <2> HIDE DEF pic
  <2>3. /\ [f EXCEPT ![actor] = pic] \in [D -> Pics]
        /\ [f EXCEPT ![actor] = pic][actor] = pic
        /\ \A a \in D \ {actor} : [f EXCEPT ![actor] = pic][a] = f[a]
    BY <2>2
  <2> QED
    BY <1>2, <2>1, <2>3 DEF Tasks, pic
<1>3. CASE url # NULL /\ ~LocalIcon(url)
  BY <1>3 DEF SetIcon, Tasks
<1> QED
  BY <1>1, <1>2, <1>3

\* An application's small picture is one of the pictures.
LEMMA SmallPictures ==
    ASSUME NEW app \in Apps
    PROVE  /\ SmallPic1(app) \in Urls \cup {NULL}
           /\ \A i \in Nat : PreviewPic(app, i) \in Urls \cup {NULL}
           /\ PicCount(app) \in Nat
           /\ PicCount(app) > 0 => SmallPic1(app) \in Urls
<1>1. Small[app] \in Seq(Urls) /\ Big[app] \in Seq(Urls \cup {NULL})
  BY AppAssumption
<1>2. SmallPic1(app) \in Urls \cup {NULL} /\ (Len(Small[app]) > 0 => SmallPic1(app) \in Urls)
  BY <1>1 DEF SmallPic1
<1>3. ASSUME NEW i \in Nat PROVE PreviewPic(app, i) \in Urls \cup {NULL}
  BY <1>1 DEF PreviewPic
<1> QED
  BY <1>1, <1>2, <1>3 DEF PicCount

\* The actors of a new list, and the tasks it may ask for.
NewIcons(list) == {Icon(made + i) : i \in DOMAIN list}
OwnRequests(list) ==
    {Request(Icon(made + i), SmallPic1(list[i])) :
        i \in {j \in DOMAIN list : SmallPic1(list[j]) # NULL}}
Waiting == {queue[i] : i \in DOMAIN queue}

\* What may have become of the pictures and of the tasks once icons are set.
IconsSet(list) ==
    [shown : {f \in [NewIcons(list) -> Pics] :
                 \A i \in DOMAIN list : f[Icon(made + i)] \in {SmallPic1(list[i]), NULL}},
     queue : Seq(Waiting \cup OwnRequests(list))]

\* One more icon leaves them so.
LEMMA SetIconOfList ==
    ASSUME files \in [Urls -> FileStates], made \in Nat,
           NEW list \in Seq(Apps), NEW s \in IconsSet(list), NEW i \in 1 .. Len(list)
    PROVE  SetIcon(s, Icon(made + i), SmallPic1(list[i])) \in IconsSet(list)
<1> DEFINE f == s.shown
           q == s.queue
           actor == Icon(made + i)
           url == SmallPic1(list[i])
           t == SetIcon(s, actor, url)
<1>1. s = Tasks(f, q) /\ f \in [NewIcons(list) -> Pics]
      /\ q \in Seq(Waiting \cup OwnRequests(list))
      /\ \A j \in DOMAIN list : f[Icon(made + j)] \in {SmallPic1(list[j]), NULL}
  BY DEF IconsSet, Tasks
<1>2. i \in DOMAIN list /\ list[i] \in Apps /\ actor \in NewIcons(list)
  BY DEF NewIcons
<1>3. url \in Urls \cup {NULL}
  BY <1>2, SmallPictures
<1>4. \A j \in DOMAIN list : Icon(made + j) = actor => j = i
  BY <1>2 DEF Icon
<1>5. \A j \in DOMAIN list : Icon(made + j) \in NewIcons(list)
  BY DEF NewIcons
<1> HIDE DEF f, q, actor, url
<1>6. IconWasSet(t, NewIcons(list), f, q, actor, url)
  <2>1. s = Tasks(f, q) /\ files \in [Urls -> FileStates] /\ NULL \notin Urls
    BY <1>1, AppAssumption
  <2> QED
    BY <1>1, <1>2, <1>3, <2>1, SetIconDoes
<1> HIDE DEF t
<1>7. t.queue \in Seq(Waiting \cup OwnRequests(list))
  <2>1. url # NULL => Request(actor, url) \in OwnRequests(list)
    BY <1>2 DEF OwnRequests, actor, url
  <2>2. CASE url # NULL /\ ~LocalIcon(url)
    <3> DEFINE r == Request(actor, url)
               S == Waiting \cup OwnRequests(list)
    <3>1. r \in S /\ q \in Seq(S) /\ t.queue = <<r>> \o q
      BY <1>1, <1>6, <2>1, <2>2 DEF IconWasSet
    <3> HIDE DEF r, S
    <3> QED
      BY <3>1 DEF S
  <2> QED
    BY <1>1, <1>6, <2>2 DEF IconWasSet
<1>8. ASSUME NEW j \in DOMAIN list
      PROVE  t.shown[Icon(made + j)] \in {SmallPic1(list[j]), NULL}
  <2>1. CASE j = i
    BY <1>1, <1>6, <2>1 DEF IconWasSet, actor, url
  <2>2. CASE j # i
    BY <1>1, <1>4, <1>5, <1>6, <2>2 DEF IconWasSet
  <2> QED
    BY <2>1, <2>2
<1>9. Tasks(t.shown, t.queue) \in IconsSet(list)
  BY <1>6, <1>7, <1>8 DEF IconWasSet, IconsSet, Tasks
<1> QED
  BY <1>6, <1>9 DEF IconWasSet, t, actor, url

\* Every icon of a new list shows its own picture or none, and what is asked for
\* is asked for an icon of the list.
LEMMA SetIconsDoes ==
    ASSUME files \in [Urls -> FileStates], made \in Nat,
           NEW S, queue \in Seq(S), NEW list \in Seq(Apps)
    PROVE  SetIcons(list) \in IconsSet(list)
<1> DEFINE n == Len(list)
           b == Tasks([a \in NewIcons(list) |-> NULL], queue)
           V == IconsSet(list)
           set(v, i) == SetIcon(v, Icon(made + i), SmallPic1(list[i]))
           G == [x \in V \X (1 .. n) |-> set(x[1], x[2])]
           Def(f) == f = [i \in 0 .. n |-> IF i = 0 THEN b ELSE set(f[i - 1], i)]
           F == CHOOSE f : Def(f)
<1>1. n \in Nat
  OBVIOUS
<1>2. b \in V
  <2>1. NULL \in Pics
    BY DEF Pics
  <2>2. queue \in Seq(Waiting \cup OwnRequests(list))
    BY DEF Waiting
  <2>3. \A i \in DOMAIN list : Icon(made + i) \in NewIcons(list)
    BY DEF NewIcons
  <2> QED
    BY <2>1, <2>2, <2>3 DEF IconsSet, Tasks
<1>3. \A v \in V, i \in 1 .. n : set(v, i) \in V
  BY SetIconOfList
<1>4. G \in [V \X (1 .. n) -> V] /\ \A v \in V, i \in 1 .. n : G[<<v, i>>] = set(v, i)
  <2> HIDE DEF V, set, n
  <2> QED
    BY <1>3
<1> HIDE DEF n, b, V, set, G
<1>5. \E f : Def(f)
  <2>1. PICK f \in [0 .. n -> V] : Recurs(f, n, b, G)
    BY <1>1, <1>2, <1>4, RecursiveFunction
  <2>2. \A i \in 1 .. n : f[i - 1] \in V
    BY <1>1, <2>1
  <2>3. \A i \in 1 .. n : f[i] = set(f[i - 1], i)
    BY <1>4, <2>1, <2>2 DEF Recurs
  <2>4. \A i \in 0 .. n : f[i] = IF i = 0 THEN b ELSE set(f[i - 1], i)
    BY <1>1, <2>1, <2>3 DEF Recurs
  <2>5. Def(f)
    BY <2>1, <2>4
  <2> QED
    BY <2>5
<1>6. Def(F)
  BY <1>5
<1>7. SetIcons(list) = F[n]
  BY DEF SetIcons, n, b, set, NewIcons
<1> HIDE DEF F
<1> DEFINE T == {i \in Nat : i <= n => F[i] \in V}
<1>8. 0 \in T
  BY <1>1, <1>2, <1>6
<1>9. ASSUME NEW i \in Nat, i \in T PROVE i + 1 \in T
  <2> SUFFICES ASSUME i + 1 <= n PROVE F[i + 1] \in V
    OBVIOUS
  <2>1. i + 1 \in 0 .. n /\ i + 1 \in 1 .. n /\ i + 1 # 0 /\ (i + 1) - 1 = i /\ i <= n
    BY <1>1
  <2>2. F[i + 1] = set(F[i], i + 1)
    BY <1>6, <2>1
  <2> QED
    BY <1>3, <1>9, <2>1, <2>2
<1>10. n \in T
  <2> HIDE DEF T
  <2> QED
    BY <1>1, <1>8, <1>9, NatSet
<1> QED
  BY <1>7, <1>10 DEF V

-----------------------------------------------------------------------------
(***************************************************************************)
(* Actors.                                                                  *)
(***************************************************************************)

Requests == [actor : Actors, url : Urls]

\* Actors that are made are never taken away.
LEMMA MoreActors ==
    ASSUME made \in Nat, made' \in Nat, made <= made'
    PROVE  /\ Actors \subseteq Actors'
           /\ Hands(Actors) \subseteq Hands(Actors')
           /\ Requests \subseteq Requests'
<1>1. Actors \subseteq Actors'
  BY DEF Actors
<1> QED
  BY <1>1 DEF Hands, Requests

\* The next actors are new, and no two are the same.
LEMMA NewActors ==
    ASSUME made \in Nat
    PROVE  /\ \A i \in Nat \ {0} : Icon(made + i) \notin Actors /\ BigPic(made + i) \notin Actors
           /\ \A i, j \in Nat : Icon(made + i) = Icon(made + j) => i = j
  BY DEF Actors, Icon, BigPic

\* NULL is no page, and no task.
LEMMA NullIsNone ==
    ASSUME made \in Nat
    PROVE  NULL \notin InfoPages(Actors) /\ NULL \notin Hands(Actors)
<1>1. Actors \subseteq AllActors
  BY DEF Actors, AllActors, Icon, BigPic
<1> QED
  BY <1>1, NullAssumption DEF InfoPages, Hands

\* Every task that is on its way is for an actor that was made.
LEMMA OnTheirWay ==
    ASSUME TypeOK
    PROVE  /\ \A i \in DOMAIN queue : queue[i].actor \in Actors /\ queue[i].url \in Urls
           /\ hand # NULL => hand \in Hands(Actors) /\ hand.actor \in Actors /\ hand.url \in Urls
<1>1. queue \in Seq(Requests)
  BY DEF TypeOK, Requests
<1>2. \A i \in DOMAIN queue : queue[i] \in Requests
  BY <1>1
<1>3. \A r \in Requests : r.actor \in Actors /\ r.url \in Urls
  BY DEF Requests
<1>4. hand # NULL => hand \in Hands(Actors)
  BY DEF TypeOK
<1> QED
  BY <1>2, <1>3, <1>4 DEF Hands

\* Column and row make up the place.
LEMMA PlaceOfIcon ==
    ASSUME NEW n \in Nat, NEW actor, NEW app
    PROVE  LET icon == AddActor(n, actor, app) IN
           /\ icon.actor = actor /\ icon.app = app
           /\ icon.col \in Nat /\ icon.row \in 0 .. Rows - 1
           /\ Place(icon) = n
<1>1. ASSUME NEW r \in Nat \ {0}
      PROVE  n \div r \in Nat /\ n % r \in 0 .. r - 1
    OBVIOUS
<1>2. ASSUME NEW r \in Nat \ {0} PROVE (n \div r) * r + (n % r) = n
    OBVIOUS
<1>3. n \div Rows \in Nat /\ n % Rows \in 0 .. Rows - 1 /\ (n \div Rows) * Rows + (n % Rows) = n
  BY <1>1, <1>2, BoundAssumption
<1> DEFINE col == n \div Rows
           row == n % Rows
           icon == AddActor(n, actor, app)
<1>4. icon = [actor |-> actor, app |-> app, col |-> col, row |-> row]
  BY DEF AddActor
<1>5. col \in Nat /\ row \in 0 .. Rows - 1 /\ col * Rows + row = n
  BY <1>3
<1> HIDE DEF col, row, icon
<1>6. Place(icon) = n
  BY <1>4, <1>5 DEF Place
<1> QED
  BY <1>4, <1>5, <1>6 DEF icon

-----------------------------------------------------------------------------
(***************************************************************************)
(* The icon view.                                                           *)
(***************************************************************************)

\* A view whose icons are listed, and whose places are as many as it counts, is
\* empty once it is cleaned.
LEMMA CleanEmpties ==
    ASSUME ViewFits, count \in Nat
    PROVE  Clean(View) = [view |-> {}, count |-> 0, listed |-> listed]
<1>1. CASE count = 0
  <2>1. \A icon \in view : Place(icon) \in 0 .. -1
    BY <1>1 DEF ViewFits
  <2>2. view = {}
    BY <2>1
  <2> QED
    BY <1>1, <2>2 DEF Clean, View
<1>2. CASE count # 0
  <2>1. {icon \in view : icon.actor \notin listed} = {}
    BY DEF ViewFits
  <2> QED
    BY <1>2, <2>1 DEF Clean, View
<1> QED
  BY <1>1, <1>2

LEMMA NewViewClean == Clean(NewView) = [view |-> {}, count |-> 0, listed |-> {}]
  BY DEF Clean, NewView

\* The frame that shows a list: its icons, and what is asked for them.
LEMMA ShowListDoes ==
    ASSUME PicInv, NEW list \in Lists, NEW v, ShowList(v, list), page' = NULL,
           NEW old \in SUBSET Actors,
           Clean(v) = [view |-> {}, count |-> 0, listed |-> old]
    PROVE  /\ view' = {AddActor(i - 1, Icon(made + i), list[i]) : i \in DOMAIN list}
           /\ count' = Len(list) /\ listed' = old \cup NewIcons(list)
           /\ made' = made + Len(list)
           /\ Len(list) \in Nat /\ made' \in Nat /\ made <= made'
           /\ \A i \in DOMAIN list : i \in 1 .. Len(list) /\ list[i] \in Apps
           /\ DOMAIN list = 1 .. Len(list)
           /\ Tasks(shown', queue') \in IconsSet(list)
           /\ Live' = NewIcons(list) /\ NewIcons(list) \subseteq Actors'
<1>1. list \in Seq(Apps) /\ made \in Nat
  BY AppAssumption DEF PicInv, TypeOK
<1>2. \A i \in DOMAIN list : 0 + i - 1 = i - 1 /\ i \in 1 .. Len(list) /\ list[i] \in Apps
  BY <1>1
<1>3. /\ view' = {AddActor(i - 1, Icon(made + i), list[i]) : i \in DOMAIN list}
      /\ count' = Len(list) /\ listed' = old \cup NewIcons(list)
      /\ made' = made + Len(list)
  BY <1>1, <1>2 DEF ShowList, SetWithData, NewIcons
<1>4. SetIcons(list) \in IconsSet(list)
  BY <1>1, SetIconsDoes DEF PicInv, TypeOK
<1>5. Tasks(shown', queue') \in IconsSet(list)
  BY <1>4 DEF ShowList, IconsSet, Tasks
<1>6. ActorsOf(view') = NewIcons(list)
  <2>1. \A i \in DOMAIN list : AddActor(i - 1, Icon(made + i), list[i]).actor = Icon(made + i)
    BY DEF AddActor
  <2> QED
    BY <1>3, <2>1 DEF ActorsOf, NewIcons
<1>7. NewIcons(list) \subseteq Actors'
  BY <1>1, <1>3 DEF NewIcons, Actors
<1> QED
  BY <1>1, <1>2, <1>3, <1>5, <1>6, <1>7 DEF Live

\* Who leaves the files and the task in hand alone, and keeps the actors, leaves
\* what is said of them alone.
LEMMA SameHand ==
    ASSUME FilesInv, FoundInv, UNCHANGED <<files, hand>>
    PROVE  FilesInv' /\ FoundInv'
  BY FilesUntouched DEF FoundInv, At

\* A frame that shows a list keeps the invariant, whichever frame it is.
LEMMA ShowListKeeps ==
    ASSUME PicInv, NEW list \in Lists, NEW v, ShowList(v, list), page' = NULL,
           NEW old \in SUBSET Actors,
           Clean(v) = [view |-> {}, count |-> 0, listed |-> old],
           Clicks, UNCHANGED <<files, hand, ended, excused>>
    PROVE  PicInv'
<1>1. /\ view' = {AddActor(i - 1, Icon(made + i), list[i]) : i \in DOMAIN list}
      /\ count' = Len(list) /\ listed' = old \cup NewIcons(list)
      /\ made' = made + Len(list)
      /\ Len(list) \in Nat /\ made' \in Nat /\ made <= made'
      /\ \A i \in DOMAIN list : i \in 1 .. Len(list) /\ list[i] \in Apps
      /\ DOMAIN list = 1 .. Len(list)
      /\ Tasks(shown', queue') \in IconsSet(list)
      /\ Live' = NewIcons(list) /\ NewIcons(list) \subseteq Actors'
  BY ShowListDoes
<1>2. made \in Nat /\ queue \in Seq(Requests)
  BY DEF PicInv, TypeOK, Requests
<1>3. /\ Actors \subseteq Actors'
      /\ Hands(Actors) \subseteq Hands(Actors')
      /\ Requests \subseteq Requests'
  BY <1>1, <1>2, MoreActors
<1>n. Len(list) \in Nat /\ DOMAIN list = 1 .. Len(list)
      /\ \A i \in DOMAIN list : i \in Nat \ {0} /\ i \in Nat /\ i - 1 \in Nat
  BY <1>1
<1> DEFINE icon(i) == AddActor(i - 1, Icon(made + i), list[i])
<1>4. ASSUME NEW i \in DOMAIN list
      PROVE  /\ icon(i).actor = Icon(made + i) /\ icon(i).app = list[i]
             /\ icon(i).col \in Nat /\ icon(i).row \in 0 .. Rows - 1
             /\ Place(icon(i)) = i - 1
  <2>1. i - 1 \in Nat
    BY <1>1
  <2> QED
    BY <2>1, PlaceOfIcon
<1>5. \A i \in DOMAIN list : Icon(made + i) \in NewIcons(list)
  BY DEF NewIcons
<1>6. /\ shown' \in [NewIcons(list) -> Pics]
      /\ \A i \in DOMAIN list : shown'[Icon(made + i)] \in {SmallPic1(list[i]), NULL}
      /\ queue' \in Seq(Waiting \cup OwnRequests(list))
  BY <1>1 DEF IconsSet, Tasks
<1>7. \A r \in Waiting : r \in Requests
  BY <1>2 DEF Waiting
<1>8. ASSUME NEW r \in OwnRequests(list)
      PROVE  \E i \in DOMAIN list : /\ r.actor = Icon(made + i) /\ r.url = SmallPic1(list[i])
                                    /\ r \in Requests'
  <2>1. PICK i \in DOMAIN list : r = Request(Icon(made + i), SmallPic1(list[i]))
                                 /\ SmallPic1(list[i]) # NULL
    BY DEF OwnRequests
  <2>2. SmallPic1(list[i]) \in Urls /\ Icon(made + i) \in Actors'
    BY <1>1, <1>5, <2>1, SmallPictures
  <2> QED
    BY <2>1, <2>2 DEF Request, Requests
<1>9. view' = {icon(i) : i \in DOMAIN list}
  BY <1>1
<1> HIDE DEF icon
<1>10. TypeOK'
  <2>1. view' \subseteq [actor : Actors', app : Apps, col : Nat, row : 0 .. Rows - 1]
    <3>1. ASSUME NEW i \in DOMAIN list
          PROVE  icon(i) \in [actor : Actors', app : Apps, col : Nat, row : 0 .. Rows - 1]
      <4>1. icon(i) = [actor |-> icon(i).actor, app |-> icon(i).app,
                       col |-> icon(i).col, row |-> icon(i).row]
        BY DEF icon, AddActor
      <4>2. icon(i).actor \in Actors' /\ icon(i).app \in Apps
        BY <1>1, <1>4, <1>5
      <4> QED
        BY <1>4, <4>1, <4>2
    <3> QED
      BY <1>9, <3>1
  <2>2. queue' \in Seq(Requests')
    <3>1. Waiting \cup OwnRequests(list) \subseteq Requests'
      BY <1>3, <1>7, <1>8
    <3> QED
      BY <1>6, <3>1
  <2>3. listed' \subseteq Actors' /\ count' \in Nat /\ made' \in Nat
    BY <1>1, <1>3
  <2>4. shown' \in [Live' -> Urls \cup {NULL}]
    BY <1>1, <1>6 DEF Pics
  <2>5. hand' \in Hands(Actors') \cup {NULL} /\ (hand' # NULL => hand'.left \in 1 .. MaxTries)
    BY <1>3 DEF PicInv, TypeOK
  <2>6. files' \in [Urls -> FileStates] /\ ended' \in BOOLEAN
        /\ excused' \in BOOLEAN /\ clicks' \in 0 .. MaxClicks
    BY BoundAssumption DEF PicInv, TypeOK, Clicks
  <2> QED
    BY <2>1, <2>2, <2>3, <2>4, <2>5, <2>6 DEF TypeOK, Requests
<1>11. ViewFits'
  <2>1. ASSUME NEW a \in view'
        PROVE  a.actor \in listed' /\ shown'[a.actor] \in {SmallPic1(a.app), NULL}
    <3>1. PICK i \in DOMAIN list : a = icon(i)
      BY <1>9
    <3>2. a.actor = Icon(made + i) /\ a.app = list[i]
      BY <1>4, <3>1
    <3>3. shown'[Icon(made + i)] \in {SmallPic1(list[i]), NULL}
      BY <1>6
    <3>4. a.actor \in listed'
      BY <1>1, <1>5, <3>2
    <3> QED
      BY <3>2, <3>3, <3>4
  <2>2. {Place(a) : a \in view'} = 0 .. count' - 1
    <3>1. ASSUME NEW a \in view' PROVE Place(a) \in 0 .. count' - 1
      <4>1. PICK i \in DOMAIN list : a = icon(i)
        BY <1>9
      <4>2. Place(a) = i - 1 /\ count' = Len(list)
        BY <1>1, <1>4, <4>1
      <4> QED
        BY <1>n, <4>2
    <3>2. ASSUME NEW k \in 0 .. count' - 1 PROVE \E a \in view' : Place(a) = k
      <4>1. k \in 0 .. Len(list) - 1
        BY <1>1
      <4>2. k + 1 \in DOMAIN list /\ (k + 1) - 1 = k
        BY <1>n, <4>1
      <4>3. icon(k + 1) \in view'
        BY <1>9, <4>2
      <4>4. Place(icon(k + 1)) = (k + 1) - 1
        BY <1>4, <4>2
      <4> QED
        BY <4>2, <4>3, <4>4
    <3> QED
      BY <3>1, <3>2
  <2>3. ASSUME NEW a \in view', NEW b \in view', Place(a) = Place(b) PROVE a = b
    <3>1. PICK i \in DOMAIN list : a = icon(i)
      BY <1>9
    <3>2. PICK j \in DOMAIN list : b = icon(j)
      BY <1>9
    <3>3. i = j
      BY <1>n, <1>4, <2>3, <3>1, <3>2
    <3> QED
      BY <3>1, <3>2, <3>3
  <2> QED
    BY <2>1, <2>2, <2>3 DEF ViewFits, Place
<1>12. TasksInv'
  <2> SUFFICES ASSUME NEW i \in DOMAIN list
               PROVE  /\ \A k \in DOMAIN queue' :
                            queue'[k].actor = Icon(made + i) => queue'[k].url = SmallPic1(list[i])
                      /\ hand # NULL => hand.actor # Icon(made + i)
    BY <1>4, <1>9 DEF TasksInv, SmallPic1
  <2>1. Icon(made + i) \notin Actors
    BY <1>n, <1>2, NewActors
  <2>2. ASSUME NEW k \in DOMAIN queue', queue'[k].actor = Icon(made + i)
        PROVE  queue'[k].url = SmallPic1(list[i])
    <3>1. queue'[k] \in OwnRequests(list)
      BY <1>6, <1>7, <2>1, <2>2 DEF Requests
    <3>2. PICK j \in DOMAIN list :
             queue'[k].actor = Icon(made + j) /\ queue'[k].url = SmallPic1(list[j])
      BY <1>8, <3>1
    <3>3. i = j
      BY <1>n, <1>2, <2>2, <3>2, NewActors
    <3> QED
      BY <3>2, <3>3
  <2>3. hand # NULL => hand.actor \in Actors
    BY DEF PicInv, TypeOK, Hands
  <2> QED
    BY <2>1, <2>2, <2>3
<1>13. FilesInv' /\ FoundInv'
  BY SameHand DEF PicInv
<1>14. PageInv'
  BY DEF PageInv
<1> QED
  BY <1>10, <1>11, <1>12, <1>13, <1>14 DEF PicInv

\* The frame gets other results: its own icons were all listed, so all go.
LEMMA SetResultsKeeps == ASSUME PicInv, NEW list \in Lists, SetResults(list) PROVE PicInv'
<1>1. listed \in SUBSET Actors /\ Clean(View) = [view |-> {}, count |-> 0, listed |-> listed]
  BY CleanEmpties DEF PicInv, TypeOK
<1> QED
  BY <1>1, ShowListKeeps DEF SetResults

LEMMA ReturnKeeps == ASSUME PicInv, NEW list \in Lists, OnReturnButtonPress(list) PROVE PicInv'
<1>1. {} \in SUBSET Actors
  OBVIOUS
<1> QED
  BY <1>1, NewViewClean, ShowListKeeps DEF OnReturnButtonPress

-----------------------------------------------------------------------------
(***************************************************************************)
(* The info page.                                                           *)
(***************************************************************************)

\* What draw_pic makes of the picture f of the actor and of the tasks q, unless
\* the small picture has no file: the picture is the one to be shown, or that one
\* is asked for.
Drawn(actor, app, current, f, q) ==
    LET small == SmallPic1(app)
        big == PreviewPic(app, current)
    IN  /\ big = NULL => /\ queue' = q
                         /\ small # NULL /\ Drawable(small) => shown'[actor] = small
                         /\ small = NULL => shown' = f
        /\ big # NULL /\ LocalIcon(big) => /\ queue' = q
                                           /\ Drawable(big) => shown'[actor] = big
        /\ big # NULL /\ ~LocalIcon(big) => queue' = <<Request(actor, big)>> \o q

LEMMA DrawPicDoes ==
    ASSUME files \in [Urls -> FileStates],
           NEW actor, NEW app \in Apps, NEW current \in Nat,
           NEW f \in [{actor} -> Pics], NEW S, NEW q \in Seq(S),
           \A u \in Urls : Request(actor, u) \in S,
           DrawPic(Tasks(f, q), actor, app, current)
    PROVE  /\ shown' \in [{actor} -> Pics]
           /\ queue' \in Seq(S)
           /\ page' = [actor |-> actor, app |-> app, current |-> current,
                       next |-> current < PicCount(app), prev |-> current > 1]
           /\ excused' = Overtaken(actor, app, current)
           /\ SmallPic1(app) = NULL \/ LocalIcon(SmallPic1(app))
                => Drawn(actor, app, current, f, q)
<1> DEFINE small == SmallPic1(app)
           big == PreviewPic(app, current)
           s == SetIcon(Tasks(f, q), actor, small)
           t == SetIcon(s, actor, big)
<1>1. NULL \notin Urls /\ small \in Urls \cup {NULL} /\ big \in Urls \cup {NULL}
  BY SmallPictures, AppAssumption
<1>2. shown' = t.shown /\ queue' = t.queue
  BY DEF DrawPic, SetPics
<1>3. IconWasSet(s, {actor}, f, q, actor, small)
  <2> HIDE DEF small
  <2> QED
    BY <1>1, SetIconDoes DEF s
<1> HIDE DEF small, big, s
<1>4. s = Tasks(s.shown, s.queue) /\ s.shown \in [{actor} -> Pics]
  BY <1>3 DEF IconWasSet
<1>5. IconWasSet(t, {actor}, s.shown, s.queue, actor, big)
  <2> DEFINE g == s.shown
             r == s.queue
  <2>1. t = SetIcon(Tasks(g, r), actor, big) /\ g \in [{actor} -> Pics]
    BY <1>4
  <2> HIDE DEF t, g, r
  <2>2. IconWasSet(t, {actor}, g, r, actor, big)
    BY <1>1, <2>1, SetIconDoes
  <2> QED
    BY <2>2 DEF g, r
<1> HIDE DEF t
<1>6. s.queue \in Seq(S)
  <2>1. CASE small # NULL /\ ~LocalIcon(small)
    <3> DEFINE r == Request(actor, small)
    <3>1. r \in S /\ s.queue = <<r>> \o q
      BY <1>1, <1>3, <2>1 DEF IconWasSet
    <3> HIDE DEF r
    <3> QED
      BY <3>1
  <2> QED
    BY <1>3, <2>1 DEF IconWasSet
<1>7. queue' \in Seq(S)
  <2>1. CASE big # NULL /\ ~LocalIcon(big)
    <3> DEFINE r == Request(actor, big)
    <3>1. r \in S /\ t.queue = <<r>> \o s.queue
      BY <1>1, <1>5, <2>1 DEF IconWasSet
    <3> HIDE DEF r
    <3> QED
      BY <1>2, <1>6, <3>1
  <2> QED
    BY <1>2, <1>5, <1>6, <2>1 DEF IconWasSet
<1>9. ASSUME small = NULL \/ LocalIcon(small)
      PROVE  Drawn(actor, app, current, f, q)
  <2>1. /\ s.queue = q /\ (small = NULL => s.shown = f)
        /\ small # NULL /\ Drawable(small) => s.shown[actor] = small
    BY <1>3, <1>9 DEF IconWasSet
  <2> QED
    BY <1>2, <1>5, <2>1 DEF IconWasSet, Drawn, small, big
<1> QED
  BY <1>2, <1>5, <1>7, <1>9 DEF DrawPic, IconWasSet, small

\* A page that is drawn and not overtaken settles, if its actor is new, or if it
\* has pictures.
LEMMA DrawnSettles ==
    ASSUME NEW actor, NEW app \in Apps, NEW current \in Nat, NEW f, NEW S, NEW q \in Seq(S),
           q = queue, hand' = hand, Drawn(actor, app, current, f, q),
           NEW p, p.actor = actor, p.app = app, p.current = current,
           ~Overtaken(actor, app, current),
           \/ PicCount(app) > 0
           \/ ~Pending(actor) /\ f[actor] = NULL
    PROVE  Settles(p)'
<1> DEFINE small == SmallPic1(app)
           big == PreviewPic(app, current)
<1>1. small \in Urls \cup {NULL} /\ (PicCount(app) > 0 => small # NULL) /\ big \in Urls \cup {NULL}
  BY SmallPictures, AppAssumption
<1>2. (Wanted(p.app, p.current) = IF big = NULL THEN small ELSE big) /\ Wanted(p.app, p.current)' = Wanted(p.app, p.current)
  BY DEF Wanted, PreviewPic, SmallPic1
<1>3. /\ ~Asked(actor) /\ (big = NULL \/ LocalIcon(big) => ~Pending(actor))
      /\ small # NULL => LocalIcon(small)
  BY DEF Overtaken
<1>d. LET wanted == IF big = NULL THEN small ELSE big IN
      wanted # NULL /\ LocalIcon(wanted) => Drawable(wanted)
  BY DEF Overtaken, Wanted
<1>4. CASE big = NULL \/ LocalIcon(big)
  <2>1. queue' = queue /\ shown'[actor] = Wanted(p.app, p.current)
    BY <1>1, <1>2, <1>3, <1>4, <1>d DEF Drawn
  <2>2. ~Pending(actor)
    BY <1>3, <1>4
  <2> QED
    BY <1>2, <2>1, <2>2 DEF Settles, Pending, Asked
<1>5. CASE big # NULL /\ ~LocalIcon(big)
  <2> DEFINE r == Request(actor, big)
  <2>1. queue' = <<r>> \o q /\ r.actor = actor /\ r.url = Wanted(p.app, p.current)
    BY <1>2, <1>5 DEF Drawn, Request
  <2> HIDE DEF r
  <2>2. ASSUME NEW i \in DOMAIN queue'
        PROVE  queue'[i].actor = actor => queue'[i].url = Wanted(p.app, p.current)
    <3>1. CASE i = 1
      BY <2>1, <3>1
    <3>2. CASE i # 1
      <4>1. queue'[i] = q[i - 1] /\ i - 1 \in DOMAIN q
        BY <2>1, <3>2
      <4> QED
        BY <1>3, <4>1 DEF Asked
    <3> QED
      BY <3>1, <3>2
  <2>3. Asked(actor)'
    <3>1. 1 \in DOMAIN queue' /\ queue'[1] = r
      BY <2>1
    <3> QED
      BY <2>1, <3>1 DEF Asked
  <2> QED
    BY <1>2, <2>2, <2>3 DEF Settles, Pending, Asked
<1> QED
  BY <1>4, <1>5

\* A press on an icon: the frame is gone, and nothing is on its way to the page.
LEMMA OnInfoIconEventKeeps ==
    ASSUME PicInv, NEW icon \in view, OnInfoIconEvent(icon)
    PROVE  PicInv'
<1> DEFINE actor == BigPic(made + 1)
           app == icon.app
           f == [a \in {actor} |-> NULL]
<1>1. /\ made' = made + 1 /\ view' = {} /\ count' = 0 /\ listed' = {}
      /\ UNCHANGED <<files, hand, ended>> /\ Clicks
      /\ DrawPic(Tasks(f, queue), actor, app, 1)
  BY DEF OnInfoIconEvent, NewView
<1>2. made \in Nat /\ queue \in Seq(Requests) /\ app \in Apps
      /\ files \in [Urls -> FileStates]
  BY DEF PicInv, TypeOK, Requests
<1>3. made' \in Nat /\ made <= made'
  BY <1>1, <1>2
<1>4. Hands(Actors) \subseteq Hands(Actors') /\ Requests \subseteq Requests'
  BY <1>2, <1>3, MoreActors
<1>5. actor \in Actors' /\ actor \notin Actors
  <2>1. actor \notin Actors
    BY <1>2, NewActors
  <2>2. actor \in Actors'
    BY <1>1, <1>2 DEF Actors
  <2> QED
    BY <2>1, <2>2
<1> HIDE DEF actor, app
<1>6. f \in [{actor} -> Pics] /\ f[actor] = NULL
  BY DEF Pics
<1> HIDE DEF f
<1>7. /\ shown' \in [{actor} -> Pics]
      /\ queue' \in Seq(Requests')
      /\ page' = [actor |-> actor, app |-> app, current |-> 1,
                  next |-> 1 < PicCount(app), prev |-> 1 > 1]
      /\ excused' = Overtaken(actor, app, 1)
      /\ SmallPic1(app) = NULL \/ LocalIcon(SmallPic1(app))
            => Drawn(actor, app, 1, f, queue)
  <2>1. queue \in Seq(Requests')
    BY <1>2, <1>4
  <2>2. \A u \in Urls : Request(actor, u) \in Requests'
    BY <1>5 DEF Request, Requests
  <2> QED
    BY <1>1, <1>2, <1>6, <2>1, <2>2, DrawPicDoes
<1>8. page' \in InfoPages(Actors') /\ page' # NULL /\ page'.actor = actor
      /\ page'.app = app /\ page'.current = 1
  <2>1. page' \in InfoPages(Actors')
    BY <1>2, <1>5, <1>7 DEF InfoPages
  <2>2. page' # NULL
    <3>1. NULL \notin InfoPages(Actors')
      <4>1. Actors' \subseteq AllActors
        BY <1>3 DEF Actors, AllActors, Icon, BigPic
      <4> QED
        BY <4>1, NullAssumption DEF InfoPages
    <3> QED
      BY <2>1, <3>1
  <2> QED
    BY <1>7, <2>1, <2>2
<1>9. TypeOK'
  <2>1. view' \subseteq [actor : Actors', app : Apps, col : Nat, row : 0 .. Rows - 1]
        /\ listed' \subseteq Actors' /\ count' \in Nat
    BY <1>1
  <2>2. shown' \in [Live' -> Urls \cup {NULL}]
    BY <1>7, <1>8 DEF Live, Pics
  <2>3. hand' \in Hands(Actors') \cup {NULL} /\ (hand' # NULL => hand'.left \in 1 .. MaxTries)
    BY <1>1, <1>4 DEF PicInv, TypeOK
  <2>4. files' \in [Urls -> FileStates] /\ ended' \in BOOLEAN
        /\ clicks' \in 0 .. MaxClicks
    BY <1>1, BoundAssumption DEF PicInv, TypeOK, Clicks
  <2>5. excused' \in BOOLEAN
    BY <1>7 DEF Overtaken, LocalIcon, Drawable, Asked, Pending
  <2> QED
    BY <1>3, <1>7, <1>8, <2>1, <2>2, <2>3, <2>4, <2>5 DEF TypeOK, Requests
<1>10. ViewFits' /\ TasksInv'
  BY <1>1 DEF ViewFits, TasksInv
<1>11. FilesInv' /\ FoundInv'
  BY <1>1, SameHand DEF PicInv
<1>12. PageInv'
  <2>1. ~Pending(actor)
    BY <1>5, OnTheirWay DEF Pending, Asked, PicInv
  <2>2. PICK p : p = page'
    OBVIOUS
  <2>3. p.actor = actor /\ p.app = app /\ p.current = 1 /\ p # NULL
    BY <1>8, <2>2
  <2>4. ASSUME ~excused' PROVE Settles(p)'
    <3>1. Drawn(actor, app, 1, f, queue) /\ ~Overtaken(actor, app, 1)
      BY <1>7, <2>4 DEF Overtaken
    <3>2. hand' = hand /\ 1 \in Nat
      BY <1>1
    <3> QED
      BY <1>2, <1>6, <2>1, <2>3, <3>1, <3>2, DrawnSettles
  <2> QED
    BY <1>1, <2>2, <2>3, <2>4 DEF PageInv, Settles, Wanted, PreviewPic, SmallPic1, Asked, Pending
<1> QED
  BY <1>9, <1>10, <1>11, <1>12 DEF PicInv

\* A press on a button: the page stays, and its actor is drawn again.
LEMMA OnPicButtonPressKeeps ==
    ASSUME PicInv, NEW current \in Nat, page # NULL, OnPicButtonPress(current),
           current = page.current \/ current \in 1 .. PicCount(page.app)
    PROVE  PicInv'
<1> DEFINE actor == page.actor
           app == page.app
<1>1. UNCHANGED <<files, view, count, listed, made, hand, ended>> /\ Clicks
  BY DEF OnPicButtonPress, viewVars
<1>2. /\ page \in InfoPages(Actors) /\ actor \in Actors /\ app \in Apps /\ made \in Nat
      /\ shown \in [{actor} -> Pics] /\ queue \in Seq(Requests)
      /\ files \in [Urls -> FileStates]
  <2>1. page \in InfoPages(Actors) /\ made \in Nat /\ queue \in Seq(Requests)
        /\ files \in [Urls -> FileStates]
    BY DEF PicInv, TypeOK, Requests
  <2>2. shown \in [{actor} -> Pics]
    BY DEF PicInv, TypeOK, Live, Pics
  <2> QED
    BY <2>1, <2>2 DEF InfoPages
<1>3. Actors' = Actors
  BY <1>1 DEF Actors
<1>4. clicks' \in 0 .. MaxClicks
  BY <1>1, BoundAssumption DEF PicInv, TypeOK, Clicks
<1>5. FilesInv' /\ FoundInv'
  BY <1>1, SameHand DEF PicInv
<1>6. CASE current = page.current
  <2>1. UNCHANGED <<page, shown, queue, excused>>
    BY <1>6 DEF OnPicButtonPress
  <2>2. TypeOK'
    BY <1>1, <1>3, <1>4, <2>1 DEF PicInv, TypeOK, Live
  <2>3. ViewFits'
    BY <1>1, <2>1 DEF PicInv, ViewFits
  <2>4. TasksInv'
    BY <1>1, <2>1 DEF PicInv, TasksInv
  <2>5. PageInv'
    BY <1>1, <2>1 DEF PicInv, PageInv, Settles, Wanted, PreviewPic, SmallPic1, Asked, Pending
  <2> QED
    BY <1>5, <2>2, <2>3, <2>4, <2>5 DEF PicInv
<1>7. CASE current # page.current
  <2>1. DrawPic(Tasks(shown, queue), actor, app, current)
    BY <1>7 DEF OnPicButtonPress
  <2>2. current \in 1 .. PicCount(app) /\ PicCount(app) \in Nat
    BY <1>2, <1>7, SmallPictures
  <2>3. \A u \in Urls : Request(actor, u) \in Requests
    BY <1>2 DEF Request, Requests
  <2>4. /\ shown' \in [{actor} -> Pics]
        /\ queue' \in Seq(Requests)
        /\ page' = [actor |-> actor, app |-> app, current |-> current,
                    next |-> current < PicCount(app), prev |-> current > 1]
        /\ excused' = Overtaken(actor, app, current)
        /\ SmallPic1(app) = NULL \/ LocalIcon(SmallPic1(app))
              => Drawn(actor, app, current, shown, queue)
    <3> HIDE DEF actor, app
    <3> QED
      BY <1>2, <2>1, <2>3, DrawPicDoes
  <2>5. /\ page' \in InfoPages(Actors) /\ page' # NULL /\ page'.actor = actor
        /\ page'.app = app /\ page'.current = current
    <3>1. page' \in InfoPages(Actors)
      BY <1>2, <2>4 DEF InfoPages
    <3> QED
      BY <1>2, <2>4, <3>1, NullIsNone
  <2>6. view = {}
    BY DEF PicInv, PageInv
  <2>7. TypeOK'
    <3>1. shown' \in [Live' -> Urls \cup {NULL}]
      BY <2>4, <2>5 DEF Live, Pics
    <3>2. view' \subseteq [actor : Actors, app : Apps, col : Nat, row : 0 .. Rows - 1]
      BY <1>1, <2>6
    <3>3. excused' \in BOOLEAN
      BY <2>4 DEF Overtaken, LocalIcon, Drawable, Asked, Pending
    <3>4. /\ files' \in [Urls -> FileStates]
          /\ count' \in Nat /\ listed' \subseteq Actors /\ made' \in Nat
          /\ hand' \in Hands(Actors) \cup {NULL} /\ (hand' # NULL => hand'.left \in 1 .. MaxTries)
          /\ ended' \in BOOLEAN
      BY <1>1 DEF PicInv, TypeOK
    <3> QED
      BY <1>3, <1>4, <2>4, <2>5, <3>1, <3>2, <3>3, <3>4 DEF TypeOK, Requests
  <2>8. ViewFits' /\ TasksInv'
    BY <1>1, <2>6 DEF PicInv, ViewFits, TasksInv
  <2>9. PageInv'
    <3>1. PICK p : p = page'
      OBVIOUS
    <3>2. p.actor = actor /\ p.app = app /\ p.current = current
      BY <2>5, <3>1
    <3>3. ASSUME ~excused' PROVE Settles(p)'
      <4>1. ~Overtaken(actor, app, current) /\ Drawn(actor, app, current, shown, queue)
        BY <2>4, <3>3 DEF Overtaken
      <4>2. hand' = hand /\ PicCount(app) > 0
        BY <1>1, <2>2
      <4> HIDE DEF actor, app
      <4> QED
        BY <1>2, <3>2, <4>1, <4>2, DrawnSettles
    <3> HIDE DEF actor, app
    <3> QED
      BY <1>1, <2>2, <2>6, <3>1, <3>2, <3>3
      DEF PageInv, Settles, Wanted, PreviewPic, SmallPic1, PicCount, Asked, Pending
  <2> QED
    BY <1>5, <2>7, <2>8, <2>9 DEF PicInv
<1> QED
  BY <1>6, <1>7

\* What the user does keeps the invariant.
LEMMA UserKeeps == ASSUME PicInv, User PROVE PicInv'
<1>1. ASSUME NEW list \in Lists, SetResults(list) \/ OnReturnButtonPress(list) PROVE PicInv'
  BY <1>1, SetResultsKeeps, ReturnKeeps
<1>2. ASSUME NEW icon \in view, OnInfoIconEvent(icon) PROVE PicInv'
  BY <1>2, OnInfoIconEventKeeps
<1>3. page # NULL => /\ page.current \in Nat /\ PicCount(page.app) \in Nat
                     /\ page.current = 1 \/ page.current \in 1 .. PicCount(page.app)
  BY SmallPictures DEF PicInv, TypeOK, InfoPages, PageInv
<1>4. CASE OnNextButtonPress
  <2> DEFINE current == NextPic(page.current, PicCount(page.app))
  <2>1. page # NULL /\ OnPicButtonPress(current)
    BY <1>4 DEF OnNextButtonPress
  <2>2. current \in Nat /\ (current = page.current \/ current \in 1 .. PicCount(page.app))
    BY <1>3, <2>1 DEF NextPic
  <2> QED
    BY <2>1, <2>2, OnPicButtonPressKeeps
<1>5. CASE OnPrevButtonPress
  <2> DEFINE current == PrevPic(page.current)
  <2>1. page # NULL /\ OnPicButtonPress(current)
    BY <1>5 DEF OnPrevButtonPress
  <2>2. current \in Nat /\ (current = page.current \/ current \in 1 .. PicCount(page.app))
    BY <1>3, <2>1 DEF PrevPic
  <2> QED
    BY <2>1, <2>2, OnPicButtonPressKeeps
<1> QED
  BY <1>1, <1>2, <1>4, <1>5 DEF User

-----------------------------------------------------------------------------
(***************************************************************************)
(* The worker.                                                              *)
(***************************************************************************)

\* A step of the worker that leaves the pictures and the tasks that wait alone, and
\* goes on with the task in hand, keeps what is said of them.
LEMMA GoesOnKeeps ==
    ASSUME TypeOK, ViewFits, TasksInv, PageInv,
           hand # NULL, hand' \in Hands(Actors), hand'.actor = hand.actor, hand'.url = hand.url,
           hand'.left \in 1 .. MaxTries, files' \in [Urls -> FileStates],
           UNCHANGED <<viewVars, page, shown, made, queue, ended, clicks, excused>>
    PROVE  TypeOK' /\ ViewFits' /\ TasksInv' /\ PageInv'
<1>1. Actors' = Actors /\ Live' = Live
  BY DEF Actors, Live, viewVars
<1>2. hand' # NULL
  BY NullIsNone DEF TypeOK
<1>3. TypeOK'
  BY <1>1 DEF TypeOK, viewVars
<1>4. ViewFits'
  BY DEF ViewFits, viewVars
<1>5. TasksInv'
  BY DEF TasksInv, viewVars
<1>6. PageInv'
  BY <1>2 DEF PageInv, Settles, Wanted, PreviewPic, SmallPic1, Asked, Pending, viewVars
<1> QED
  BY <1>3, <1>4, <1>5, <1>6

\* The next task is taken from those that wait.
LEMMA WorkerTakesKeeps ==
    ASSUME TypeOK, ViewFits, TasksInv, PageInv, WorkerTakes
    PROVE  TypeOK' /\ ViewFits' /\ FoundInv' /\ TasksInv' /\ PageInv'
<1> DEFINE r == queue[1]
<1>1. /\ queue # <<>> /\ queue' = Tail(queue) /\ hand = NULL
      /\ UNCHANGED <<files, view, count, listed, page, shown, made, ended, clicks, excused>>
      /\ hand' = [actor |-> r.actor, url |-> r.url, left |-> MaxTries, found |-> Found(r.url),
                  step |-> IF Found(r.url) THEN "callback" ELSE "ask"]
  BY DEF WorkerTakes, viewVars
<1>2. queue \in Seq(Requests) /\ made \in Nat
  BY DEF TypeOK, Requests
<1>3. 1 \in DOMAIN queue /\ r.actor \in Actors /\ r.url \in Urls
  BY <1>1, <1>2, OnTheirWay
<1>4. /\ queue' \in Seq(Requests)
      /\ \A i \in DOMAIN queue' : i + 1 \in DOMAIN queue /\ queue'[i] = queue[i + 1]
  BY <1>1, <1>2
<1>5. \A i \in DOMAIN queue : i # 1 => i - 1 \in DOMAIN queue' /\ queue'[i - 1] = queue[i]
  BY <1>1, <1>2
<1> HIDE DEF r
<1>6. /\ hand' \in Hands(Actors) /\ hand' # NULL /\ hand'.actor = r.actor /\ hand'.url = r.url
      /\ hand'.left = 3
  <2>1. Found(r.url) \in BOOLEAN
    BY DEF Found, LocalIcon
  <2>2. hand' \in Hands(Actors)
    BY <1>1, <1>3, <2>1 DEF Hands, MaxTries
  <2> QED
    BY <1>1, <1>2, <2>2, NullIsNone DEF MaxTries
<1>7. TypeOK'
  <2>1. Actors' = Actors /\ Live' = Live
    BY <1>1 DEF Actors, Live
  <2> QED
    BY <1>1, <1>4, <1>6, <2>1 DEF TypeOK, Requests, MaxTries
<1>8. ViewFits'
  BY <1>1 DEF ViewFits
<1>9. TasksInv'
  <2> SUFFICES ASSUME NEW icon \in view
               PROVE  /\ \A i \in DOMAIN queue' :
                            queue'[i].actor = icon.actor => queue'[i].url = SmallPic1(icon.app)
                      /\ r.actor = icon.actor => r.url = SmallPic1(icon.app)
    BY <1>1, <1>6 DEF TasksInv, SmallPic1
  <2>1. \A i \in DOMAIN queue : queue[i].actor = icon.actor => queue[i].url = SmallPic1(icon.app)
    BY DEF TasksInv
  <2> QED
    BY <1>3, <1>4, <2>1 DEF r
<1>10. PageInv'
  <2> SUFFICES ASSUME page # NULL, ~excused, Settles(page) PROVE Settles(page)'
    BY <1>1 DEF PageInv, PicCount
  <2>1. Wanted(page.app, page.current)' = Wanted(page.app, page.current)
    BY <1>1 DEF Wanted, PreviewPic, SmallPic1
  <2>2. \A i \in DOMAIN queue : queue[i].actor = page.actor => queue[i].url = Wanted(page.app, page.current)
    BY DEF Settles
  <2>3. \A i \in DOMAIN queue' : queue'[i].actor = page.actor => queue'[i].url = Wanted(page.app, page.current)
    BY <1>4, <2>2
  <2>4. r.actor = page.actor => r.url = Wanted(page.app, page.current)
    BY <1>3, <2>2 DEF r
  <2>5. Asked(page.actor) => Asked(page.actor)' \/ r.actor = page.actor
    BY <1>1, <1>5 DEF Asked, r
  <2>6. shown[page.actor] # Wanted(page.app, page.current) => Asked(page.actor)
    BY <1>1 DEF Settles, Pending
  <2> QED
    BY <1>1, <1>6, <2>1, <2>3, <2>4, <2>5, <2>6 DEF Settles, Pending
<1>11. FoundInv'
  BY <1>1 DEF FoundInv, At
<1> QED
  BY <1>7, <1>8, <1>9, <1>10, <1>11

\* An actor that is called back shows the picture, unless the actor is gone or the
\* picture has no file.
LEMMA CallbackShows ==
    ASSUME TypeOK, Callback
    PROVE  /\ shown' \in [Live -> Pics]
           /\ \A a \in Live : shown'[a] = shown[a] \/ (a = hand.actor /\ shown'[a] = hand.url)
           /\ hand.actor \in Live /\ hand.found /\ Drawable(hand.url)
                 => shown'[hand.actor] = hand.url
<1>1. hand # NULL /\ hand.url \in Urls /\ hand.actor \in Actors
  BY OnTheirWay DEF Callback, At
<1>2. shown \in [Live -> Pics] /\ DOMAIN shown = Live
  BY DEF TypeOK, Pics
<1>3. hand.url \in Pics
  BY <1>1 DEF Pics
<1>4. hand.url # NULL /\ (Drawable(hand.url) => files[hand.url] # "none")
  BY <1>1, AppAssumption DEF Drawable
<1>5. CASE hand.found /\ hand.actor \in Live /\ Drawable(hand.url)
  <2>1. shown' = [shown EXCEPT ![hand.actor] = hand.url]
    BY <1>2, <1>4, <1>5 DEF Callback, SetPic, SetFilename, PixmapUri, Tasks
  <2> QED
    BY <1>2, <1>3, <1>5, <2>1
<1>6. CASE ~(hand.found /\ hand.actor \in Live /\ Drawable(hand.url))
  <2>1. shown' = shown
    <3>1. CASE ~hand.found \/ hand.actor \notin Live
      BY <1>2, <3>1 DEF Callback, SetPic, Tasks
    <3>2. CASE hand.found /\ hand.actor \in Live /\ ~Drawable(hand.url)
      <4>1. SetPic(Tasks(shown, queue), hand.actor, hand.url).shown
              = [shown EXCEPT ![hand.actor] = @]
        BY <1>2, <3>2 DEF SetPic, SetFilename, PixmapUri, Tasks
      <4> QED
        BY <1>2, <3>2, <4>1 DEF Callback
    <3> QED
      BY <1>6, <3>1, <3>2
  <2> QED
    BY <1>2, <1>6, <2>1
<1> QED
  BY <1>5, <1>6

LEMMA CallbackKeeps ==
    ASSUME TypeOK, ViewFits, FoundInv, TasksInv, PageInv, Callback
    PROVE  TypeOK' /\ ViewFits' /\ FoundInv' /\ TasksInv' /\ PageInv'
<1>1. /\ hand # NULL /\ hand' = NULL /\ hand.step = "callback"
      /\ UNCHANGED <<files, view, count, listed, page, made, queue, clicks>>
      /\ excused' = (excused \/ (/\ IsPage(hand.actor)
                                 /\ hand.url = Wanted(page.app, page.current)
                                 /\ ~Drawable(hand.url)))
      /\ ended' \in BOOLEAN
  BY DEF Callback, viewVars, At
<1>2. /\ shown' \in [Live -> Pics]
      /\ \A a \in Live : shown'[a] = shown[a] \/ (a = hand.actor /\ shown'[a] = hand.url)
      /\ hand.actor \in Live /\ hand.found /\ Drawable(hand.url)
            => shown'[hand.actor] = hand.url
  BY CallbackShows
<1>3. Actors' = Actors /\ Live' = Live
  BY <1>1 DEF Actors, Live
<1>4. TypeOK'
  <2>1. excused' \in BOOLEAN
    BY <1>1 DEF TypeOK, IsPage, Drawable
  <2> QED
    BY <1>1, <1>2, <1>3, <2>1 DEF TypeOK, Pics
<1>5. ViewFits'
  <2> SUFFICES ASSUME NEW icon \in view
               PROVE  shown'[icon.actor] \in {SmallPic1(icon.app), NULL}
    BY <1>1 DEF ViewFits, SmallPic1, Place
  <2>1. page = NULL /\ icon.actor \in Live
    BY DEF PageInv, Live, ActorsOf
  <2>2. shown[icon.actor] \in {SmallPic1(icon.app), NULL}
    BY DEF ViewFits
  <2>3. hand.actor = icon.actor => hand.url = SmallPic1(icon.app)
    BY <1>1 DEF TasksInv
  <2> QED
    BY <1>2, <2>1, <2>2, <2>3
<1>6. TasksInv'
  BY <1>1 DEF TasksInv, SmallPic1
<1>7. PageInv'
  <2> SUFFICES ASSUME page # NULL, ~excused' PROVE Settles(page)'
    BY <1>1 DEF PageInv, PicCount
  <2>1. Settles(page) /\ page.actor \in Live
    BY <1>1 DEF PageInv, Live
  <2>2. Wanted(page.app, page.current)' = Wanted(page.app, page.current) /\ Asked(page.actor)' = Asked(page.actor)
    BY <1>1 DEF Wanted, PreviewPic, SmallPic1, Asked
  <2>3. shown'[page.actor] # Wanted(page.app, page.current) => Asked(page.actor)
    <3>1. CASE hand.actor # page.actor
      BY <1>2, <2>1, <3>1 DEF Settles, Pending
    <3>2. CASE hand.actor = page.actor
      <4>1. CASE hand.url # Wanted(page.app, page.current)
        BY <1>1, <2>1, <3>2, <4>1 DEF Settles
      <4>2. CASE hand.url = Wanted(page.app, page.current)
        <5>1. Drawable(hand.url)
          BY <1>1, <3>2, <4>2 DEF IsPage
        <5>2. hand.found
          BY <1>1, <5>1 DEF FoundInv, At, Drawable
        <5> QED
          BY <1>2, <2>1, <3>2, <4>2, <5>1, <5>2
      <4> QED
        BY <4>1, <4>2
    <3> QED
      BY <3>1, <3>2
  <2> QED
    BY <1>1, <2>1, <2>2, <2>3 DEF Settles, Pending
<1>8. FoundInv'
  BY <1>1 DEF FoundInv, At
<1> QED
  BY <1>4, <1>5, <1>6, <1>7, <1>8

\* A step of the worker keeps the invariant.
LEMMA WorkerKeepsAll == ASSUME PicInv, Worker PROVE PicInv'
<1>1. FilesInv'
  BY WorkerKeeps DEF PicInv
<1>2. CASE WorkerTakes
  BY <1>1, <1>2, WorkerTakesKeeps DEF PicInv
<1>3. CASE AskFails
  <2>1. /\ hand # NULL /\ hand.step = "ask" /\ hand' = OneTryLess(hand)
        /\ hand \in Hands(Actors) /\ hand.left \in 1 .. 3 /\ hand.url \in Urls
    BY <1>3, OnTheirWay DEF AskFails, At, PicInv, TypeOK, MaxTries
  <2>2. /\ hand' \in Hands(Actors) /\ hand'.actor = hand.actor /\ hand'.url = hand.url
        /\ hand'.left \in 1 .. MaxTries /\ hand'.step \in {"ask", "callback"}
    BY <2>1 DEF OneTryLess, Hands, MaxTries
  <2>3. files[hand.url] = "none" /\ files' = files
    BY <1>3, <2>1 DEF AskFails, PicInv, FilesInv, At
  <2>4. FoundInv'
    BY <2>2, <2>3 DEF FoundInv, At
  <2> QED
    BY <1>1, <1>3, <2>1, <2>2, <2>4, GoesOnKeeps DEF AskFails, PicInv, TypeOK
<1>4. CASE AskSucceeds
  <2>1. hand # NULL /\ hand \in Hands(Actors) /\ hand.left \in 1 .. MaxTries
    BY <1>4 DEF AskSucceeds, At, PicInv, TypeOK
  <2>2. /\ hand' \in Hands(Actors) /\ hand'.actor = hand.actor /\ hand'.url = hand.url
        /\ hand'.left \in 1 .. MaxTries /\ hand'.found = TRUE
    BY <1>4, <2>1 DEF AskSucceeds, Hands
  <2>3. FoundInv'
    BY <2>2 DEF FoundInv, At
  <2>4. files' \in [Urls -> FileStates]
    BY <1>1 DEF FilesInv
  <2> QED
    BY <1>1, <1>4, <2>1, <2>2, <2>3, <2>4, GoesOnKeeps DEF AskSucceeds, PicInv
<1>5. CASE Write
  <2>1. hand # NULL /\ hand \in Hands(Actors) /\ hand.left \in 1 .. MaxTries /\ hand.url \in Urls
    BY <1>5, OnTheirWay DEF Write, At, PicInv, TypeOK
  <2>2. /\ hand' \in Hands(Actors) /\ hand'.actor = hand.actor /\ hand'.url = hand.url
        /\ hand'.left \in 1 .. MaxTries
    BY <1>5, <2>1 DEF Write, Hands
  <2>3. FoundInv'
    BY <1>5, <2>1, <2>2 DEF Write, At, FoundInv, PicInv, Hands
  <2>4. files' \in [Urls -> FileStates]
    BY <1>1 DEF FilesInv
  <2> QED
    BY <1>1, <1>5, <2>1, <2>2, <2>3, <2>4, GoesOnKeeps DEF Write, PicInv
<1>6. CASE Callback
  BY <1>1, <1>6, CallbackKeeps DEF PicInv
<1>7. CASE AskRedirected \/ FollowRedirect
  <2>1. /\ hand # NULL /\ hand \in Hands(Actors) /\ hand.left \in 1 .. MaxTries
        /\ files \in [Urls -> FileStates]
    BY <1>7 DEF AskRedirected, FollowRedirect, At, PicInv, TypeOK
  <2>2. /\ hand' \in Hands(Actors) /\ hand'.actor = hand.actor /\ hand'.url = hand.url
        /\ hand'.left \in 1 .. MaxTries /\ hand'.step \in {"ask", "moved"} /\ files' = files
    BY <1>7, <2>1 DEF AskRedirected, FollowRedirect, Hands
  <2>3. FoundInv'
    BY <2>2 DEF FoundInv, At
  <2> QED
    BY <1>1, <1>7, <2>1, <2>2, <2>3, GoesOnKeeps DEF AskRedirected, FollowRedirect, PicInv
<1> QED
  BY <1>2, <1>3, <1>4, <1>5, <1>6, <1>7 DEF Worker

-----------------------------------------------------------------------------
LEMMA InitKeeps == Init => PicInv
<1> SUFFICES ASSUME Init PROVE PicInv
  OBVIOUS
<1>1. /\ files = [u \in Urls |-> "none"] /\ view = {} /\ count = 0 /\ listed = {}
      /\ page = NULL /\ shown = << >> /\ made = 0 /\ queue = <<>> /\ hand = NULL
      /\ ended = FALSE /\ clicks = 0 /\ excused = FALSE
  BY DEF Init, NewView
<1>2. shown \in [Live -> Urls \cup {NULL}]
  BY <1>1 DEF Live, ActorsOf
<1>3. TypeOK
  <2>1. 0 \in 0 .. MaxClicks
    BY BoundAssumption
  <2>2. <<>> \in Seq([actor : Actors, url : Urls])
    OBVIOUS
  <2>3. files \in [Urls -> FileStates]
    BY <1>1 DEF FileStates
  <2> QED
    BY <1>1, <1>2, <2>1, <2>2, <2>3 DEF TypeOK
<1>4. ViewFits
  <2>1. {Place(icon) : icon \in view} = {} /\ 0 .. count - 1 = {}
    BY <1>1
  <2> QED
    BY <1>1, <2>1 DEF ViewFits
<1>5. FilesInv
  BY <1>1, <1>3 DEF TypeOK, FilesInv, At
<1> QED
  BY <1>1, <1>3, <1>4, <1>5 DEF PicInv, FoundInv, TasksInv, PageInv, At

LEMMA UnchangedKeeps == ASSUME PicInv, UNCHANGED vars PROVE PicInv'
<1>1. UNCHANGED <<files, view, count, listed, page, shown, made, queue, hand, ended, clicks,
                  excused>>
  BY DEF vars, viewVars, workVars
<1>2. TypeOK'
  BY <1>1 DEF PicInv, TypeOK, Actors, Live, ActorsOf
<1>3. ViewFits' /\ TasksInv'
  BY <1>1 DEF PicInv, ViewFits, TasksInv, SmallPic1, Place
<1>4. FilesInv' /\ FoundInv'
  BY <1>1, SameHand DEF PicInv
<1>5. PageInv'
  BY <1>1 DEF PicInv, PageInv, Settles, Wanted, PreviewPic, SmallPic1, PicCount, Asked, Pending
<1> QED
  BY <1>2, <1>3, <1>4, <1>5 DEF PicInv

\* For any instance, the invariant is one.
THEOREM PicturesInvariant == Spec => []PicInv
<1>1. PicInv /\ [Next]_vars => PicInv'
  BY UserKeeps, WorkerKeepsAll, UnchangedKeeps DEF Next
<1> QED
  BY <1>1, InitKeeps, PTL DEF Spec

\* For any instance: every variable is of its type.
THEOREM TypeCorrect == Spec => []TypeOK
<1>1. PicInv => TypeOK
  BY DEF PicInv
<1> QED
  BY <1>1, PicturesInvariant, PTL

\* For any instance: the frame shows the icons of its last results and no others,
\* each in a place of its own and with its own picture or none, whichever
\* downloads were on their way when the results changed.
THEOREM ViewAlwaysFits == Spec => []ViewFits
<1>1. PicInv => ViewFits
  BY DEF PicInv
<1> QED
  BY <1>1, PicturesInvariant, PTL

\* For any instance: an info page that nothing is on its way to shows the picture
\* its buttons say it is at, unless this could not be had or drawn, or was
\* overtaken.
THEOREM AlwaysSettlesOnCurrent == Spec => []SettledOnCurrent
<1>1. PicInv => SettledOnCurrent
  BY DEF PicInv, PageInv, Settles, Wanted, SettledOnCurrent
<1> QED
  BY <1>1, PicturesInvariant, PTL
=============================================================================
