----------------------------- MODULE PagesProofs -----------------------------
(***************************************************************************)
(* Proofs about the stage and its pages, for any number of categories,      *)
(* applications and clicks.                                                 *)
(*                                                                         *)
(* First the effect of every action is put into a formula that says what it *)
(* changes by properties of pages, tasks and queue, not by how it computes   *)
(* it (Turns, Starts, Posts, MakesFrame, ..., LetsGo); each is shown of its *)
(* action together with TypeOK' (StepsAre).  Every invariant is then proved *)
(* of these formulas:                                                       *)
(*   Base      types, and what stage, pages, loads and references agree on  *)
(*   LockInv   a page with requests that are not answered is locked, live,  *)
(*             and has but one of them                                      *)
(*   FanInv    page, table and server agree on the user's being a fan       *)
(*   ArrowInv  a frame's task is the one its results come from              *)
(*   CameInv   the way back from an info page leads to what was left        *)
(***************************************************************************)
EXTENDS Pages, FiniteSetTheorems, FunctionTheorems, TLAPS

One(b) == IF b THEN 1 ELSE 0
Occurs(q, t) == Cardinality({i \in 1 .. Len(q) : q[i] = t})

LEMMA SetAt ==
    ASSUME NEW S, NEW s \in Seq(S), NEW i \in 1 .. Len(s), NEW e \in S
    PROVE  LET r == [s EXCEPT ![i] = e] IN
           /\ r \in Seq(S) /\ Len(r) = Len(s)
           /\ r[i] = e /\ \A j \in 1 .. Len(s) : j # i => r[j] = s[j]
  OBVIOUS

LEMMA AddAt ==
    ASSUME NEW S, NEW s \in Seq(S), NEW e \in S
    PROVE  LET r == Append(s, e) IN
           /\ r \in Seq(S) /\ Len(r) = Len(s) + 1
           /\ r[Len(s) + 1] = e /\ \A j \in 1 .. Len(s) : r[j] = s[j]
  OBVIOUS

LEMMA WiderSeq ==
    ASSUME NEW S, NEW T, NEW s \in Seq(S), S \subseteq T
    PROVE  s \in Seq(T)
  OBVIOUS

LEMMA ConsAt ==
    ASSUME NEW S, NEW s \in Seq(S), NEW e \in S
    PROVE  LET r == <<e>> \o s IN
           /\ r \in Seq(S) /\ Len(r) = Len(s) + 1
           /\ r[1] = e /\ \A j \in 1 .. Len(s) : r[j + 1] = s[j]
           /\ r # <<>> /\ Head(r) = e /\ Tail(r) = s
  OBVIOUS

LEMMA TailAt ==
    ASSUME NEW S, NEW s \in Seq(S), s # <<>>
    PROVE  /\ Tail(s) \in Seq(S) /\ Len(s) = Len(Tail(s)) + 1
           /\ Head(s) \in S /\ Head(s) = s[1] /\ \A j \in 1 .. Len(Tail(s)) : Tail(s)[j] = s[j + 1]
  OBVIOUS

LEMMA OccursNat ==
    ASSUME NEW S, NEW q \in Seq(S), NEW t
    PROVE  /\ Occurs(q, t) \in Nat
           /\ \A i \in 1 .. Len(q) : q[i] = t => Occurs(q, t) > 0
<1> DEFINE I == {i \in 1 .. Len(q) : q[i] = t}
<1>1. IsFiniteSet(I)
  <2>1. IsFiniteSet(1 .. Len(q)) BY FS_Interval
  <2> QED BY <2>1, FS_Subset
<1>2. Cardinality(I) \in Nat /\ (Cardinality(I) = 0 <=> I = {})
  BY <1>1, FS_CardinalityType, FS_EmptySet
<1>3. \A i \in 1 .. Len(q) : q[i] = t => i \in I OBVIOUS
<1>4. Occurs(q, t) = Cardinality(I) BY DEF Occurs
<1> QED
  <2> HIDE DEF I
  <2> QED BY <1>2, <1>3, <1>4

LEMMA OccursShift ==
    ASSUME NEW S, NEW q \in Seq(S), NEW r \in Seq(S), NEW t,
           Len(r) = Len(q) + 1, \A j \in 1 .. Len(q) : r[j + 1] = q[j]
    PROVE  Occurs(r, t) = Occurs(q, t) + One(r[1] = t)
<1> DEFINE I == {i \in 1 .. Len(q) : q[i] = t}
           J == {i \in 1 .. Len(r) : r[i] = t /\ i # 1}
           K == {i \in 1 .. Len(r) : r[i] = t}
           f == [i \in I |-> i + 1]
<1>1. IsFiniteSet(I) /\ IsFiniteSet(J)
  <2>1. IsFiniteSet(1 .. Len(q)) /\ IsFiniteSet(1 .. Len(r)) BY FS_Interval
  <2> QED BY <2>1, FS_Subset
<1>2. ExistsBijection(I, J)
  <2>1. f \in [I -> J] OBVIOUS
  <2>2. \A a, b \in I : f[a] = f[b] => a = b OBVIOUS
  <2>3. \A j \in J : \E i \in I : f[i] = j
    <3> TAKE j \in J
    <3>1. j - 1 \in 1 .. Len(q) OBVIOUS
    <3>2. r[(j - 1) + 1] = q[j - 1] /\ (j - 1) + 1 = j BY <3>1
    <3>3. j - 1 \in I BY <3>1, <3>2
    <3> QED BY <3>2, <3>3
  <2> HIDE DEF f, I, J
  <2>4. f \in Injection(I, J) BY <2>1, <2>2, Fun_IsInj
  <2>5. f \in Surjection(I, J) BY <2>1, <2>3, Fun_IsSurj
  <2>6. f \in Bijection(I, J) BY <2>4, <2>5, Fun_IsBij
  <2> QED BY <2>6 DEF ExistsBijection
<1>3. Cardinality(I) = Cardinality(J)
  BY <1>1, <1>2, FS_Bijection
<1>4. CASE r[1] = t
  <2>1. K = J \cup {1} BY <1>4
  <2>2. Occurs(q, t) = Cardinality(I) /\ Occurs(r, t) = Cardinality(K) BY DEF Occurs
  <2>3. Cardinality(J \cup {1}) = Cardinality(J) + 1
    <3>1. 1 \notin J OBVIOUS
    <3> HIDE DEF J
    <3> QED BY <3>1, <1>1, FS_AddElement
  <2> HIDE DEF I, J, K
  <2>4. Cardinality(J) \in Nat BY <1>1, FS_CardinalityType
  <2> HIDE DEF I, J, K
  <2> QED BY <2>1, <2>3, <2>2, <1>3, <1>4 DEF One
<1>5. CASE r[1] # t
  <2>1. K = J BY <1>5
  <2>2. Cardinality(I) \in Nat BY <1>1, FS_CardinalityType
  <2>3. Occurs(q, t) = Cardinality(I) /\ Occurs(r, t) = Cardinality(K) BY DEF Occurs
  <2> HIDE DEF I, J, K
  <2> QED BY <2>1, <2>2, <2>3, <1>3, <1>5 DEF One
<1> QED BY <1>4, <1>5

LEMMA OccursCons ==
    ASSUME NEW S, NEW q \in Seq(S), NEW e \in S
    PROVE  \A t : Occurs(<<e>> \o q, t) = Occurs(q, t) + One(e = t)
<1> TAKE t
<1> DEFINE r == <<e>> \o q
<1>1. r \in Seq(S) /\ Len(r) = Len(q) + 1 /\ r[1] = e /\ \A j \in 1 .. Len(q) : r[j + 1] = q[j]
  BY ConsAt
<1> HIDE DEF r
<1>2. Occurs(r, t) = Occurs(q, t) + One(r[1] = t) BY <1>1, OccursShift
<1> QED BY <1>1, <1>2 DEF r

LEMMA OccursTail ==
    ASSUME NEW S, NEW q \in Seq(S), q # <<>>
    PROVE  \A t : Occurs(q, t) = Occurs(Tail(q), t) + One(Head(q) = t)
<1> TAKE t
<1>1. Tail(q) \in Seq(S) /\ Len(q) = Len(Tail(q)) + 1 /\ Head(q) = q[1]
      /\ \A j \in 1 .. Len(Tail(q)) : Tail(q)[j] = q[j + 1]
  BY TailAt
<1> DEFINE r == Tail(q)
<1> HIDE DEF r
<1>2. r \in Seq(S) /\ Len(q) = Len(r) + 1 /\ \A j \in 1 .. Len(r) : q[j + 1] = r[j]
  BY <1>1 DEF r
<1>3. Occurs(q, t) = Occurs(r, t) + One(q[1] = t) BY <1>2, OccursShift
<1> QED BY <1>1, <1>3 DEF r
-----------------------------------------------------------------------------
(***************************************************************************)
(* The types, by the number of tasks or pages they are about.               *)
(***************************************************************************)

PageObjs(n) ==
    [type : Types, lock : BOOLEAN, task : 1 .. n \cup {NULL}, list : Lists \cup {NULL},
     prev : BOOLEAN, next : BOOLEAN, login : BOOLEAN, fan : FanStatus]

TaskObjs(n) ==
    [kind : {"list"}, page : 1 .. n, request : Lists, refs : Nat] \cup
    [kind : {"fan"}, page : 1 .. n, request : {"add", "remove"}, refs : Nat] \cup
    [kind : {"check", "register", "status"}, page : 1 .. n \cup {Stage}, request : {NULL},
     refs : Nat]

LEMMA MorePages ==
    ASSUME NEW m \in Nat, NEW n \in Nat, m <= n
    PROVE  PageObjs(m) \subseteq PageObjs(n) /\ TaskObjs(m) \subseteq TaskObjs(n)
<1>1. 1 .. m \subseteq 1 .. n OBVIOUS
<1>2. PageObjs(m) \subseteq PageObjs(n) BY <1>1 DEF PageObjs
<1>3. TaskObjs(m) \subseteq TaskObjs(n) BY <1>1 DEF TaskObjs
<1> QED BY <1>2, <1>3

\* What is known of a task.
LEMMA TaskFacts ==
    ASSUME NEW n \in Nat, NEW t \in TaskObjs(n)
    PROVE  /\ t.kind \in {"list", "fan", "check", "register", "status"}
           /\ t.refs \in Nat /\ t.page \in 1 .. n \cup {Stage}
           /\ t.kind = "list" => t.page \in 1 .. n /\ t.request \in Lists
           /\ t.kind = "fan" => t.page \in 1 .. n /\ t.request \in {"add", "remove"}
           /\ t.kind \notin {"list", "fan"} => t.request = NULL
           /\ \A r \in Nat : /\ [t EXCEPT !.refs = r] \in TaskObjs(n)
                             /\ [t EXCEPT !.refs = r].refs = r
                             /\ [t EXCEPT !.refs = r].kind = t.kind
                             /\ [t EXCEPT !.refs = r].page = t.page
                             /\ [t EXCEPT !.refs = r].request = t.request
<1>1. CASE t \in [kind : {"list"}, page : 1 .. n, request : Lists, refs : Nat]
  BY <1>1 DEF TaskObjs
<1>2. CASE t \in [kind : {"fan"}, page : 1 .. n, request : {"add", "remove"}, refs : Nat]
  BY <1>2 DEF TaskObjs
<1>3. CASE t \in [kind : {"check", "register", "status"}, page : 1 .. n \cup {Stage},
                  request : {NULL}, refs : Nat]
  BY <1>3 DEF TaskObjs
<1> QED BY <1>1, <1>2, <1>3 DEF TaskObjs

\* A list task is of one of the three kinds of objects by what it asks.
LEMMA TaskMade ==
    ASSUME NEW n \in Nat, NEW kind, NEW p, NEW request, NEW r \in Nat,
           \/ kind = "list" /\ p \in 1 .. n /\ request \in Lists
           \/ kind = "fan" /\ p \in 1 .. n /\ request \in {"add", "remove"}
           \/ kind \in {"check", "register", "status"} /\ p \in 1 .. n \cup {Stage} /\ request = NULL
    PROVE  NewTask(kind, p, request, r) \in TaskObjs(n)
  BY DEF NewTask, TaskObjs

\* What is known of a page.
LEMMA PageFacts ==
    ASSUME NEW n \in Nat, NEW f \in PageObjs(n)
    PROVE  /\ f.type \in Types /\ f.lock \in BOOLEAN /\ f.task \in 1 .. n \cup {NULL}
           /\ f.list \in Lists \cup {NULL} /\ f.prev \in BOOLEAN /\ f.next \in BOOLEAN
           /\ f.fan \in FanStatus
  BY DEF PageObjs

\* A page that differs from f in these fields only.
Like(g, f, lock, task, list, prev, next, fan) ==
    /\ g.type = f.type /\ g.login = f.login
    /\ g.lock = lock /\ g.task = task /\ g.list = list
    /\ g.prev = prev /\ g.next = next /\ g.fan = fan

\* The stores into one field of a page.
LEMMA PageStores ==
    ASSUME NEW n \in Nat, NEW f \in PageObjs(n)
    PROVE  /\ \A b \in BOOLEAN : LET g == [f EXCEPT !.lock = b] IN
                 /\ g \in PageObjs(n)
                 /\ Like(g, f, b, f.task, f.list, f.prev, f.next, f.fan)
           /\ \A t \in 1 .. n : LET g == [f EXCEPT !.task = t] IN
                 /\ g \in PageObjs(n)
                 /\ Like(g, f, f.lock, t, f.list, f.prev, f.next, f.fan)
           /\ \A s \in FanStatus : LET g == [f EXCEPT !.fan = s] IN
                 /\ g \in PageObjs(n)
                 /\ Like(g, f, f.lock, f.task, f.list, f.prev, f.next, s)
  BY DEF PageObjs, Like

\* The results of request, for a frame whose task asks for page.
Loaded(g, f, request, page, answer) ==
    /\ g.type = f.type /\ g.login = f.login /\ g.fan = f.fan
    /\ g.lock = f.lock /\ g.task = f.task
    /\ answer = "lost" => g.list = f.list /\ g.prev = f.prev /\ g.next = f.next
    /\ answer = "ok" /\ Total[request.query] > 0 =>
          /\ g.list = request /\ g.prev = (page > 0)
          /\ g.next = NextShown(page, Total[request.query])
    /\ answer # "lost" /\ ~(answer = "ok" /\ Total[request.query] > 0) =>
          g.list = f.list /\ ~g.prev /\ ~g.next

LEMMA LoadResultsOf ==
    ASSUME NEW n \in Nat, NEW f \in PageObjs(n), NEW request \in Lists, NEW page \in Int,
           NEW answer \in Answers
    PROVE  LET g == LoadResults(f, request, page, answer) IN
           g \in PageObjs(n) /\ Loaded(g, f, request, page, answer)
<1> DEFINE total == Total[request.query]
           u == [f EXCEPT !.list = request, !.prev = page > 0, !.next = NextShown(page, total)]
           v == [f EXCEPT !.prev = FALSE, !.next = FALSE]
<1>1. (page > 0) \in BOOLEAN /\ NextShown(page, total) \in BOOLEAN
  BY DEF NextShown
<1>2. u \in PageObjs(n) /\ Like(u, f, f.lock, f.task, request, page > 0, NextShown(page, total), f.fan)
  <2> HIDE DEF total
  <2> QED BY <1>1 DEF PageObjs, Like
<1>3. v \in PageObjs(n) /\ Like(v, f, f.lock, f.task, f.list, FALSE, FALSE, f.fan)
  BY DEF PageObjs, Like
<1>4. LoadResults(f, request, page, answer) =
         CASE answer = "lost" -> f
           [] answer = "ok" /\ total > 0 -> u
           [] OTHER -> v
  BY DEF LoadResults
<1> HIDE DEF u, v
<1>5. CASE answer = "lost"
  BY <1>4, <1>5 DEF Loaded, Answers
<1>6. CASE answer = "ok" /\ total > 0
  BY <1>2, <1>4, <1>6 DEF Loaded, Like
<1>7. CASE answer # "lost" /\ ~(answer = "ok" /\ total > 0)
  BY <1>3, <1>4, <1>7 DEF Loaded, Like
<1> QED BY <1>5, <1>6, <1>7

\* The frame f with the task t, which asks for request.
Asked(g, f, t, request, page) ==
    /\ g.type = f.type /\ g.task = t /\ g.fan = f.fan
    /\ request \notin stored =>
          g.lock /\ g.list = f.list /\ g.prev = f.prev /\ g.next = f.next
    /\ request \in stored => g.lock = f.lock
    /\ request \in stored /\ Total[request.query] > 0 =>
          /\ g.list = request /\ g.prev = (page > 0)
          /\ g.next = NextShown(page, Total[request.query])
    /\ request \in stored /\ ~(Total[request.query] > 0) =>
          g.list = f.list /\ ~g.prev /\ ~g.next

LEMMA FrameAsksOf ==
    ASSUME NEW n \in Nat, NEW f \in PageObjs(n), NEW t \in 1 .. n, NEW request \in Lists,
           NEW page \in Int
    PROVE  LET g == FrameAsks([f EXCEPT !.task = t], request, page) IN
           g \in PageObjs(n) /\ Asked(g, f, t, request, page)
<1> DEFINE h == [f EXCEPT !.task = t]
<1>1. h \in PageObjs(n) /\ Like(h, f, f.lock, t, f.list, f.prev, f.next, f.fan)
  BY PageStores
<1> HIDE DEF h
<1>2. CASE request \in stored
  <2> DEFINE g == LoadResults(h, request, page, "ok")
  <2>1. g \in PageObjs(n) /\ Loaded(g, h, request, page, "ok")
    BY <1>1, LoadResultsOf DEF Answers
  <2>2. FrameAsks(h, request, page) = g
    BY <1>2 DEF FrameAsks
  <2> HIDE DEF g
  <2> QED BY <1>1, <1>2, <2>1, <2>2 DEF Loaded, Like, Asked, h
<1>3. CASE request \notin stored
  <2> DEFINE g == [h EXCEPT !.lock = TRUE]
  <2>1. g \in PageObjs(n) /\ Like(g, h, TRUE, h.task, h.list, h.prev, h.next, h.fan)
    BY <1>1, PageStores
  <2>2. FrameAsks(h, request, page) = g
    BY <1>3 DEF FrameAsks
  <2> HIDE DEF g
  <2> QED BY <1>1, <1>3, <2>1, <2>2 DEF Like, Asked, h
<1> QED BY <1>2, <1>3

-----------------------------------------------------------------------------
(***************************************************************************)
(* The invariant of pages, tasks and references.                            *)
(***************************************************************************)

Pg(t) == tasks[t].page
Made == Len(pages)
Loading == load # NULL /\ load.step # "new"

\* How often the task is in the queue or in hand.
Due(t) == Occurs(queue, t) + One(running = t)

\* The worker has a task between taking it and letting it go, and a result
\* after the call.
StageInv ==
    /\ stage = "idle" <=> running = NULL
    /\ stage \in {"callback", "unlock"} <=> result # NULL

\* A frame has a task that asks for a list, and a task calls back a page of the
\* kind that asks for this.
KindInv ==
    /\ \A p \in PageIds : pages[p].type = "Frame" =>
          pages[p].task \in TaskIds /\ tasks[pages[p].task].kind = "list"
    /\ table # NULL => tasks[table].kind = "list"
    /\ \A t \in TaskIds :
          /\ tasks[t].kind = "list" => pages[Pg(t)].type = "Frame"
          /\ tasks[t].kind \in {"status", "fan"} =>
                Pg(t) \in PageIds /\ pages[Pg(t)].type = "InfoPage"
          /\ tasks[t].kind = "check" => Pg(t) = Stage \/ pages[Pg(t)].type = "Login"
          /\ tasks[t].kind = "register" => Pg(t) \in PageIds /\ pages[Pg(t)].type = "Register"

\* The page that is made is the newest, and not yet the one shown; a page that
\* was protected when the load began is so no more, and vice versa.
LoadInv ==
    /\ history \notin freed
    /\ Loading => /\ Made > 0 /\ history # Made /\ Made \notin freed
                  /\ pages[Made].type = load.type
    /\ load # NULL =>
          /\ ~Protected
          /\ load.type = "Frame" /\ load.mode = "DEFAULT" => Shows("InfoPage")
          /\ load.type = "InfoPage" => Shows("Frame")

\* The callback of a success finds the answer at the proxy.
AnswerInv ==
    stage = "callback" /\ result = "ok" =>
        /\ Kind = "status" => status # NULL
        /\ Kind = "list" => Request(running) \in stored

\* No frame is shown, or made to be shown, to share the reference of the table.
Spare == ~Shows("Frame") /\ ~(load # NULL /\ load.type = "Frame" /\ load.step = "show")

\* Each of those that keep a task has a reference to it of its own: the queue
\* and the worker, the table (two, that of the frame it was saved from
\* included), the frame that is shown and the one that is made.
Refs(t) ==
    Due(t) + One(table = t) + One(table = t /\ Spare)
           + One(Shows("Frame") /\ pages[history].task = t)
           + One(Loading /\ load.type = "Frame" /\ pages[Made].task = t)

RefInv == \A t \in TaskIds : tasks[t].refs >= Refs(t)

Base == TypeOK /\ StageInv /\ KindInv /\ LoadInv /\ AnswerInv /\ RefInv

-----------------------------------------------------------------------------
(***************************************************************************)
(* What the types say of each page, task and place in the queue.            *)
(***************************************************************************)

Small ==
    /\ freed \subseteq PageIds /\ history \in PageIds \cup {NULL}
    /\ table \in TaskIds \cup {NULL}
    /\ load \in Loads \cup {NULL}
    /\ running \in TaskIds \cup {NULL}
    /\ stage \in {"idle", "func", "callback", "unlock"}
    /\ result \in Answers \cup {NULL}
    /\ stored \subseteq Lists /\ status \in {NULL, "IS_FAN", "NOT_FAN"}
    /\ isFan \in BOOLEAN \cup {NULL} /\ user \in BOOLEAN
    /\ clicks \in 0 .. MaxClicks
    /\ trouble \subseteq {"lost", "refused", "search"}
    /\ came \in [list : Lists, request : Lists] \cup {NULL}
    /\ crashed \in BOOLEAN

LEMMA TypeSplit ==
    TypeOK <=> /\ pages \in Seq(PageObjs(Len(tasks))) /\ tasks \in Seq(TaskObjs(Len(pages)))
               /\ queue \in Seq(TaskIds) /\ Small
  BY DEF TypeOK, Small, PageObjects, TaskObjects, PageObjs, TaskObjs, PageIds, TaskIds

LEMMA TypeSplitNext ==
    TypeOK' <=> /\ pages' \in Seq(PageObjs(Len(tasks'))) /\ tasks' \in Seq(TaskObjs(Len(pages')))
                /\ queue' \in Seq(TaskIds') /\ Small'
  BY DEF TypeOK, Small, PageObjects, TaskObjects, PageObjs, TaskObjs, PageIds, TaskIds

\* Numbers of pages and tasks, and what each one is.
Numbers ==
    /\ Len(pages) \in Nat /\ Len(tasks) \in Nat /\ Id = Len(tasks) + 1
    /\ NULL \notin PageIds /\ NULL \notin TaskIds
    /\ \A p \in PageIds : /\ pages[p] \in PageObjs(Len(tasks)) /\ p \in Nat \ {0}
    /\ \A t \in TaskIds : /\ tasks[t] \in TaskObjs(Len(pages)) /\ t \in Nat \ {0}
    /\ \A t \in TaskIds : Occurs(queue, t) \in Nat
    /\ \A t : Occurs(queue, t) # 0 => t \in TaskIds

LEMMA OccursWhere ==
    ASSUME NEW S, NEW q \in Seq(S), NEW t
    PROVE  Occurs(q, t) \in Nat /\ (t \notin S => Occurs(q, t) = 0)
<1>1. CASE t \in S
  BY <1>1, OccursNat
<1>2. CASE t \notin S
  <2>1. \A i \in 1 .. Len(q) : q[i] # t BY <1>2
  <2>2. {i \in 1 .. Len(q) : q[i] = t} = {} BY <2>1
  <2>3. Cardinality({}) = 0 BY FS_EmptySet
  <2> QED BY <1>2, <2>2, <2>3 DEF Occurs
<1> QED BY <1>1, <1>2

LEMMA TypeNumbers ==
    ASSUME TypeOK
    PROVE  Numbers
<1>1. /\ pages \in Seq(PageObjs(Len(tasks))) /\ tasks \in Seq(TaskObjs(Len(pages)))
      /\ queue \in Seq(TaskIds)
  BY TypeSplit
<1>2. Len(pages) \in Nat /\ Len(tasks) \in Nat
  BY <1>1
<1>3. \A t : Occurs(queue, t) \in Nat /\ (t \notin TaskIds => Occurs(queue, t) = 0)
  BY <1>1, OccursWhere
<1>4. NULL \notin PageIds /\ NULL \notin TaskIds
  BY <1>2, NullAssumption DEF PageIds, TaskIds
<1>5. /\ \A p \in PageIds : pages[p] \in PageObjs(Len(tasks)) /\ p \in Nat \ {0}
      /\ \A t \in TaskIds : tasks[t] \in TaskObjs(Len(pages)) /\ t \in Nat \ {0}
  BY <1>1, <1>2 DEF PageIds, TaskIds
<1> QED BY <1>2, <1>3, <1>4, <1>5 DEF Numbers, Id

-----------------------------------------------------------------------------
(***************************************************************************)
(* What each step does, page by page and task by task.                      *)
(***************************************************************************)

SameTask(t) == tasks'[t].kind = tasks[t].kind /\ tasks'[t].request = tasks[t].request
SamePlace(t) == SameTask(t) /\ tasks'[t].page = tasks[t].page
OthersSame(p) == Len(pages') = Len(pages) /\ \A q \in PageIds : q # p => pages'[q] = pages[q]

\* The task t is put before the others, at once or if its answer is missing.
Enqueues(t) ==
    queue' \in Seq(TaskIds') /\ \A u : Occurs(queue', u) = Occurs(queue, u) + One(t = u)
Pushes(t, request) == IF request \in stored THEN queue' = queue ELSE Enqueues(t)

LEMMA EnqueuedIs ==
    ASSUME queue \in Seq(TaskIds), TaskIds \subseteq TaskIds', NEW t \in TaskIds',
           queue' = Enqueued(t)
    PROVE  Enqueues(t)
<1>1. queue \in Seq(TaskIds')
  BY WiderSeq
<1>2. queue' = <<t>> \o queue
  BY DEF Enqueued
<1>3. queue' \in Seq(TaskIds')
  BY <1>1, <1>2, ConsAt
<1>4. \A u : Occurs(<<t>> \o queue, u) = Occurs(queue, u) + One(t = u)
  BY <1>1, OccursCons
<1> QED BY <1>2, <1>3, <1>4 DEF Enqueues

LEMMA QueuedIs ==
    ASSUME queue \in Seq(TaskIds), TaskIds \subseteq TaskIds', NEW t \in TaskIds',
           NEW request, queue' = Queued(t, request)
    PROVE  Pushes(t, request) /\ queue' \in Seq(TaskIds')
<1>1. CASE request \in stored
  BY <1>1, WiderSeq DEF Queued, Pushes
<1>2. CASE request \notin stored
  BY <1>2, EnqueuedIs DEF Queued, Pushes, Enqueues
<1> QED BY <1>1, <1>2

\* A new task is added, and refs of the others change by at most given to old.
AddsTask(new, old, given) ==
    /\ Len(tasks') = Id /\ tasks'[Id] = new
    /\ \A t \in TaskIds :
          SamePlace(t) /\ tasks'[t].refs = tasks[t].refs - (IF t = old THEN given ELSE 0)

\* The frame that is shown asks for request by a new task and keeps the task kept.
Turns(request, page, kept, given, refs) ==
    /\ load = NULL /\ Shows("Frame") /\ ~pages[history].lock
    /\ request \in Lists
    /\ OthersSame(history)
    /\ Asked(pages'[history], pages[history], kept, request, page)
    /\ AddsTask(NewTask("list", history, request, refs), pages[history].task, given)
    /\ Pushes(Id, request)
    /\ UNCHANGED <<freed, history, table, load, running, stage, result, serverVars, user,
                   came, crashed>>

LEMMA AddTask ==
    ASSUME tasks \in Seq(TaskObjs(Len(pages))), Len(pages) \in Nat,
           Len(pages') \in Nat, Len(pages) <= Len(pages'),
           NEW new \in TaskObjs(Len(pages')), tasks' = Append(tasks, new)
    PROVE  /\ tasks' \in Seq(TaskObjs(Len(pages'))) /\ AddsTask(new, NULL, 0)
           /\ TaskIds \subseteq TaskIds' /\ Id \in TaskIds' /\ Len(tasks) \in Nat
           /\ \A t \in TaskIds : tasks'[t] = tasks[t]
<1>1. tasks \in Seq(TaskObjs(Len(pages')))
  BY MorePages, WiderSeq
<1>2. /\ tasks' \in Seq(TaskObjs(Len(pages'))) /\ Len(tasks') = Len(tasks) + 1
      /\ tasks'[Len(tasks) + 1] = new
      /\ \A t \in 1 .. Len(tasks) : tasks'[t] = tasks[t]
  BY <1>1, AddAt
<1>3. Len(tasks) \in Nat OBVIOUS
<1>4. \A t \in TaskIds : tasks[t] \in TaskObjs(Len(pages))
  BY DEF TaskIds
<1>5. \A t \in TaskIds : tasks[t].refs \in Nat
  BY <1>4, TaskFacts
<1>6. TaskIds \subseteq TaskIds' /\ Id \in TaskIds'
  BY <1>2, <1>3 DEF TaskIds, Id
<1> QED BY <1>2, <1>3, <1>5, <1>6 DEF AddsTask, SameTask, SamePlace, TaskIds, Id

\* A reference is taken or given back.
LEMMA RefsStore ==
    ASSUME NEW n \in Nat, NEW s \in Seq(TaskObjs(n)), NEW t \in 1 .. Len(s), NEW r \in Nat
    PROVE  LET u == [s EXCEPT ![t].refs = r] IN
           /\ u \in Seq(TaskObjs(n)) /\ Len(u) = Len(s)
           /\ \A i \in 1 .. Len(s) :
                 /\ u[i].kind = s[i].kind /\ u[i].request = s[i].request
                 /\ u[i].page = s[i].page
                 /\ u[i].refs = IF i = t THEN r ELSE s[i].refs
<1> DEFINE e == [s[t] EXCEPT !.refs = r]
           u == [s EXCEPT ![t] = e]
<1>1. \A i \in 1 .. Len(s) : s[i] \in TaskObjs(n)
  OBVIOUS
<1>2. /\ e \in TaskObjs(n) /\ e.refs = r /\ e.kind = s[t].kind
      /\ e.request = s[t].request /\ e.page = s[t].page
  BY <1>1, TaskFacts
<1>3. [s EXCEPT ![t].refs = r] = u
  OBVIOUS
<1> HIDE DEF e
<1>4. /\ u \in Seq(TaskObjs(n)) /\ Len(u) = Len(s)
      /\ u[t] = e /\ \A j \in 1 .. Len(s) : j # t => u[j] = s[j]
  BY <1>2, SetAt
<1> QED BY <1>2, <1>3, <1>4

\* The reference of old is given back as well.
LEMMA AddTaskFor ==
    ASSUME tasks \in Seq(TaskObjs(Len(pages))), Len(pages) \in Nat, Len(pages') = Len(pages),
           NEW old \in TaskIds, tasks[old].refs > 0,
           NEW new \in TaskObjs(Len(pages)),
           tasks' = Append([tasks EXCEPT ![old].refs = @ - 1], new)
    PROVE  /\ tasks' \in Seq(TaskObjs(Len(pages'))) /\ AddsTask(new, old, 1)
           /\ TaskIds \subseteq TaskIds' /\ Id \in TaskIds' /\ Len(tasks) \in Nat
<1> DEFINE r == tasks[old].refs - 1
           u == [tasks EXCEPT ![old].refs = r]
<1>1. \A t \in TaskIds : tasks[t] \in TaskObjs(Len(pages))
  BY DEF TaskIds
<1>2. \A t \in TaskIds : tasks[t].refs \in Nat
  BY <1>1, TaskFacts
<1>3. r \in Nat
  BY <1>2
<1>4. /\ u \in Seq(TaskObjs(Len(pages))) /\ Len(u) = Len(tasks)
      /\ \A i \in 1 .. Len(tasks) :
            /\ u[i].kind = tasks[i].kind /\ u[i].request = tasks[i].request
            /\ u[i].page = tasks[i].page
            /\ u[i].refs = IF i = old THEN r ELSE tasks[i].refs
  <2>1. old \in 1 .. Len(tasks) BY DEF TaskIds
  <2> HIDE DEF r
  <2> QED BY <1>3, <2>1, RefsStore
<1>5. tasks' = Append(u, new)
  OBVIOUS
<1> HIDE DEF u
<1>6. /\ tasks' \in Seq(TaskObjs(Len(pages))) /\ Len(tasks') = Len(u) + 1
      /\ tasks'[Len(u) + 1] = new
      /\ \A t \in 1 .. Len(u) : tasks'[t] = u[t]
  <2>1. u \in Seq(TaskObjs(Len(pages))) BY <1>4
  <2>2. /\ Append(u, new) \in Seq(TaskObjs(Len(pages))) /\ Len(Append(u, new)) = Len(u) + 1
        /\ Append(u, new)[Len(u) + 1] = new
        /\ \A t \in 1 .. Len(u) : Append(u, new)[t] = u[t]
    BY <2>1, AddAt
  <2> QED BY <1>5, <2>2
<1>7. Len(tasks) \in Nat OBVIOUS
<1>8. TaskIds \subseteq TaskIds' /\ Id \in TaskIds'
  BY <1>4, <1>6, <1>7 DEF TaskIds, Id
<1>9. \A t \in TaskIds : tasks[t].refs = tasks[t].refs - 0
  BY <1>2
<1>10. ASSUME NEW t \in TaskIds
       PROVE  /\ SamePlace(t)
              /\ tasks'[t].refs = tasks[t].refs - (IF t = old THEN 1 ELSE 0)
  BY <1>4, <1>6, <1>9 DEF SameTask, SamePlace, TaskIds
<1> QED BY <1>4, <1>6, <1>7, <1>8, <1>10 DEF AddsTask, Id

\* What the actions of the frame have in common.
LEMMA AskIs ==
    ASSUME TypeOK, KindInv, Click("Frame"), ~IsFrameLocked, NEW kept \in {Id, pages[history].task},
           NEW request \in Lists, NEW page \in Int, Ask(kept, request, page),
           tasks' \in Seq(TaskObjs(Len(pages))), TaskIds \subseteq TaskIds', Id \in TaskIds',
           NEW given, NEW refs,
           AddsTask(NewTask("list", history, request, refs), pages[history].task, given),
           trouble' \in SUBSET {"lost", "refused", "search"}
    PROVE  TypeOK' /\ Turns(request, page, kept, given, refs)
<1>1. /\ Numbers /\ Small /\ pages \in Seq(PageObjs(Len(tasks)))
      /\ queue \in Seq(TaskIds)
  BY TypeNumbers, TypeSplit
<1>2. history \in PageIds /\ pages[history].type = "Frame" /\ ~pages[history].lock /\ load = NULL
  BY <1>1 DEF Click, Shows, IsFrameLocked, Small
<1>3. Len(tasks) \in Nat /\ Len(tasks') \in Nat /\ Len(tasks) <= Len(tasks') /\ Len(pages) \in Nat
  BY <1>1 DEF Numbers, AddsTask
<1>4. PageObjs(Len(tasks)) \subseteq PageObjs(Len(tasks'))
  BY <1>3, MorePages
<1>5. pages \in Seq(PageObjs(Len(tasks')))
  <2> HIDE DEF PageObjs
  <2> QED BY <1>1, <1>4, WiderSeq
<1>6. pages[history] \in PageObjs(Len(tasks')) /\ history \in 1 .. Len(pages)
  BY <1>1, <1>2, <1>4 DEF Numbers, PageIds
<1>7. kept \in 1 .. Len(tasks')
  <2>1. pages[history].task \in TaskIds BY <1>2 DEF KindInv
  <2> QED BY <2>1 DEF TaskIds
<1> DEFINE g == FrameAsks([pages[history] EXCEPT !.task = kept], request, page)
<1>8. g \in PageObjs(Len(tasks')) /\ Asked(g, pages[history], kept, request, page)
  BY <1>3, <1>6, <1>7, FrameAsksOf
<1>9. pages' = [pages EXCEPT ![history] = g]
  BY DEF Ask
<1> HIDE DEF g
<1>10. /\ pages' \in Seq(PageObjs(Len(tasks'))) /\ Len(pages') = Len(pages)
       /\ pages'[history] = g /\ \A j \in 1 .. Len(pages) : j # history => pages'[j] = pages[j]
  BY <1>5, <1>6, <1>8, <1>9, SetAt
<1>11. Pushes(Id, request) /\ queue' \in Seq(TaskIds')
  BY <1>1, QueuedIs DEF Ask
<1>12. Small'
  <2>1. PageIds' = PageIds BY <1>10 DEF PageIds
  <2>2. clicks' \in 0 .. MaxClicks BY <1>1, SizeAssumption DEF Small, Click
  <2> QED BY <1>1, <2>1, <2>2 DEF Small, Click, Ask, serverVars
<1>13. TypeOK'
  BY <1>10, <1>11, <1>12, TypeSplitNext
<1> QED BY <1>1, <1>2, <1>8, <1>10, <1>11, <1>13
        DEF Turns, OthersSame, Click, Ask, Shows, PageIds, Numbers, serverVars

\* The task of the frame shown is alive.
LEMMA ShownAlive ==
    ASSUME Base, Shows("Frame")
    PROVE  /\ history \in PageIds /\ pages[history].task \in TaskIds
           /\ tasks[pages[history].task].refs \in Nat \ {0}
           /\ tasks[pages[history].task].kind = "list"
           /\ Request(pages[history].task) \in Lists
<1>1. Numbers /\ Small BY TypeNumbers, TypeSplit DEF Base
<1>2. history \in PageIds BY <1>1 DEF Small, Shows
<1> DEFINE t == pages[history].task
<1>3. t \in TaskIds /\ tasks[t].kind = "list"
  BY <1>2 DEF Base, KindInv, Shows
<1>4. tasks[t] \in TaskObjs(Len(pages)) /\ Occurs(queue, t) \in Nat /\ Len(pages) \in Nat
  BY <1>1, <1>3 DEF Numbers
<1>5. tasks[t].refs \in Nat /\ (tasks[t].kind = "list" => tasks[t].request \in Lists)
  BY <1>4, TaskFacts
<1>6. tasks[t].refs >= Refs(t)
  BY <1>3 DEF Base, RefInv
<1>7. Refs(t) \in Nat \ {0}
  BY <1>4 DEF Refs, Due, One
<1> QED BY <1>2, <1>3, <1>5, <1>6, <1>7 DEF Request

\* A request that comes from a category, or from an arrow of the frame shown.
FromShown(request) ==
    \/ request.page = 0
    \/ LET shown == Request(pages[history].task) IN
       /\ request.query = shown.query
       /\ \/ request.page = shown.page - 1 /\ pages[history].prev
          \/ request.page = shown.page + 1 /\ pages[history].next

LEMMA AskInsteadIs ==
    ASSUME Base, Click("Frame"), ~IsFrameLocked, NEW request \in Lists, AskInstead(request)
    PROVE  TypeOK' /\ Turns(request, request.page, Id, 1, 2)
<1> DEFINE old == pages[history].task
           new == NewTask("list", history, request, 2)
<1>1. /\ Numbers /\ tasks \in Seq(TaskObjs(Len(pages))) /\ Small
  BY TypeNumbers, TypeSplit DEF Base
<1>2. Shows("Frame") BY DEF Click
<1>3. history \in PageIds /\ old \in TaskIds /\ tasks[old].refs > 0
  BY <1>2, ShownAlive
<1>4. Len(pages) \in Nat /\ history \in 1 .. Len(pages)
  BY <1>1, <1>3 DEF Numbers, PageIds
<1>5. new \in TaskObjs(Len(pages))
  BY <1>4, TaskMade
<1>6. pages' = [pages EXCEPT ![history] = FrameAsks([@ EXCEPT !.task = Id], request, request.page)]
  BY DEF AskInstead, Ask
<1>7. Len(pages') = Len(pages)
  <2>1. pages \in Seq(PageObjs(Len(tasks))) BY TypeSplit DEF Base
  <2> QED BY <1>6, <2>1
<1>8. tasks' = Append([tasks EXCEPT ![old].refs = @ - 1], new)
  BY DEF AskInstead, NewTaskRefs
<1> HIDE DEF old, new
<1>9. /\ tasks' \in Seq(TaskObjs(Len(pages))) /\ AddsTask(new, old, 1)
      /\ TaskIds \subseteq TaskIds' /\ Id \in TaskIds'
  BY <1>1, <1>3, <1>4, <1>5, <1>7, <1>8, AddTaskFor
<1>10. request.page \in Int BY DEF Lists
<1>11. Ask(Id, request, request.page) /\ trouble' = trouble BY DEF AskInstead
<1> QED BY <1>1, <1>9, <1>10, <1>11, AskIs DEF Base, old, new, Small

LEMMA SearchIs ==
    ASSUME Base, OnSearchEntryActivate
    PROVE  LET old == pages[history].task IN
           TypeOK' /\ Turns(List("search", 0), Request(old).page, old, 0, 1)
<1> DEFINE old == pages[history].task
           request == List("search", 0)
           new == NewTask("list", history, request, 1)
<1>1. /\ Numbers /\ tasks \in Seq(TaskObjs(Len(pages))) /\ Small
  BY TypeNumbers, TypeSplit DEF Base
<1>2. Shows("Frame") /\ Click("Frame") /\ ~IsFrameLocked BY DEF Click, OnSearchEntryActivate
<1>3. history \in PageIds /\ old \in TaskIds /\ Request(old) \in Lists
  BY <1>2, ShownAlive
<1>4. Len(pages) \in Nat /\ history \in 1 .. Len(pages)
  BY <1>1, <1>3 DEF Numbers, PageIds
<1>5. request \in Lists /\ Request(old).page \in Int
  BY <1>3 DEF Lists, List, Queries
<1>6. new \in TaskObjs(Len(pages))
  BY <1>4, <1>5, TaskMade
<1>7. Ask(old, request, Request(old).page) /\ tasks' = Append(tasks, new)
      /\ trouble' = trouble \cup {"search"}
  BY DEF OnSearchEntryActivate
<1>8. Len(pages') = Len(pages)
  <2>1. pages \in Seq(PageObjs(Len(tasks))) BY TypeSplit DEF Base
  <2> QED BY <1>7, <2>1 DEF Ask
<1> HIDE DEF old, new, request
<1>9. /\ tasks' \in Seq(TaskObjs(Len(pages'))) /\ AddsTask(new, NULL, 0)
      /\ TaskIds \subseteq TaskIds' /\ Id \in TaskIds'
  BY <1>1, <1>4, <1>6, <1>7, <1>8, AddTask
<1>10. AddsTask(new, old, 0)
  <2>1. \A t \in TaskIds : tasks[t].refs - 0 = tasks[t].refs
    <3>1. \A t \in TaskIds : tasks[t] \in TaskObjs(Len(pages)) BY <1>1 DEF Numbers
    <3>2. \A t \in TaskIds : tasks[t].refs \in Nat BY <1>4, <3>1, TaskFacts
    <3> QED BY <3>2
  <2> QED BY <1>9, <2>1 DEF AddsTask
<1>11. trouble' \in SUBSET {"lost", "refused", "search"} BY <1>1, <1>7 DEF Small
<1>12. Base /\ TypeOK /\ KindInv BY DEF Base
<1>13. TypeOK' /\ Turns(request, Request(old).page, old, 0, 1)
  BY <1>2, <1>5, <1>7, <1>8, <1>9, <1>10, <1>11, <1>12, AskIs DEF old, new
<1> QED BY <1>13 DEF old, request

LEMMA ReusesIs ==
    ASSUME Base, OnSearchReuses
    PROVE  TypeOK' /\ Turns(List("search", 0), 0, Id, 1, 2)
<1> DEFINE old == pages[history].task
           request == List("search", 0)
           new == NewTask("list", history, request, 2)
<1>1. /\ Numbers /\ tasks \in Seq(TaskObjs(Len(pages))) /\ Small
  BY TypeNumbers, TypeSplit DEF Base
<1>2. Shows("Frame") /\ Click("Frame") /\ ~IsFrameLocked BY DEF Click, OnSearchReuses
<1>3. history \in PageIds /\ old \in TaskIds /\ tasks[old].refs = 1
  BY <1>2, ShownAlive DEF OnSearchReuses
<1>4. Len(pages) \in Nat /\ history \in 1 .. Len(pages)
  BY <1>1, <1>3 DEF Numbers, PageIds
<1>5. request \in Lists
  BY DEF Lists, List, Queries
<1>6. new \in TaskObjs(Len(pages))
  BY <1>4, <1>5, TaskMade
<1>7. /\ Ask(Id, request, 0) /\ trouble' = trouble \cup {"search"}
      /\ tasks' = Append([tasks EXCEPT ![old].refs = 0], new)
  BY DEF OnSearchReuses
<1>8. Len(pages') = Len(pages)
  <2>1. pages \in Seq(PageObjs(Len(tasks))) BY TypeSplit DEF Base
  <2> QED BY <1>7, <2>1 DEF Ask
<1>9. tasks' = Append([tasks EXCEPT ![old].refs = @ - 1], new)
  <2>1. tasks[old].refs - 1 = 0 BY <1>3
  <2> QED BY <1>7, <2>1
<1> HIDE DEF old, new, request
<1>10. tasks[old].refs > 0 BY <1>3
<1>11. /\ tasks' \in Seq(TaskObjs(Len(pages'))) /\ AddsTask(new, old, 1)
       /\ TaskIds \subseteq TaskIds' /\ Id \in TaskIds'
  BY <1>1, <1>3, <1>4, <1>6, <1>8, <1>9, <1>10, AddTaskFor
<1>12. tasks' \in Seq(TaskObjs(Len(pages))) /\ 0 \in Int BY <1>8, <1>11
<1>13. trouble' \in SUBSET {"lost", "refused", "search"} BY <1>1, <1>7 DEF Small
<1>14. TypeOK /\ KindInv BY DEF Base
<1>15. TypeOK' /\ Turns(request, 0, Id, 1, 2)
  BY <1>2, <1>5, <1>7, <1>11, <1>13, <1>14, <1>12, AskIs DEF old, new
<1> QED BY <1>15 DEF request

\* The user asks the stage for another page.
Starts ==
    /\ load = NULL /\ history # NULL
    /\ \/ load' = NULL
       \/ /\ ~Protected
          /\ load' \in Loads /\ load'.step = "new" /\ load'.by = "main"
          /\ load'.type = "Frame" /\ load'.mode = "DEFAULT" => Shows("InfoPage")
          /\ load'.type = "InfoPage" => Shows("Frame")
    /\ \/ came' = came /\ ((load' # NULL) => load'.type # "InfoPage")
       \/ /\ Shows("Frame") /\ pages[history].list # NULL
          /\ came' = [list |-> pages[history].list, request |-> Request(pages[history].task)]
          /\ load' # NULL => load'.type = "InfoPage"
    /\ UNCHANGED <<pages, freed, history, table, tasks, queue, running, stage, result,
                   serverVars, trouble, crashed>>

LEMMA StageLoadIs ==
    ASSUME NEW type \in Types, NEW mode \in {"NEW", "DEFAULT"}, NEW by \in {"main", "worker"},
           StageLoad(type, mode, by)
    PROVE  \/ load' = NULL
           \/ /\ ~Protected /\ load' \in Loads /\ load'.type = type /\ load'.mode = mode
              /\ load'.by = by /\ load'.step = "new"
  BY DEF StageLoad, Loads

LEMMA StartIs ==
    ASSUME Base,
           \/ OnInfoIconEvent \/ OnAccountLoginPress \/ OnReturnButtonPress
           \/ OnRegisterPress \/ OnBackButtonPress \/ OnGuestLoginPress
    PROVE  TypeOK' /\ Starts
<1>1. /\ Numbers /\ Small /\ pages \in Seq(PageObjs(Len(tasks)))
      /\ tasks \in Seq(TaskObjs(Len(pages))) /\ queue \in Seq(TaskIds)
  BY TypeNumbers, TypeSplit DEF Base
<1> USE DEF Types
<1>2. \/ OnInfoIconEvent /\ user' = user
      \/ \E type \in {"Frame", "Login", "Register"}, mode \in {"NEW", "DEFAULT"} :
            /\ Go(type, mode) /\ user' \in BOOLEAN
            /\ type = "Frame" /\ mode = "DEFAULT" => Shows("InfoPage")
            /\ \E shown \in Types : Click(shown)
  BY <1>1 DEF OnInfoIconEvent, OnAccountLoginPress, OnReturnButtonPress, OnRegisterPress,
              OnBackButtonPress, OnGuestLoginPress, Small, Click
<1>3. ASSUME OnInfoIconEvent
      PROVE  Starts /\ came' \in [list : Lists, request : Lists] /\ load' \in Loads \cup {NULL}
             /\ clicks' \in 0 .. MaxClicks /\ user' = user
  <2>1. Shows("Frame") /\ StageLoad("InfoPage", "NEW", "main") BY <1>3 DEF OnInfoIconEvent, Click
  <2>2. /\ Request(pages[history].task) \in Lists /\ history \in PageIds
    BY <2>1, ShownAlive
  <2>3. pages[history].list \in Lists
    <3>1. pages[history] \in PageObjs(Len(tasks)) /\ Len(tasks) \in Nat BY <1>1, <2>2 DEF Numbers
    <3> QED BY <1>3, <3>1, PageFacts DEF OnInfoIconEvent
  <2>4. \/ load' = NULL
        \/ /\ ~Protected /\ load' \in Loads /\ load'.type = "InfoPage" /\ load'.mode = "NEW"
           /\ load'.by = "main" /\ load'.step = "new"
    BY <2>1, StageLoadIs
  <2>5. clicks' \in 0 .. MaxClicks
    BY <1>1, <1>3, SizeAssumption DEF Small, OnInfoIconEvent, Click
  <2> QED BY <1>3, <2>1, <2>2, <2>3, <2>4, <2>5
          DEF OnInfoIconEvent, Click, Starts, Shows, serverVars
<1>4. ASSUME NEW type \in {"Frame", "Login", "Register"}, NEW mode \in {"NEW", "DEFAULT"},
             Go(type, mode), NEW shown \in Types, Click(shown),
             type = "Frame" /\ mode = "DEFAULT" => Shows("InfoPage")
      PROVE  Starts /\ came' = came /\ load' \in Loads \cup {NULL} /\ clicks' \in 0 .. MaxClicks
  <2>1. \/ load' = NULL
        \/ /\ ~Protected /\ load' \in Loads /\ load'.type = type /\ load'.mode = mode
           /\ load'.by = "main" /\ load'.step = "new"
    BY <1>4, StageLoadIs DEF Go
  <2>2. clicks' \in 0 .. MaxClicks
    BY <1>1, <1>4, SizeAssumption DEF Small, Click
  <2> QED BY <1>4, <2>1, <2>2 DEF Go, Click, Starts, Shows, serverVars
<1>5. /\ Starts /\ came' \in [list : Lists, request : Lists] \cup {NULL}
      /\ load' \in Loads \cup {NULL} /\ clicks' \in 0 .. MaxClicks /\ user' \in BOOLEAN
  BY <1>1, <1>2, <1>3, <1>4 DEF Small
<1>6. Small'
  BY <1>1, <1>5 DEF Small, Starts, PageIds, TaskIds, serverVars
<1>7. TypeOK'
  BY <1>1, <1>5, <1>6, TypeSplitNext DEF Starts, TaskIds
<1> QED BY <1>5, <1>7

\* The page that is shown posts something to the server.
Posts(kind, request) ==
    /\ load = NULL /\ history \in PageIds
    /\ \/ kind = "check" /\ request = NULL /\ Shows("Login")
       \/ kind = "register" /\ request = NULL /\ Shows("Register")
       \/ /\ kind = "fan" /\ Shows("InfoPage") /\ ~pages[history].lock
          /\ request = IF pages[history].fan = "NOT_FAN" THEN "add" ELSE "remove"
    /\ OthersSame(history)
    /\ LET f == pages[history] IN
       Like(pages'[history], f, HasLockStatus(history), f.task, f.list, f.prev, f.next, f.fan)
    /\ AddsTask(NewTask(kind, history, request, 1), NULL, 0)
    /\ \A t \in TaskIds : tasks'[t] = tasks[t]
    /\ Enqueues(Id)
    /\ UNCHANGED <<freed, history, table, load, running, stage, result, serverVars, user,
                   trouble, came, crashed>>

LEMMA PostIs ==
    ASSUME Base, OnLoginPress \/ OnRegisterButtonPress \/ OnFanButtonPress
    PROVE  TypeOK' /\ \E kind, request : Posts(kind, request)
<1>1. /\ Numbers /\ Small /\ pages \in Seq(PageObjs(Len(tasks)))
      /\ tasks \in Seq(TaskObjs(Len(pages))) /\ queue \in Seq(TaskIds)
  BY TypeNumbers, TypeSplit DEF Base
<1>2. PICK kind, request, shown :
         /\ Click(shown) /\ Post(kind, request)
         /\ \/ kind = "check" /\ request = NULL /\ Shows("Login")
            \/ kind = "register" /\ request = NULL /\ Shows("Register")
            \/ /\ kind = "fan" /\ Shows("InfoPage") /\ ~pages[history].lock
               /\ request = IF pages[history].fan = "NOT_FAN" THEN "add" ELSE "remove"
  BY DEF OnLoginPress, OnRegisterButtonPress, OnFanButtonPress, Click, Sensitive
<1>3. load = NULL /\ history \in PageIds
  BY <1>1, <1>2 DEF Click, Shows, Small
<1> DEFINE f == pages[history]
           new == NewTask(kind, history, request, 1)
<1>4. Len(pages) \in Nat /\ Len(tasks) \in Nat /\ history \in 1 .. Len(pages)
  BY <1>1, <1>3 DEF Numbers, PageIds
<1>5. new \in TaskObjs(Len(pages))
  BY <1>2, <1>4, TaskMade
<1>6. /\ tasks' = Append(tasks, new) /\ queue' = Enqueued(Id)
      /\ pages' = [pages EXCEPT ![history] = [f EXCEPT !.lock = HasLockStatus(history)]]
  BY <1>2 DEF Post
<1>7. Len(pages') = Len(pages)
  BY <1>1, <1>6
<1> HIDE DEF new
<1>8. new \in TaskObjs(Len(pages')) /\ Len(pages') \in Nat /\ Len(pages) <= Len(pages')
  BY <1>4, <1>5, <1>7
<1>9. /\ tasks' \in Seq(TaskObjs(Len(pages'))) /\ AddsTask(new, NULL, 0)
      /\ TaskIds \subseteq TaskIds' /\ Id \in TaskIds'
      /\ \A t \in TaskIds : tasks'[t] = tasks[t]
  BY <1>1, <1>4, <1>6, <1>8, AddTask
<1>10. Len(tasks') \in Nat /\ Len(tasks) <= Len(tasks')
  BY <1>4, <1>9 DEF AddsTask, Id
<1>11. PageObjs(Len(tasks)) \subseteq PageObjs(Len(tasks'))
  BY <1>4, <1>10, MorePages
<1> DEFINE g == [f EXCEPT !.lock = HasLockStatus(history)]
<1>12. /\ g \in PageObjs(Len(tasks'))
       /\ Like(g, f, HasLockStatus(history), f.task, f.list, f.prev, f.next, f.fan)
  <2>1. HasLockStatus(history) \in BOOLEAN BY DEF HasLockStatus
  <2>2. f \in PageObjs(Len(tasks')) BY <1>1, <1>3, <1>11 DEF Numbers
  <2> QED BY <1>10, <2>1, <2>2, PageStores
<1> HIDE DEF g
<1>13. pages \in Seq(PageObjs(Len(tasks')))
  BY <1>1, <1>11, WiderSeq
<1>14. /\ pages' \in Seq(PageObjs(Len(tasks'))) /\ pages'[history] = g
       /\ \A q \in 1 .. Len(pages) : q # history => pages'[q] = pages[q]
  BY <1>4, <1>6, <1>12, <1>13, SetAt DEF g
<1>15. Enqueues(Id)
  BY <1>1, <1>6, <1>9, EnqueuedIs
<1>16. Small'
  <2>1. PageIds' = PageIds BY <1>7 DEF PageIds
  <2>2. clicks' \in 0 .. MaxClicks BY <1>1, <1>2, SizeAssumption DEF Small, Click
  <2> QED BY <1>1, <1>2, <1>9, <2>1, <2>2 DEF Small, Click, Post, serverVars
<1>17. TypeOK'
  BY <1>9, <1>14, <1>15, <1>16, TypeSplitNext DEF Enqueues
<1>18. Posts(kind, request)
  BY <1>2, <1>3, <1>7, <1>9, <1>12, <1>14, <1>15
     DEF Posts, OthersSame, Click, Post, serverVars, new, PageIds
<1> QED BY <1>17, <1>18

\* The call of gnome_app_stage_load goes on.
Goes(step) ==
    /\ load' # NULL /\ load'.step = step
    /\ load'.type = load.type /\ load'.mode = load.mode /\ load'.by = load.by

\* A frame is made; its first request is the default one.
MakesFrame ==
    /\ load # NULL /\ load.step = "new" /\ load.type = "Frame"
    /\ Goes("data")
    /\ Len(pages') = Len(pages) + 1
    /\ \A q \in PageIds : pages'[q] = pages[q]
    /\ Asked(pages'[Made + 1], NewPage("Frame"), Id, List("default", 0), 0)
    /\ AddsTask(NewTask("list", Made + 1, List("default", 0), 2), NULL, 0)
    /\ \A t \in TaskIds : tasks'[t] = tasks[t]
    /\ Pushes(Id, List("default", 0))
    /\ UNCHANGED <<freed, history, table, running, stage, result, serverVars, user,
                   clicks, trouble, came, crashed>>

\* Another page is made.
MakesOther ==
    /\ load # NULL /\ load.step = "new" /\ load.type # "Frame"
    /\ Goes("data")
    /\ Len(pages') = Len(pages) + 1
    /\ \A q \in PageIds : pages'[q] = pages[q]
    /\ pages'[Made + 1] = NewPage(load.type)
    /\ UNCHANGED <<freed, history, table, tasks, queue, running, stage, result, serverVars,
                   user, clicks, trouble, came, crashed>>

LEMMA NewPageIs ==
    ASSUME NEW n \in Nat, NEW type \in Types, user \in BOOLEAN
    PROVE  NewPage(type) \in PageObjs(n)
  BY DEF NewPage, PageObjs, FanStatus

\* The call that goes on, with its step changed.
LEMMA GotoIs ==
    ASSUME NEW step \in {"data", "show"}, load \in Loads, Goto(step)
    PROVE  load' \in Loads /\ Goes(step)
<1>1. load' \in Loads
  BY DEF Goto, Loads
<1> QED BY <1>1, NullAssumption DEF Goto, Goes, Loads

LEMMA NewIs ==
    ASSUME Base, LoadNew
    PROVE  TypeOK' /\ (MakesFrame \/ MakesOther)
<1>1. /\ Numbers /\ Small /\ pages \in Seq(PageObjs(Len(tasks)))
      /\ tasks \in Seq(TaskObjs(Len(pages))) /\ queue \in Seq(TaskIds)
  BY TypeNumbers, TypeSplit DEF Base
<1>2. load \in Loads /\ load # NULL /\ load.step = "new" /\ Goto("data")
  BY <1>1 DEF Small, LoadNew
<1>3. load' \in Loads /\ Goes("data")
  BY <1>2, GotoIs
<1>4. Len(pages) \in Nat /\ Len(tasks) \in Nat
  BY <1>1 DEF Numbers
<1>5. CASE load.type = "Frame"
  <2> DEFINE first == List("default", 0)
             new == NewTask("list", Len(pages) + 1, first, 2)
             f == NewPage("Frame")
             g == FrameAsks([f EXCEPT !.task = Id], first, 0)
  <2>1. /\ pages' = Append(pages, g) /\ tasks' = Append(tasks, new) /\ queue' = Queued(Id, first)
    BY <1>5 DEF LoadNew, NewFrame
  <2>2. first \in Lists BY DEF Lists, List, Queries
  <2>3. /\ f \in PageObjs(Len(tasks) + 1) /\ Len(tasks) + 1 \in Nat
        /\ Id \in 1 .. Len(tasks) + 1
    <3>1. user \in BOOLEAN BY <1>1 DEF Small
    <3> QED BY <1>4, <3>1, NewPageIs DEF Types, Id
  <2> HIDE DEF f, first
  <2>4. g \in PageObjs(Len(tasks) + 1) /\ Asked(g, f, Id, first, 0)
    BY <2>2, <2>3, FrameAsksOf
  <2> HIDE DEF g
  <2>5. pages \in Seq(PageObjs(Len(tasks) + 1))
    <3>1. PageObjs(Len(tasks)) \subseteq PageObjs(Len(tasks) + 1) BY <1>4, <2>3, MorePages
    <3> QED BY <1>1, <3>1, WiderSeq
  <2>6. /\ pages' \in Seq(PageObjs(Len(tasks) + 1)) /\ Len(pages') = Len(pages) + 1
        /\ pages'[Len(pages) + 1] = g /\ \A q \in 1 .. Len(pages) : pages'[q] = pages[q]
    BY <2>1, <2>4, <2>5, AddAt
  <2>7. new \in TaskObjs(Len(pages'))
    BY <1>4, <2>2, <2>6, TaskMade
  <2>8. Len(pages') \in Nat /\ Len(pages) <= Len(pages')
    BY <1>4, <2>6
  <2> HIDE DEF new
  <2>9. /\ tasks' \in Seq(TaskObjs(Len(pages'))) /\ AddsTask(new, NULL, 0)
        /\ TaskIds \subseteq TaskIds' /\ Id \in TaskIds'
        /\ \A t \in TaskIds : tasks'[t] = tasks[t]
    BY <1>1, <1>4, <2>1, <2>7, <2>8, AddTask
  <2>10. Len(tasks') = Len(tasks) + 1 BY <2>9 DEF AddsTask, Id
  <2>11. Pushes(Id, first) /\ queue' \in Seq(TaskIds')
    BY <1>1, <2>1, <2>9, QueuedIs
  <2>12. Small'
    <3>1. PageIds \subseteq PageIds' BY <1>4, <2>6 DEF PageIds
    <3> QED BY <1>1, <1>3, <2>9, <3>1 DEF Small, LoadNew, serverVars
  <2>13. TypeOK'
    BY <2>6, <2>9, <2>10, <2>11, <2>12, TypeSplitNext
  <2>14. MakesFrame
    BY <1>2, <1>3, <1>5, <2>4, <2>6, <2>9, <2>11
       DEF MakesFrame, LoadNew, serverVars, new, f, first, PageIds, Made
  <2> QED BY <2>13, <2>14
<1>6. CASE load.type # "Frame"
  <2>1. pages' = Append(pages, NewPage(load.type)) /\ UNCHANGED <<tasks, queue>>
    BY <1>6 DEF LoadNew
  <2>2. NewPage(load.type) \in PageObjs(Len(tasks))
    BY <1>1, <1>2, <1>4, NewPageIs DEF Small, Loads
  <2>3. /\ pages' \in Seq(PageObjs(Len(tasks))) /\ Len(pages') = Len(pages) + 1
        /\ pages'[Len(pages) + 1] = NewPage(load.type)
        /\ \A q \in 1 .. Len(pages) : pages'[q] = pages[q]
    BY <1>1, <2>1, <2>2, AddAt
  <2>4. tasks' \in Seq(TaskObjs(Len(pages')))
    <3>1. TaskObjs(Len(pages)) \subseteq TaskObjs(Len(pages')) BY <1>4, <2>3, MorePages
    <3> QED BY <1>1, <2>1, <3>1, WiderSeq
  <2>5. Small'
    <3>1. PageIds \subseteq PageIds' BY <1>4, <2>3 DEF PageIds
    <3>2. TaskIds' = TaskIds BY <2>1 DEF TaskIds
    <3> QED BY <1>1, <1>3, <3>1, <3>2 DEF Small, LoadNew, serverVars
  <2>6. TypeOK'
    BY <1>1, <2>1, <2>3, <2>4, <2>5, TypeSplitNext DEF TaskIds
  <2>7. MakesOther
    BY <1>2, <1>3, <1>6, <2>1, <2>3 DEF MakesOther, LoadNew, serverVars, PageIds, Made
  <2> QED BY <2>6, <2>7
<1> QED BY <1>5, <1>6

\* A frame gets the task of the table.
Restores ==
    /\ load # NULL /\ load.step = "data" /\ load.type = "Frame" /\ load.mode = "DEFAULT"
    /\ table \in TaskIds /\ Made \in PageIds /\ Goes("show")
    /\ OthersSame(Made)
    /\ Asked(pages'[Made], pages[Made], table, Request(table), Request(table).page)
    /\ Len(tasks') = Len(tasks)
    /\ \A t \in TaskIds : /\ SameTask(t)
                          /\ tasks'[t].page = IF t = table THEN Made ELSE tasks[t].page
                          /\ tasks'[t].refs = tasks[t].refs + One(t = table)
    /\ Pushes(table, Request(table))
    /\ UNCHANGED <<freed, history, table, running, stage, result, serverVars, user,
                   clicks, trouble, came, crashed>>

\* The table gives its task back.
Forgets ==
    /\ load # NULL /\ load.step = "data" /\ load.type = "Frame" /\ load.mode = "NEW"
    /\ table \in TaskIds /\ table' = NULL /\ Goes("show")
    /\ Len(tasks') = Len(tasks)
    /\ \A t \in TaskIds : SamePlace(t) /\ tasks'[t].refs = tasks[t].refs - One(t = table)
    /\ UNCHANGED <<pages, freed, history, queue, running, stage, result, serverVars, user,
                   clicks, trouble, came, crashed>>

\* An info page asks for the fan status.
Fills ==
    /\ load # NULL /\ load.step = "data" /\ load.type = "InfoPage" /\ Made \in PageIds
    /\ Goes("show")
    /\ OthersSame(Made)
    /\ LET f == pages[Made] IN
       IF status # NULL
       THEN Like(pages'[Made], f, f.lock, f.task, f.list, f.prev, f.next, status)
       ELSE Like(pages'[Made], f, TRUE, f.task, f.list, f.prev, f.next, f.fan)
    /\ AddsTask(NewTask("status", Made, NULL, 1), NULL, 0)
    /\ \A t \in TaskIds : tasks'[t] = tasks[t]
    /\ IF status # NULL THEN queue' = queue ELSE Enqueues(Id)
    /\ UNCHANGED <<freed, history, table, running, stage, result, serverVars, user,
                   clicks, trouble, came, crashed>>

\* A page without data.
Leaves ==
    /\ load # NULL /\ load.step = "data" /\ load.type # "InfoPage"
    /\ load.type = "Frame" => table = NULL
    /\ Goes("show")
    /\ UNCHANGED <<pages, tasks, queue, freed, history, table, running, stage, result,
                   serverVars, user, clicks, trouble, came, crashed>>

\* What the four have in common.
LEMMA DataTypes ==
    ASSUME Base, LoadData, Len(pages') = Len(pages), TaskIds \subseteq TaskIds',
           pages' \in Seq(PageObjs(Len(tasks'))), tasks' \in Seq(TaskObjs(Len(pages'))),
           queue' \in Seq(TaskIds'), table' \in {table, NULL}
    PROVE  TypeOK' /\ Goes("show")
<1>1. Small BY TypeSplit DEF Base
<1>2. load' \in Loads /\ Goes("show") BY <1>1, GotoIs DEF LoadData, Small
<1>3. PageIds' = PageIds BY DEF PageIds
<1>4. Small' BY <1>1, <1>2, <1>3 DEF Small, LoadData, serverVars
<1> QED BY <1>2, <1>4, TypeSplitNext

LEMMA DataIs ==
    ASSUME Base, LoadData
    PROVE  TypeOK' /\ (Restores \/ Forgets \/ Fills \/ Leaves)
<1>1. /\ Numbers /\ Small /\ pages \in Seq(PageObjs(Len(tasks)))
      /\ tasks \in Seq(TaskObjs(Len(pages))) /\ queue \in Seq(TaskIds)
  BY TypeNumbers, TypeSplit DEF Base
<1>2. /\ load \in Loads /\ load # NULL /\ load.step = "data"
      /\ UNCHANGED <<freed, history, running, stage, result, serverVars, user,
                     clicks, trouble, came, crashed>>
  BY <1>1 DEF Small, LoadData
<1>3. Len(pages) \in Nat /\ Len(tasks) \in Nat
  BY <1>1 DEF Numbers
<1>4. Made \in PageIds /\ Made \in 1 .. Len(pages) /\ pages[Made] \in PageObjs(Len(tasks))
  BY <1>1, <1>2, <1>3 DEF Base, LoadInv, Loading, Made, PageIds, Numbers
<1>5. ASSUME table # NULL
      PROVE  /\ table \in TaskIds /\ tasks[table] \in TaskObjs(Len(pages))
             /\ tasks[table].kind = "list" /\ Request(table) \in Lists
             /\ tasks[table].refs \in Nat \ {0}
  <2>1. table \in TaskIds /\ tasks[table] \in TaskObjs(Len(pages)) BY <1>1, <1>5 DEF Small, Numbers
  <2>2. tasks[table].kind = "list" BY <1>5 DEF Base, KindInv
  <2>3. Occurs(queue, table) \in Nat BY <1>1, <2>1 DEF Numbers
  <2>4. Refs(table) \in Nat \ {0} BY <2>3 DEF Refs, Due, One
  <2>5. tasks[table].refs >= Refs(table) BY <2>1 DEF Base, RefInv
  <2>6. tasks[table].refs \in Nat /\ Request(table) \in Lists
    BY <1>3, <2>1, <2>2, TaskFacts DEF Request
  <2> QED BY <2>1, <2>2, <2>4, <2>5, <2>6
<1>6. CASE RestoreFrame(Len(pages))
  <2> DEFINE p == Len(pages)
             q == Request(table)
             g == FrameAsks([pages[p] EXCEPT !.task = table], q, q.page)
             e == [[tasks[table] EXCEPT !.page = p] EXCEPT !.refs = tasks[table].refs + 1]
  <2>1. /\ table # NULL /\ load.type = "Frame" /\ load.mode = "DEFAULT" /\ table' = table
        /\ pages' = [pages EXCEPT ![p] = g] /\ queue' = Queued(table, q)
        /\ tasks' = [tasks EXCEPT ![table].page = p, ![table].refs = @ + 1]
    BY <1>6 DEF RestoreFrame, SetData
  <2>2. /\ table \in TaskIds /\ tasks[table] \in TaskObjs(Len(pages)) /\ q \in Lists
        /\ tasks[table].kind = "list" /\ tasks[table].refs \in Nat
        /\ table \in 1 .. Len(tasks)
    BY <1>5, <2>1 DEF TaskIds
  <2>3. q.page \in Int BY <2>2 DEF Lists
  <2>4. g \in PageObjs(Len(tasks)) /\ Asked(g, pages[p], table, q, q.page)
    <3> HIDE DEF q
    <3> QED BY <1>3, <1>4, <2>2, <2>3, FrameAsksOf DEF Made
  <2>5. /\ e \in TaskObjs(Len(pages)) /\ e.kind = "list" /\ e.request = tasks[table].request
        /\ e.page = p /\ e.refs = tasks[table].refs + 1
    <3>1. tasks[table] \in [kind : {"list"}, page : 1 .. Len(pages), request : Lists, refs : Nat]
      BY <2>2 DEF TaskObjs
    <3>2. p \in 1 .. Len(pages) BY <1>4 DEF Made
    <3> DEFINE d == [tasks[table] EXCEPT !.page = p]
    <3>3. /\ d \in [kind : {"list"}, page : 1 .. Len(pages), request : Lists, refs : Nat]
          /\ d.page = p /\ d.request = tasks[table].request
      BY <3>1, <3>2
    <3>4. d \in TaskObjs(Len(pages)) /\ d.kind = "list" BY <3>3 DEF TaskObjs
    <3>5. e = [d EXCEPT !.refs = tasks[table].refs + 1] OBVIOUS
    <3>6. tasks[table].refs + 1 \in Nat BY <2>2
    <3> HIDE DEF d, e, p
    <3> QED BY <1>3, <3>3, <3>4, <3>5, <3>6, TaskFacts DEF p
  <2>6. tasks' = [tasks EXCEPT ![table] = e]
    BY <1>1, <2>1, <2>2
  <2> HIDE DEF g, e, q
  <2>7. /\ pages' \in Seq(PageObjs(Len(tasks))) /\ Len(pages') = Len(pages) /\ pages'[p] = g
        /\ \A i \in 1 .. Len(pages) : i # p => pages'[i] = pages[i]
    BY <1>1, <1>4, <2>1, <2>4, SetAt DEF Made
  <2>8. /\ tasks' \in Seq(TaskObjs(Len(pages))) /\ Len(tasks') = Len(tasks) /\ tasks'[table] = e
        /\ \A t \in 1 .. Len(tasks) : t # table => tasks'[t] = tasks[t]
    BY <1>1, <2>2, <2>5, <2>6, SetAt
  <2>9. TaskIds' = TaskIds BY <2>8 DEF TaskIds
  <2>10. Pushes(table, q) /\ queue' \in Seq(TaskIds')
    BY <1>1, <2>1, <2>2, <2>9, QueuedIs
  <2>11. TypeOK' /\ Goes("show")
    BY <2>1, <2>7, <2>8, <2>9, <2>10, DataTypes
  <2>12. ASSUME NEW t \in TaskIds
         PROVE  /\ SameTask(t)
                /\ tasks'[t].page = IF t = table THEN Made ELSE tasks[t].page
                /\ tasks'[t].refs = tasks[t].refs + One(t = table)
    <3>1. tasks[t].refs \in Nat
      BY <1>1, <1>3, TaskFacts DEF Numbers
    <3>2. CASE t = table
      BY <2>2, <2>5, <2>8, <3>2 DEF SameTask, One, Made
    <3>3. CASE t # table
      BY <2>8, <3>1, <3>3 DEF SameTask, One, TaskIds
    <3> QED BY <3>2, <3>3
  <2>13. Restores
    BY <1>2, <1>4, <2>1, <2>2, <2>4, <2>7, <2>8, <2>10, <2>11, <2>12
       DEF Restores, OthersSame, PageIds, Made, q
  <2> QED BY <2>11, <2>13
<1>7. CASE ForgetFrame
  <2> DEFINE r == tasks[table].refs - 1
  <2>1. /\ table # NULL /\ load.type = "Frame" /\ load.mode = "NEW" /\ table' = NULL
        /\ pages' = pages /\ queue' = queue
        /\ tasks' = [tasks EXCEPT ![table].refs = r]
    BY <1>7 DEF ForgetFrame
  <2>2. table \in TaskIds /\ table \in 1 .. Len(tasks) /\ r \in Nat
    BY <1>5, <2>1 DEF TaskIds
  <2> HIDE DEF r
  <2>3. /\ tasks' \in Seq(TaskObjs(Len(pages))) /\ Len(tasks') = Len(tasks)
        /\ \A i \in 1 .. Len(tasks) :
              /\ tasks'[i].kind = tasks[i].kind /\ tasks'[i].request = tasks[i].request
              /\ tasks'[i].page = tasks[i].page
              /\ tasks'[i].refs = IF i = table THEN r ELSE tasks[i].refs
    BY <1>1, <1>3, <2>1, <2>2, RefsStore
  <2>4. TaskIds' = TaskIds BY <2>3 DEF TaskIds
  <2>5. TypeOK' /\ Goes("show")
    BY <1>1, <2>1, <2>3, <2>4, DataTypes
  <2>6. ASSUME NEW t \in TaskIds
        PROVE  SamePlace(t) /\ tasks'[t].refs = tasks[t].refs - One(t = table)
    <3>1. tasks[t].refs \in Nat
      BY <1>1, <1>3, TaskFacts DEF Numbers
    <3> QED BY <2>3, <3>1 DEF SameTask, SamePlace, One, TaskIds, r
  <2>7. Forgets
    BY <1>2, <2>1, <2>2, <2>3, <2>5, <2>6 DEF Forgets
  <2> QED BY <2>5, <2>7
<1>8. CASE FillInfoPage(Len(pages))
  <2> DEFINE p == Len(pages)
             f == pages[p]
             new == NewTask("status", p, NULL, 1)
             g == IF status # NULL THEN [f EXCEPT !.fan = status] ELSE [f EXCEPT !.lock = TRUE]
  <2>1. /\ load.type = "InfoPage" /\ table' = table
        /\ tasks' = Append(tasks, new) /\ pages' = [pages EXCEPT ![p] = g]
        /\ queue' = IF status # NULL THEN queue ELSE Enqueued(Id)
    BY <1>8 DEF FillInfoPage, SetFanStatus
  <2>2. new \in TaskObjs(Len(pages))
    BY <1>3, <1>4, TaskMade DEF Made
  <2> HIDE DEF new
  <2>3. Len(pages') = Len(pages) BY <1>1, <2>1
  <2>4. /\ new \in TaskObjs(Len(pages')) /\ Len(pages') \in Nat /\ Len(pages) <= Len(pages')
    BY <1>3, <2>2, <2>3
  <2>5. /\ tasks' \in Seq(TaskObjs(Len(pages'))) /\ AddsTask(new, NULL, 0)
        /\ TaskIds \subseteq TaskIds' /\ Id \in TaskIds'
        /\ \A t \in TaskIds : tasks'[t] = tasks[t]
    BY <1>1, <1>3, <2>1, <2>4, AddTask
  <2>6. Len(tasks') \in Nat /\ Len(tasks) <= Len(tasks')
    BY <1>3, <2>5 DEF AddsTask, Id
  <2>7. PageObjs(Len(tasks)) \subseteq PageObjs(Len(tasks'))
    BY <1>3, <2>6, MorePages
  <2>8. /\ g \in PageObjs(Len(tasks'))
        /\ IF status # NULL
           THEN Like(g, f, f.lock, f.task, f.list, f.prev, f.next, status)
           ELSE Like(g, f, TRUE, f.task, f.list, f.prev, f.next, f.fan)
    <3>1. f \in PageObjs(Len(tasks')) BY <1>4, <2>7 DEF Made
    <3> HIDE DEF f
    <3>2. CASE status # NULL
      <4>1. status \in FanStatus BY <1>1, <3>2 DEF Small, FanStatus
      <4> QED BY <2>6, <3>1, <3>2, <4>1, PageStores
    <3>3. CASE status = NULL
      BY <2>6, <3>1, <3>3, PageStores
    <3> QED BY <3>2, <3>3
  <2> HIDE DEF g
  <2>9. pages \in Seq(PageObjs(Len(tasks')))
    BY <1>1, <2>7, WiderSeq
  <2>10. /\ pages' \in Seq(PageObjs(Len(tasks'))) /\ pages'[p] = g
         /\ \A i \in 1 .. Len(pages) : i # p => pages'[i] = pages[i]
    BY <1>4, <2>1, <2>8, <2>9, SetAt DEF Made
  <2>11. /\ queue' \in Seq(TaskIds')
         /\ IF status # NULL THEN queue' = queue ELSE Enqueues(Id)
    <3>1. CASE status # NULL
      BY <1>1, <2>1, <2>5, <3>1, WiderSeq
    <3>2. CASE status = NULL
      BY <1>1, <2>1, <2>5, <3>2, EnqueuedIs DEF Enqueues
    <3> QED BY <3>1, <3>2
  <2>12. TypeOK' /\ Goes("show")
    BY <2>1, <2>3, <2>5, <2>10, <2>11, DataTypes
  <2>13. Fills
    BY <1>2, <1>4, <2>1, <2>3, <2>5, <2>8, <2>10, <2>11, <2>12
       DEF Fills, OthersSame, PageIds, Made, new
  <2> QED BY <2>12, <2>13
<1>9. CASE /\ load.type # "InfoPage" /\ (load.type = "Frame" => table = NULL)
           /\ UNCHANGED <<pages, tasks, queue, table>>
  <2>1. TaskIds' = TaskIds BY <1>9 DEF TaskIds
  <2>2. TypeOK' /\ Goes("show")
    BY <1>1, <1>9, <2>1, DataTypes
  <2> QED BY <1>2, <1>9, <2>2 DEF Leaves
<1> QED BY <1>6, <1>7, <1>8, <1>9 DEF LoadData

\* gnome_app_stage_show: the frame that is left goes to the table.
Replaces ==
    /\ load # NULL /\ load.step = "show" /\ load' = NULL
    /\ Made \in PageIds /\ history' = Made
    /\ freed' = IF history = NULL THEN freed ELSE freed \cup {history}
    /\ Len(tasks') = Len(tasks)
    /\ \A t \in TaskIds : SamePlace(t)
    /\ \/ /\ Shows("Frame") /\ table' = pages[history].task /\ table' \in TaskIds
          /\ \A t \in TaskIds : tasks'[t].refs =
                tasks[t].refs + One(t = pages[history].task) - One(t = table)
       \/ /\ ~Shows("Frame") /\ table' = table
          /\ \A t \in TaskIds : tasks'[t] = tasks[t]
    /\ came' = IF load.type = "InfoPage" THEN came ELSE NULL
    /\ UNCHANGED <<pages, queue, running, stage, result, serverVars, user, clicks,
                   trouble, crashed>>

\* What RefInv says of the refs of a task that the table or the worker has.
LEMMA RefsHeld ==
    ASSUME Base, NEW t \in TaskIds
    PROVE  /\ tasks[t].refs \in Nat
           /\ t = table \/ t = running \/ Occurs(queue, t) > 0 => tasks[t].refs > 0
<1>1. Numbers /\ Len(pages) \in Nat /\ Occurs(queue, t) \in Nat
  BY TypeNumbers DEF Base, Numbers
<1>2. tasks[t].refs \in Nat BY <1>1, TaskFacts DEF Numbers
<1>3. tasks[t].refs >= Refs(t) BY DEF Base, RefInv
<1>4. t = table \/ t = running \/ Occurs(queue, t) > 0 => Refs(t) \in Nat \ {0}
  BY <1>1 DEF Refs, Due, One
<1>5. Refs(t) \in Nat BY <1>1 DEF Refs, Due, One
<1> QED BY <1>2, <1>3, <1>4, <1>5

LEMMA ShowIs ==
    ASSUME Base, LoadShow
    PROVE  TypeOK' /\ Replaces
<1>1. /\ Numbers /\ Small /\ pages \in Seq(PageObjs(Len(tasks)))
      /\ tasks \in Seq(TaskObjs(Len(pages))) /\ queue \in Seq(TaskIds)
  BY TypeNumbers, TypeSplit DEF Base
<1>2. Len(pages) \in Nat /\ Len(tasks) \in Nat
  BY <1>1 DEF Numbers
<1>3. load # NULL /\ load.step = "show" /\ load \in Loads
  BY <1>1 DEF LoadShow, Small
<1>4. Made \in PageIds
  BY <1>2, <1>3 DEF Base, LoadInv, Loading, Made, PageIds
<1>5. /\ tasks' \in Seq(TaskObjs(Len(pages))) /\ Len(tasks') = Len(tasks)
      /\ \A t \in TaskIds : SamePlace(t)
      /\ \/ /\ Shows("Frame") /\ table' = pages[history].task /\ table' \in TaskIds
            /\ \A t \in TaskIds : tasks'[t].refs =
                  tasks[t].refs + One(t = pages[history].task) - One(t = table)
         \/ /\ ~Shows("Frame") /\ table' = table
            /\ \A t \in TaskIds : tasks'[t] = tasks[t]
  <2>1. CASE Shows("Frame")
    <3> DEFINE s == pages[history].task
               r(u) == tasks[u].refs + One(u = s) - One(u = table)
               e(u) == [tasks[u] EXCEPT !.refs = r(u)]
    <3>1. s \in TaskIds BY <2>1, ShownAlive
    <3>2. tasks' = [u \in 1 .. Len(tasks) |->
                       [tasks[u] EXCEPT !.refs = @ + (IF u = s THEN 1 ELSE 0)
                                                   - (IF u = table THEN 1 ELSE 0)]]
      BY <2>1 DEF LoadShow, SavedRefs
    <3>3. tasks' = [u \in 1 .. Len(tasks) |-> e(u)]
      BY <3>2 DEF One
    <3>4. ASSUME NEW u \in TaskIds
          PROVE  r(u) \in Nat
      <4>1. tasks[u].refs \in Nat /\ (u = table => tasks[u].refs > 0) BY RefsHeld
      <4> QED BY <4>1 DEF One
    <3> HIDE DEF r
    <3>5. ASSUME NEW u \in TaskIds
          PROVE  /\ e(u) \in TaskObjs(Len(pages)) /\ e(u).refs = r(u)
                 /\ e(u).kind = tasks[u].kind /\ e(u).page = tasks[u].page
                 /\ e(u).request = tasks[u].request
      <4>1. tasks[u] \in TaskObjs(Len(pages)) BY <1>1 DEF Numbers
      <4> QED BY <1>2, <3>4, <4>1, TaskFacts
    <3> HIDE DEF e
    <3>6. tasks' \in Seq(TaskObjs(Len(pages))) /\ Len(tasks') = Len(tasks)
          /\ \A u \in TaskIds : tasks'[u] = e(u)
      BY <1>2, <3>3, <3>5 DEF TaskIds
    <3>7. table' = s BY <2>1 DEF LoadShow
    <3> QED BY <2>1, <3>1, <3>5, <3>6, <3>7 DEF SamePlace, SameTask, r
  <2>2. CASE ~Shows("Frame")
    BY <1>1, <2>2 DEF LoadShow, SamePlace, SameTask
  <2> QED BY <2>1, <2>2
<1>6. /\ history' = Made /\ load' = NULL
      /\ freed' = IF history = NULL THEN freed ELSE freed \cup {history}
      /\ came' = IF load.type = "InfoPage" THEN came ELSE NULL
      /\ UNCHANGED <<pages, queue, running, stage, result, stored, status, isFan, user, clicks,
                     trouble, crashed>>
  BY DEF LoadShow, workVars, serverVars, Made
<1>7. PageIds' = PageIds /\ TaskIds' = TaskIds
  BY <1>5, <1>6 DEF PageIds, TaskIds
<1>8. Small'
  BY <1>1, <1>4, <1>5, <1>6, <1>7 DEF Small
<1>9. TypeOK'
  BY <1>1, <1>5, <1>6, <1>7, <1>8, TypeSplitNext
<1>10. Replaces
  BY <1>3, <1>4, <1>5, <1>6 DEF Replaces, serverVars
<1> QED BY <1>9, <1>10

-----------------------------------------------------------------------------

\* The worker takes a task out of the queue.
Takes ==
    /\ stage = "idle" /\ running = NULL /\ stage' = "func" /\ running' \in TaskIds
    /\ \A t : Occurs(queue, t) = Occurs(queue', t) + One(running' = t)
    /\ UNCHANGED <<pages, freed, history, table, load, tasks, result, serverVars, user, clicks,
                   trouble, came, crashed>>

LEMMA TakeIs ==
    ASSUME Base, Take
    PROVE  TypeOK' /\ Takes
<1>1. /\ Numbers /\ Small /\ pages \in Seq(PageObjs(Len(tasks)))
      /\ tasks \in Seq(TaskObjs(Len(pages))) /\ queue \in Seq(TaskIds)
  BY TypeNumbers, TypeSplit DEF Base
<1>2. queue # <<>> /\ running' = Head(queue) /\ queue' = Tail(queue)
  BY DEF Take
<1>3. queue' \in Seq(TaskIds) /\ running' \in TaskIds
  BY <1>1, <1>2, TailAt
<1>4. \A t : Occurs(queue, t) = Occurs(Tail(queue), t) + One(Head(queue) = t)
  BY <1>1, <1>2, OccursTail
<1>5. PageIds' = PageIds /\ TaskIds' = TaskIds
  BY DEF Take, pageVars, PageIds, TaskIds
<1>6. Small'
  BY <1>1, <1>3, <1>5 DEF Small, Take, pageVars, serverVars
<1>7. TypeOK'
  BY <1>1, <1>3, <1>5, <1>6, TypeSplitNext DEF Take, pageVars
<1>8. Takes
  BY <1>2, <1>3, <1>4 DEF Takes, Take, pageVars, serverVars, Base, StageInv
<1> QED BY <1>7, <1>8

\* A call returns with answer.
Called(answer) ==
    /\ stage = "func" /\ stage' = "callback" /\ result' = answer /\ running \in TaskIds
    /\ Failed(answer)
    /\ Len(tasks') = Len(tasks)
    /\ \A t \in TaskIds : /\ SamePlace(t) /\ tasks'[t].refs \in Nat
                          /\ tasks'[t].refs >= tasks[t].refs
    /\ stored \subseteq stored' /\ (Kind = "list" /\ answer = "ok" => Request(running) \in stored')
    /\ \/ Kind \notin {"status", "fan"} /\ UNCHANGED <<status, isFan>>
       \/ Kind = "status" /\ (answer = "ok" => status # NULL) /\ UNCHANGED <<status, isFan>>
       \/ /\ Kind = "status" /\ answer = "ok" /\ status = NULL
          /\ isFan' \in IF isFan = NULL THEN BOOLEAN ELSE {isFan}
          /\ status' = IF isFan' THEN "IS_FAN" ELSE "NOT_FAN"
       \/ /\ Kind = "fan" /\ answer # "refused" /\ isFan' = (Request(running) = "add")
          /\ status' = IF answer = "ok" THEN NULL ELSE status
       \/ Kind = "fan" /\ answer # "ok" /\ UNCHANGED <<status, isFan>>
    /\ UNCHANGED <<pages, freed, history, table, load, queue, running, user, clicks, came,
                   crashed>>

LEMMA CallIs ==
    ASSUME Base, NEW answer \in Answers, Call(answer) \/ (FindsAnswer /\ answer = "ok")
    PROVE  TypeOK' /\ Called(answer)
<1>1. /\ Numbers /\ Small /\ pages \in Seq(PageObjs(Len(tasks)))
      /\ tasks \in Seq(TaskObjs(Len(pages))) /\ queue \in Seq(TaskIds)
  BY TypeNumbers, TypeSplit DEF Base
<1>2. Len(pages) \in Nat /\ Len(tasks) \in Nat
  BY <1>1 DEF Numbers
<1>3. Returns(answer)
  BY DEF Call, FindsAnswer, CallList, CallStatus, CallFan, CallPerson
<1>4. /\ stage = "func" /\ stage' = "callback" /\ result' = answer /\ Failed(answer)
      /\ UNCHANGED <<pages, freed, history, table, load, queue, running, user, clicks, came,
                     crashed>>
  BY <1>3 DEF Returns, pageVars
<1>5. running \in TaskIds
  BY <1>1, <1>4 DEF Base, StageInv, Small
<1>6. /\ tasks[running] \in TaskObjs(Len(pages)) /\ tasks[running].refs \in Nat
      /\ Kind \in {"list", "fan", "check", "register", "status"}
      /\ Kind = "list" => Request(running) \in Lists
  BY <1>1, <1>2, <1>5, TaskFacts DEF Numbers, Kind, Request
<1>7. \A t \in TaskIds : tasks[t].refs \in Nat
  BY RefsHeld
<1>8. /\ tasks' \in Seq(TaskObjs(Len(pages))) /\ Len(tasks') = Len(tasks)
      /\ \A t \in TaskIds : /\ SamePlace(t) /\ tasks'[t].refs \in Nat
                            /\ tasks'[t].refs >= tasks[t].refs
  <2>1. CASE tasks' = tasks
    BY <1>1, <1>7, <2>1 DEF SamePlace, SameTask
  <2>2. CASE tasks' = [tasks EXCEPT ![running].refs = @ + 1]
    <3> DEFINE r == tasks[running].refs + 1
    <3>1. r \in Nat /\ running \in 1 .. Len(tasks) BY <1>5, <1>6 DEF TaskIds
    <3>2. tasks' = [tasks EXCEPT ![running].refs = r] BY <2>2
    <3> HIDE DEF r
    <3>3. /\ tasks' \in Seq(TaskObjs(Len(pages))) /\ Len(tasks') = Len(tasks)
          /\ \A i \in 1 .. Len(tasks) :
                /\ tasks'[i].kind = tasks[i].kind /\ tasks'[i].request = tasks[i].request
                /\ tasks'[i].page = tasks[i].page
                /\ tasks'[i].refs = IF i = running THEN r ELSE tasks[i].refs
      BY SMTT(30), <1>1, <1>2, <3>1, <3>2, RefsStore
    <3>4. ASSUME NEW t \in TaskIds
          PROVE  SamePlace(t) /\ tasks'[t].refs \in Nat /\ tasks'[t].refs >= tasks[t].refs
      <4>1. tasks[t].refs \in Nat /\ SamePlace(t)
        BY <1>7, <3>3 DEF SamePlace, SameTask, TaskIds
      <4>2. tasks'[t].refs = IF t = running THEN r ELSE tasks[t].refs BY <3>3 DEF TaskIds
      <4>3. r = tasks[running].refs + 1 BY DEF r
      <4> QED BY <4>1, <4>2, <4>3
    <3> QED BY <3>3, <3>4
  <2> QED BY <2>1, <2>2 DEF Call, FindsAnswer, CallList, CallStatus, CallFan, CallPerson
<1>9. /\ stored \subseteq stored' /\ stored' \subseteq Lists
      /\ Kind = "list" /\ answer = "ok" => Request(running) \in stored'
  BY <1>1, <1>6 DEF Call, FindsAnswer, CallList, CallStatus, CallFan, CallPerson, Small,
                    serverVars
<1>10. \/ Kind \notin {"status", "fan"} /\ UNCHANGED <<status, isFan>>
       \/ Kind = "status" /\ (answer = "ok" => status # NULL) /\ UNCHANGED <<status, isFan>>
       \/ /\ Kind = "status" /\ answer = "ok" /\ status = NULL
          /\ isFan' \in IF isFan = NULL THEN BOOLEAN ELSE {isFan}
          /\ status' = IF isFan' THEN "IS_FAN" ELSE "NOT_FAN"
       \/ /\ Kind = "fan" /\ answer # "refused" /\ isFan' = (Request(running) = "add")
          /\ status' = IF answer = "ok" THEN NULL ELSE status
       \/ Kind = "fan" /\ answer # "ok" /\ UNCHANGED <<status, isFan>>
  <2>1. CASE FindsAnswer
    BY <2>1 DEF FindsAnswer, serverVars
  <2>2. CASE CallList(answer)
    BY <2>2 DEF CallList
  <2>3. CASE CallStatus(answer)
    BY <2>3 DEF CallStatus
  <2>4. CASE CallFan(answer)
    BY <2>4 DEF CallFan
  <2>5. CASE CallPerson(answer)
    BY <2>5 DEF CallPerson, serverVars
  <2> QED BY <2>1, <2>2, <2>3, <2>4, <2>5 DEF Call
<1>11. status' \in {NULL, "IS_FAN", "NOT_FAN"}
  BY <1>1, <1>10 DEF Small
<1>12. isFan' \in BOOLEAN \cup {NULL}
  BY <1>1, <1>10 DEF Small
<1>13. trouble' \subseteq {"lost", "refused", "search"}
  BY <1>1, <1>4 DEF Small, Failed, Answers
<1>14. PageIds' = PageIds /\ TaskIds' = TaskIds
  BY <1>4, <1>8 DEF PageIds, TaskIds
<1>15. Small'
  BY <1>1, <1>4, <1>9, <1>11, <1>12, <1>13, <1>14 DEF Small
<1>16. TypeOK'
  BY <1>1, <1>4, <1>8, <1>14, <1>15, TypeSplitNext
<1>17. Called(answer)
  BY <1>4, <1>5, <1>8, <1>9, <1>10 DEF Called
<1> QED BY <1>16, <1>17

\* The callback of a task, under the application lock: the page of the task
\* and what is loaded may change.
Callback ==
    /\ stage = "callback" /\ load = NULL /\ stage' = "unlock" /\ running \in TaskIds
    /\ result \in Answers
    /\ UNCHANGED <<freed, history, table, tasks, queue, running, result, serverVars,
                   clicks, trouble, came, crashed>>

FrameCalled ==
    /\ Callback /\ Kind = "list" /\ OthersSame(Page) /\ Page \in PageIds
    /\ Loaded(pages'[Page], pages[Page], Request(running), Request(pages[Page].task).page, result)
    /\ UNCHANGED <<load, user>>

StatusCalled ==
    /\ Callback /\ Kind = "status" /\ OthersSame(Page) /\ Page \in PageIds
    /\ LET f == pages[Page] IN
       Like(pages'[Page], f, f.lock, f.task, f.list, f.prev, f.next,
            IF result = "ok" THEN status ELSE "FAN_ERROR")
    /\ UNCHANGED <<load, user>>

FanCalled ==
    /\ Callback /\ Kind = "fan" /\ OthersSame(Page) /\ Page \in PageIds
    /\ LET f == pages[Page] IN
       Like(pages'[Page], f, f.lock, f.task, f.list, f.prev, f.next,
            IF result # "ok" THEN f.fan ELSE IF f.fan = "NOT_FAN" THEN "IS_FAN" ELSE "NOT_FAN")
    /\ UNCHANGED <<load, user>>

PersonCalled ==
    /\ Callback /\ Kind \in {"check", "register"}
    /\ \/ load' = NULL
       \/ /\ ~Protected /\ load' \in Loads /\ load'.step = "new" /\ load'.by = "worker"
          /\ (load'.type = "Frame" /\ load'.mode = "NEW") \/ load'.type = "Login"
    /\ UNCHANGED pages

\* What the callbacks have in common.
LEMMA CallbackTypes ==
    ASSUME Base, CallBack, stage = "callback"
    PROVE  /\ Callback /\ Len(pages) \in Nat /\ Len(tasks) \in Nat
           /\ tasks[running] \in TaskObjs(Len(pages)) /\ Kind = tasks[running].kind
           /\ Page \in PageIds => pages[Page] \in PageObjs(Len(tasks))
           /\ Page \in PageIds \cup {Stage}
           /\ Kind \in {"list", "status", "fan"} => Page \in PageIds
           /\ Kind = "list" => Request(running) \in Lists /\ pages[Page].type = "Frame"
           /\ \A g \in PageObjs(Len(tasks)) :
                 Page \in PageIds /\ pages' = [pages EXCEPT ![Page] = g]
                 /\ UNCHANGED <<load, user>> =>
                    TypeOK' /\ OthersSame(Page) /\ pages'[Page] = g
           /\ pages' = pages /\ load' \in Loads \cup {NULL} /\ user' \in BOOLEAN => TypeOK'
<1>1. /\ Numbers /\ Small /\ pages \in Seq(PageObjs(Len(tasks)))
      /\ tasks \in Seq(TaskObjs(Len(pages))) /\ queue \in Seq(TaskIds)
  BY TypeNumbers, TypeSplit DEF Base
<1>2. Len(pages) \in Nat /\ Len(tasks) \in Nat
  BY <1>1 DEF Numbers
<1>3. running \in TaskIds /\ result \in Answers
  BY <1>1 DEF Base, StageInv, Small
<1>4. tasks[running] \in TaskObjs(Len(pages))
  BY <1>1, <1>3 DEF Numbers
<1>5. Callback
  BY <1>3 DEF Callback, CallBack
<1>6. Page \in PageIds \cup {Stage}
      /\ (Kind \in {"list", "status", "fan"} => Page \in PageIds)
      /\ (Kind = "list" => Request(running) \in Lists /\ pages[Page].type = "Frame")
  BY <1>2, <1>3, <1>4, TaskFacts DEF Base, KindInv, PageIds, Kind, Page, Pg, Request
<1>7. Page \in PageIds => pages[Page] \in PageObjs(Len(tasks))
  BY <1>1 DEF Numbers
<1>8. TaskIds' = TaskIds
  BY DEF CallBack, TaskIds
<1>9. ASSUME NEW g \in PageObjs(Len(tasks)), Page \in PageIds,
             pages' = [pages EXCEPT ![Page] = g], UNCHANGED <<load, user>>
      PROVE  TypeOK' /\ OthersSame(Page) /\ pages'[Page] = g
  <2>1. Page \in 1 .. Len(pages) BY <1>9 DEF PageIds
  <2>2. /\ pages' \in Seq(PageObjs(Len(tasks))) /\ Len(pages') = Len(pages) /\ pages'[Page] = g
        /\ \A i \in 1 .. Len(pages) : i # Page => pages'[i] = pages[i]
    BY <1>1, <1>9, <2>1, SetAt
  <2>3. PageIds' = PageIds BY <2>2 DEF PageIds
  <2>4. Small' BY <1>1, <1>8, <1>9, <2>3 DEF Small, CallBack, serverVars
  <2>5. TypeOK' BY <1>1, <1>8, <2>2, <2>4, TypeSplitNext DEF CallBack
  <2> QED BY <2>2, <2>5 DEF OthersSame, PageIds
<1>10. ASSUME pages' = pages, load' \in Loads \cup {NULL}, user' \in BOOLEAN
       PROVE  TypeOK'
  <2>1. PageIds' = PageIds BY <1>10 DEF PageIds
  <2>2. Small' BY <1>1, <1>8, <1>10, <2>1 DEF Small, CallBack, serverVars
  <2> QED BY <1>1, <1>8, <1>10, <2>2, TypeSplitNext DEF CallBack
<1> QED BY <1>2, <1>4, <1>5, <1>6, <1>7, <1>9, <1>10 DEF Kind

LEMMA CallbackIs ==
    ASSUME Base, \/ FrameCallback \/ FanStatusCallback \/ AddRemoveFanCallback
                 \/ AuthValidCallback \/ RegisterCallback
    PROVE  TypeOK' /\ (FrameCalled \/ StatusCalled \/ FanCalled \/ PersonCalled)
<1> DEFINE f == pages[Page]
<1>1. CallBack /\ stage = "callback" /\ user \in BOOLEAN
  BY TypeSplit DEF FrameCallback, FanStatusCallback, AddRemoveFanCallback,
                   AuthValidCallback, RegisterCallback, Base, Small
<1>2. /\ Callback /\ Len(pages) \in Nat /\ Len(tasks) \in Nat
      /\ tasks[running] \in TaskObjs(Len(pages)) /\ Kind = tasks[running].kind
      /\ Page \in PageIds => f \in PageObjs(Len(tasks))
      /\ Page \in PageIds \cup {Stage}
      /\ Kind \in {"list", "status", "fan"} => Page \in PageIds
      /\ Kind = "list" => Request(running) \in Lists /\ f.type = "Frame"
      /\ \A g \in PageObjs(Len(tasks)) :
            Page \in PageIds /\ pages' = [pages EXCEPT ![Page] = g]
            /\ UNCHANGED <<load, user>> =>
               TypeOK' /\ OthersSame(Page) /\ pages'[Page] = g
      /\ pages' = pages /\ load' \in Loads \cup {NULL} /\ user' \in BOOLEAN => TypeOK'
  BY <1>1, CallbackTypes
<1>3. CASE FrameCallback
  <2> DEFINE g == LoadResults(f, Request(running), Request(f.task).page, result)
  <2>1. Kind = "list" /\ pages' = [pages EXCEPT ![Page] = g] /\ UNCHANGED <<load, user>>
    BY <1>3 DEF FrameCallback
  <2>2. Request(f.task).page \in Int
    <3>1. f.task \in TaskIds /\ tasks[f.task].kind = "list" BY <1>2, <2>1 DEF Base, KindInv
    <3>2. tasks[f.task] \in TaskObjs(Len(pages)) BY <3>1, TypeNumbers DEF Base, Numbers
    <3>3. Request(f.task) \in Lists BY <1>2, <3>1, <3>2, TaskFacts DEF Request
    <3> QED BY <3>3 DEF Lists
  <2>3. /\ g \in PageObjs(Len(tasks))
        /\ Loaded(g, f, Request(running), Request(f.task).page, result)
    BY <1>2, <2>1, <2>2, LoadResultsOf DEF Callback
  <2> HIDE DEF g
  <2> QED BY <1>2, <2>1, <2>3 DEF FrameCalled
<1>4. CASE FanStatusCallback
  <2> DEFINE s == IF result = "ok" THEN status ELSE "FAN_ERROR"
             g == [f EXCEPT !.fan = s]
  <2>1. Kind = "status" /\ pages' = [pages EXCEPT ![Page] = g] /\ UNCHANGED <<load, user>>
    BY <1>4 DEF FanStatusCallback, SetFanStatus
  <2>2. s \in FanStatus
    BY <1>1, <2>1, TypeSplit DEF Base, AnswerInv, Small, FanStatus
  <2> HIDE DEF s
  <2>3. /\ g \in PageObjs(Len(tasks))
        /\ Like(g, f, f.lock, f.task, f.list, f.prev, f.next, s)
    BY <1>2, <2>1, <2>2, PageStores
  <2> HIDE DEF g
  <2> QED BY <1>2, <2>1, <2>3 DEF StatusCalled, s
<1>5. CASE AddRemoveFanCallback
  <2> DEFINE s == IF result # "ok" THEN f.fan
                  ELSE IF f.fan = "NOT_FAN" THEN "IS_FAN" ELSE "NOT_FAN"
             g == [f EXCEPT !.fan = s]
  <2>1. Kind = "fan" /\ UNCHANGED <<load, user>>
        /\ pages' = [pages EXCEPT ![Page].fan =
                        IF ~(result = "ok") THEN @
                        ELSE IF @ = "NOT_FAN" THEN "IS_FAN" ELSE "NOT_FAN"]
    BY <1>5 DEF AddRemoveFanCallback, FanChanges
  <2>2. pages' = [pages EXCEPT ![Page] = g]
    BY <2>1
  <2>3. s \in FanStatus
    <3>1. f.fan \in FanStatus BY <1>2, <2>1, PageFacts
    <3> QED BY <3>1 DEF FanStatus
  <2> HIDE DEF s
  <2>4. /\ g \in PageObjs(Len(tasks))
        /\ Like(g, f, f.lock, f.task, f.list, f.prev, f.next, s)
    BY <1>2, <2>1, <2>3, PageStores
  <2> HIDE DEF g
  <2> QED BY <1>2, <2>1, <2>2, <2>4 DEF FanCalled, s
<1>6. CASE AuthValidCallback
  <2>1. /\ Kind = "check" /\ pages' = pages /\ user' \in BOOLEAN
        /\ \/ StageLoad("Frame", "NEW", "worker") \/ StageLoad("Login", "DEFAULT", "worker")
           \/ load' = load
    BY <1>1, <1>6 DEF AuthValidCallback
  <2>2. \/ load' = NULL
        \/ /\ ~Protected /\ load' \in Loads /\ load'.step = "new" /\ load'.by = "worker"
           /\ (load'.type = "Frame" /\ load'.mode = "NEW") \/ load'.type = "Login"
    <3>1. CASE StageLoad("Frame", "NEW", "worker") BY <3>1, StageLoadIs DEF Types
    <3>2. CASE StageLoad("Login", "DEFAULT", "worker") BY <3>2, StageLoadIs DEF Types
    <3>3. CASE load' = load BY <1>2, <3>3 DEF Callback
    <3> QED BY <2>1, <3>1, <3>2, <3>3
  <2> QED BY <1>2, <2>1, <2>2 DEF PersonCalled
<1>7. CASE RegisterCallback
  <2>1. Kind = "register" /\ pages' = pages /\ load' = load /\ user' = user
    BY <1>7 DEF RegisterCallback
  <2> QED BY <1>1, <1>2, <2>1 DEF PersonCalled, Callback
<1> QED BY <1>3, <1>4, <1>5, <1>6, <1>7

\* The worker unlocks the page and lets the task go.
LetsGo ==
    /\ stage = "unlock" /\ stage' = "idle" /\ running \in TaskIds /\ running' = NULL
    /\ result' = NULL
    /\ OthersSame(Page)
    /\ \/ /\ HasLockStatus(Page) /\ Page \in PageIds
          /\ LET f == pages[Page] IN
             Like(pages'[Page], f, FALSE, f.task, f.list, f.prev, f.next, f.fan)
       \/ ~HasLockStatus(Page) /\ pages' = pages
    /\ Len(tasks') = Len(tasks)
    /\ \A t \in TaskIds : SamePlace(t) /\ tasks'[t].refs = tasks[t].refs - One(t = running)
    /\ UNCHANGED <<freed, history, table, load, queue, serverVars, user, clicks, trouble,
                   came, crashed>>

LEMMA UnlockIs ==
    ASSUME Base, Unlock
    PROVE  TypeOK' /\ LetsGo
<1>1. /\ Numbers /\ Small /\ pages \in Seq(PageObjs(Len(tasks)))
      /\ tasks \in Seq(TaskObjs(Len(pages))) /\ queue \in Seq(TaskIds)
  BY TypeNumbers, TypeSplit DEF Base
<1>2. Len(pages) \in Nat /\ Len(tasks) \in Nat
  BY <1>1 DEF Numbers
<1>3. running \in TaskIds /\ running \in 1 .. Len(tasks)
  BY <1>1 DEF Base, StageInv, Small, Unlock, TaskIds
<1> DEFINE r == tasks[running].refs - 1
<1>4. r \in Nat
  BY <1>3, RefsHeld
<1>5. tasks' = [tasks EXCEPT ![running].refs = r]
  BY DEF Unlock
<1> HIDE DEF r
<1>6. /\ tasks' \in Seq(TaskObjs(Len(pages))) /\ Len(tasks') = Len(tasks)
      /\ \A i \in 1 .. Len(tasks) :
            /\ tasks'[i].kind = tasks[i].kind /\ tasks'[i].request = tasks[i].request
            /\ tasks'[i].page = tasks[i].page
            /\ tasks'[i].refs = IF i = running THEN r ELSE tasks[i].refs
  <2> DEFINE u == [tasks EXCEPT ![running].refs = r]
  <2>1. /\ u \in Seq(TaskObjs(Len(pages))) /\ Len(u) = Len(tasks)
        /\ \A i \in 1 .. Len(tasks) :
              /\ u[i].kind = tasks[i].kind /\ u[i].request = tasks[i].request
              /\ u[i].page = tasks[i].page
              /\ u[i].refs = IF i = running THEN r ELSE tasks[i].refs
    BY SMTT(30), <1>1, <1>2, <1>3, <1>4, RefsStore
  <2> QED BY <1>5, <2>1
<1>7. /\ pages' \in Seq(PageObjs(Len(tasks))) /\ OthersSame(Page)
      /\ \/ /\ HasLockStatus(Page) /\ Page \in PageIds
            /\ LET f == pages[Page] IN
               Like(pages'[Page], f, FALSE, f.task, f.list, f.prev, f.next, f.fan)
         \/ ~HasLockStatus(Page) /\ pages' = pages
  <2>1. CASE HasLockStatus(Page)
    <3> DEFINE f == pages[Page]
               g == [f EXCEPT !.lock = FALSE]
    <3>1. Page \in 1 .. Len(pages)
      <4>1. tasks[running] \in TaskObjs(Len(pages)) BY <1>1, <1>3 DEF Numbers
      <4> QED BY <1>2, <2>1, <4>1, TaskFacts DEF HasLockStatus, Page
    <3>2. f \in PageObjs(Len(tasks)) BY <1>1, <3>1 DEF Numbers, PageIds
    <3>3. g \in PageObjs(Len(tasks)) /\ Like(g, f, FALSE, f.task, f.list, f.prev, f.next, f.fan)
      BY <1>2, <3>2, PageStores
    <3>4. pages' = [pages EXCEPT ![Page] = g]
      BY <2>1 DEF Unlock, Unlocks
    <3> HIDE DEF g
    <3>5. /\ pages' \in Seq(PageObjs(Len(tasks))) /\ Len(pages') = Len(pages) /\ pages'[Page] = g
          /\ \A i \in 1 .. Len(pages) : i # Page => pages'[i] = pages[i]
      BY <1>1, <3>1, <3>3, <3>4, SetAt
    <3> QED BY <2>1, <3>1, <3>3, <3>5 DEF OthersSame, PageIds
  <2>2. CASE ~HasLockStatus(Page)
    BY <1>1, <2>2 DEF Unlock, Unlocks, OthersSame
  <2> QED BY <2>1, <2>2
<1>8. PageIds' = PageIds /\ TaskIds' = TaskIds
  BY <1>6, <1>7 DEF OthersSame, PageIds, TaskIds
<1>9. Small'
  BY <1>1, <1>8 DEF Small, Unlock, serverVars
<1>10. TypeOK'
  BY <1>1, <1>6, <1>7, <1>8, <1>9, TypeSplitNext DEF Unlock, OthersSame
<1>11. ASSUME NEW t \in TaskIds
       PROVE  SamePlace(t) /\ tasks'[t].refs = tasks[t].refs - One(t = running)
  <2>1. tasks[t].refs \in Nat BY RefsHeld
  <2> QED BY <1>6, <2>1 DEF SamePlace, SameTask, TaskIds, One, r
<1>12. LetsGo
  BY <1>3, <1>6, <1>7, <1>11 DEF LetsGo, Unlock, serverVars
<1> QED BY <1>10, <1>12

\* The proxy gets lists that were not asked for.
Predicts ==
    /\ stage = "idle" /\ stored \subseteq stored'
    /\ UNCHANGED <<pages, freed, history, table, load, tasks, queue, running, stage, result,
                   status, isFan, user, clicks, trouble, came, crashed>>

LEMMA PredictIs ==
    ASSUME Base, Predict
    PROVE  TypeOK' /\ Predicts
<1>1. /\ Small /\ pages \in Seq(PageObjs(Len(tasks)))
      /\ tasks \in Seq(TaskObjs(Len(pages))) /\ queue \in Seq(TaskIds)
  BY TypeSplit DEF Base
<1>2. stored \subseteq stored' /\ stored' \subseteq Lists
  BY <1>1 DEF Predict, Small, Lists
<1>3. Predicts
  BY <1>2 DEF Predicts, Predict, pageVars, workVars
<1>4. PageIds' = PageIds /\ TaskIds' = TaskIds
  BY <1>3 DEF Predicts, PageIds, TaskIds
<1>5. Small'
  BY <1>1, <1>2, <1>3, <1>4 DEF Predicts, Small
<1> QED BY <1>1, <1>3, <1>4, <1>5, TypeSplitNext DEF Predicts

\* The store crashes, or nothing happens.
Stays ==
    /\ crashed' \in BOOLEAN
    /\ UNCHANGED <<pages, freed, history, table, load, tasks, queue, running, stage, result,
                   serverVars, user, clicks, trouble, came>>

LEMMA StayIs ==
    ASSUME Base, OnSearchCrashes \/ RegisterCrashes \/ UseFreedPage \/ UNCHANGED vars
    PROVE  TypeOK' /\ Stays
<1>1. /\ Small /\ pages \in Seq(PageObjs(Len(tasks)))
      /\ tasks \in Seq(TaskObjs(Len(pages))) /\ queue \in Seq(TaskIds)
  BY TypeSplit DEF Base
<1>2. Stays
  BY <1>1 DEF Stays, OnSearchCrashes, RegisterCrashes, UseFreedPage, vars, pageVars, workVars,
              serverVars, Small
<1>3. PageIds' = PageIds /\ TaskIds' = TaskIds
  BY <1>2 DEF Stays, PageIds, TaskIds
<1>4. Small'
  BY <1>1, <1>2, <1>3 DEF Stays, Small, serverVars
<1> QED BY <1>1, <1>2, <1>3, <1>4, TypeSplitNext DEF Stays

\* What the user asks a frame for.
Asks ==
    \/ \E request \in Lists : /\ Turns(request, request.page, Id, 1, 2) /\ FromShown(request)
                              /\ trouble' = trouble
    \/ /\ trouble' = trouble \cup {"search"}
       /\ LET old == pages[history].task
              request == List("search", 0)
          IN  \/ Turns(request, Request(old).page, old, 0, 1)
              \/ Turns(request, 0, Id, 1, 2)

LEMMA AsksAre ==
    ASSUME Base,
           \/ \E c \in Categories : OnCategoryButtonPress(c)
           \/ \E step \in {-1, 1} : OnIconPress(step)
           \/ OnSearchEntryActivate \/ OnSearchReuses
    PROVE  TypeOK' /\ Asks
<1>1. ASSUME NEW c \in Categories, OnCategoryButtonPress(c)
      PROVE  TypeOK' /\ Asks
  <2> DEFINE request == List(c, 0)
  <2>1. request \in Lists /\ request.page = 0 BY DEF List, Lists, Queries
  <2>2. Click("Frame") /\ ~IsFrameLocked /\ AskInstead(request)
    BY <1>1 DEF OnCategoryButtonPress
  <2> HIDE DEF request
  <2>3. TypeOK' /\ Turns(request, request.page, Id, 1, 2) BY <2>1, <2>2, AskInsteadIs
  <2> QED BY <2>1, <2>2, <2>3 DEF Asks, FromShown, AskInstead
<1>2. ASSUME NEW step \in {-1, 1}, OnIconPress(step)
      PROVE  TypeOK' /\ Asks
  <2> DEFINE shown == Request(pages[history].task)
             request == [shown EXCEPT !.page = @ + step]
  <2>1. /\ Click("Frame") /\ ~IsFrameLocked /\ AskInstead(request)
        /\ IF step = -1 THEN pages[history].prev ELSE pages[history].next
    BY <1>2 DEF OnIconPress
  <2>2. shown \in Lists BY <2>1, ShownAlive DEF Click
  <2>3. request \in Lists /\ request.query = shown.query /\ request.page = shown.page + step
    BY <2>2 DEF Lists
  <2>4. shown.page \in Int BY <2>2 DEF Lists
  <2> HIDE DEF request
  <2>5. TypeOK' /\ Turns(request, request.page, Id, 1, 2) BY <2>1, <2>3, AskInsteadIs
  <2>6. FromShown(request) BY <2>1, <2>3, <2>4 DEF FromShown
  <2> QED BY <2>1, <2>3, <2>5, <2>6 DEF Asks, AskInstead
<1>3. CASE OnSearchEntryActivate
  <2>1. LET old == pages[history].task IN
        TypeOK' /\ Turns(List("search", 0), Request(old).page, old, 0, 1)
    BY <1>3, SearchIs
  <2>2. trouble' = trouble \cup {"search"} BY <1>3 DEF OnSearchEntryActivate
  <2> QED BY <2>1, <2>2 DEF Asks
<1>4. CASE OnSearchReuses
  <2>1. TypeOK' /\ Turns(List("search", 0), 0, Id, 1, 2) BY <1>4, ReusesIs
  <2>2. trouble' = trouble \cup {"search"} BY <1>4 DEF OnSearchReuses
  <2> QED BY <2>1, <2>2 DEF Asks
<1> QED BY <1>1, <1>2, <1>3, <1>4

\* All that happens.
Steps ==
    \/ Asks \/ Starts \/ (\E kind, request : Posts(kind, request))
    \/ MakesFrame \/ MakesOther
    \/ Restores \/ Forgets \/ Fills \/ Leaves \/ Replaces
    \/ Takes \/ (\E answer \in Answers : Called(answer))
    \/ FrameCalled \/ StatusCalled \/ FanCalled \/ PersonCalled
    \/ LetsGo \/ Predicts \/ Stays

LEMMA StepsAre ==
    ASSUME Base, [Next]_vars
    PROVE  TypeOK' /\ Steps
<1>1. CASE User
  BY <1>1, AsksAre, StartIs, PostIs, StayIs DEF User, Steps
<1>2. CASE LoadStep
  BY <1>2, NewIs, DataIs, ShowIs DEF LoadStep, Steps
<1>3. CASE WorkerStep
  <2>1. ASSUME NEW answer \in {"ok", "refused", "lost"}, Call(answer)
        PROVE  TypeOK' /\ \E a \in Answers : Called(a)
    BY <2>1, CallIs DEF Answers
  <2>2. CASE FindsAnswer
    BY <2>2, CallIs DEF Answers, Steps
  <2> QED BY <1>3, <2>1, <2>2, TakeIs, CallbackIs, UnlockIs, StayIs DEF WorkerStep, Steps
<1>4. CASE Predict
  BY <1>4, PredictIs DEF Steps
<1>5. CASE UNCHANGED vars
  BY <1>5, StayIs DEF Steps
<1> QED BY <1>1, <1>2, <1>3, <1>4, <1>5 DEF Next

-----------------------------------------------------------------------------
(***************************************************************************)
(* Each step keeps up the invariant of pages, tasks and references.         *)
(***************************************************************************)

\* A frame that asks has its new task, or keeps the old one.
TurnsSome ==
    \E request \in Lists, page \in Int, kept \in {Id, pages[history].task}, given \in 0 .. 1 :
        /\ Turns(request, page, kept, given, 1 + One(kept = Id))
        /\ given = One(kept = Id)

LEMMA AsksTurn ==
    ASSUME Base, Asks
    PROVE  TurnsSome
<1>1. Shows("Frame") BY DEF Asks, Turns
<1>2. /\ Numbers /\ pages[history].task \in TaskIds
      /\ Request(pages[history].task) \in Lists
  BY <1>1, ShownAlive, TypeNumbers DEF Base
<1>3. pages[history].task # Id
  BY <1>2 DEF Numbers, TaskIds
<1>4. List("search", 0) \in Lists /\ (\A request \in Lists : request.page \in Int)
  BY DEF List, Lists, Queries
<1>5. One(Id = Id) = 1 /\ One(pages[history].task = Id) = 0
  BY <1>3 DEF One
<1>6. ASSUME NEW request \in Lists, NEW page \in Int, Turns(request, page, Id, 1, 2)
      PROVE  TurnsSome
  BY <1>5, <1>6 DEF TurnsSome
<1>7. ASSUME NEW request \in Lists, NEW page \in Int,
             Turns(request, page, pages[history].task, 0, 1)
      PROVE  TurnsSome
  BY <1>5, <1>7 DEF TurnsSome
<1> QED BY <1>2, <1>4, <1>6, <1>7 DEF Asks

LEMMA StageStep ==
    ASSUME Base, Steps
    PROVE  StageInv'
<1>1. NULL \notin Answers BY NullAssumption
<1>2. StageInv /\ Numbers BY TypeNumbers DEF Base
<1>3. CASE Takes
  <2>1. running' # NULL BY <1>2, <1>3 DEF Takes, Numbers
  <2> QED BY <1>2, <1>3, <2>1 DEF Takes, StageInv
<1>4. CASE \E answer \in Answers : Called(answer)
  BY <1>1, <1>2, <1>4 DEF Called, StageInv
<1>5. CASE FrameCalled \/ StatusCalled \/ FanCalled \/ PersonCalled
  BY <1>2, <1>5 DEF FrameCalled, StatusCalled, FanCalled, PersonCalled, Callback, StageInv
<1>6. CASE LetsGo
  BY <1>2, <1>6 DEF LetsGo, StageInv
<1>7. CASE UNCHANGED <<stage, running, result>>
  BY <1>2, <1>7 DEF StageInv
<1> QED BY <1>3, <1>4, <1>5, <1>6, <1>7
        DEF Steps, Asks, Turns, Starts, Posts, MakesFrame, MakesOther, Restores, Forgets,
            Fills, Leaves, Replaces, Predicts, Stays

\* A new task, of a page that calls for it.
LEMMA KindOfNew ==
    ASSUME KindInv, Numbers, NEW kind, NEW p \in PageIds', NEW request, NEW refs, NEW given, NEW old,
           Len(pages') \in Nat, PageIds \subseteq PageIds', table' = table,
           table \in TaskIds \cup {NULL},
           AddsTask(NewTask(kind, p, request, refs), old, given),
           \/ kind = "list" /\ pages'[p].type = "Frame"
           \/ kind \in {"status", "fan"} /\ pages'[p].type = "InfoPage"
           \/ kind = "check" /\ pages'[p].type = "Login"
           \/ kind = "register" /\ pages'[p].type = "Register",
           \A q \in PageIds : pages'[q].type = pages[q].type,
           \A q \in PageIds' : pages'[q].type = "Frame" =>
               \/ q \in PageIds /\ pages'[q].task = pages[q].task
               \/ pages'[q].task = Id /\ kind = "list"
    PROVE  KindInv'
<1>1. /\ TaskIds' = TaskIds \cup {Id} /\ Id \notin TaskIds /\ Stage \notin PageIds
  BY DEF Numbers, AddsTask, TaskIds, PageIds, Stage
<1>2. tasks'[Id].kind = kind /\ tasks'[Id].page = p
  BY DEF AddsTask, NewTask
<1>3. \A t \in TaskIds : tasks'[t].kind = tasks[t].kind /\ tasks'[t].page = tasks[t].page
  BY DEF AddsTask, SamePlace, SameTask
<1>4. \A t \in TaskIds : Pg(t) \in PageIds \cup {Stage}
  BY TaskFacts DEF Numbers, Pg, PageIds
<1>5. ASSUME NEW q \in PageIds', pages'[q].type = "Frame"
      PROVE  pages'[q].task \in TaskIds' /\ tasks'[pages'[q].task].kind = "list"
  BY <1>1, <1>2, <1>3, <1>5 DEF KindInv
<1>6. table' # NULL => tasks'[table'].kind = "list"
  BY <1>3 DEF KindInv
<1>7. ASSUME NEW t \in TaskIds'
      PROVE  /\ tasks'[t].kind = "list" => pages'[tasks'[t].page].type = "Frame"
             /\ tasks'[t].kind \in {"status", "fan"} =>
                   tasks'[t].page \in PageIds' /\ pages'[tasks'[t].page].type = "InfoPage"
             /\ tasks'[t].kind = "check" =>
                   tasks'[t].page = Stage \/ pages'[tasks'[t].page].type = "Login"
             /\ tasks'[t].kind = "register" =>
                   tasks'[t].page \in PageIds' /\ pages'[tasks'[t].page].type = "Register"
  <2>1. CASE t = Id BY <1>2, <2>1
  <2>2. CASE t \in TaskIds
    <3>1. tasks[t].kind = "list" => Pg(t) \in PageIds
      BY <2>2, TaskFacts DEF Numbers, Pg, PageIds
    <3> QED BY <1>3, <1>4, <2>2, <3>1 DEF KindInv, Pg
  <2> QED BY <1>1, <2>1, <2>2
<1> QED BY <1>5, <1>6, <1>7 DEF KindInv, Pg

\* The pages and tasks are the same as before, but for what KindInv does not tell apart.
LEMMA KindOfSame ==
    ASSUME KindInv, Numbers, Len(pages') = Len(pages), Len(tasks') = Len(tasks),
           table \in TaskIds \cup {NULL}, \A t \in TaskIds : SameTask(t),
           \A q \in PageIds : pages'[q].type = pages[q].type,
           \A q \in PageIds : pages[q].type = "Frame" =>
               pages'[q].task = pages[q].task \/ (pages'[q].task = table /\ table # NULL),
           \A t \in TaskIds : \/ tasks'[t].page = tasks[t].page
                              \/ /\ tasks[t].kind = "list" /\ tasks'[t].page \in PageIds
                                 /\ pages[tasks'[t].page].type = "Frame",
           \/ table' = table \/ table' = NULL
           \/ table' \in TaskIds /\ tasks[table'].kind = "list"
    PROVE  KindInv'
<1>1. PageIds' = PageIds /\ TaskIds' = TaskIds BY DEF PageIds, TaskIds
<1>2. \A t \in TaskIds : tasks'[t].kind = tasks[t].kind BY DEF SameTask
<1>3. ASSUME NEW q \in PageIds, pages'[q].type = "Frame"
      PROVE  pages'[q].task \in TaskIds /\ tasks'[pages'[q].task].kind = "list"
  BY <1>2, <1>3 DEF KindInv
<1>4. table' # NULL => tasks'[table'].kind = "list"
  BY <1>2 DEF KindInv
<1>5. ASSUME NEW t \in TaskIds
      PROVE  /\ tasks'[t].kind = "list" => pages'[tasks'[t].page].type = "Frame"
             /\ tasks'[t].kind \in {"status", "fan"} =>
                   tasks'[t].page \in PageIds /\ pages'[tasks'[t].page].type = "InfoPage"
             /\ tasks'[t].kind = "check" =>
                   tasks'[t].page = Stage \/ pages'[tasks'[t].page].type = "Login"
             /\ tasks'[t].kind = "register" =>
                   tasks'[t].page \in PageIds /\ pages'[tasks'[t].page].type = "Register"
  <2>1. tasks[t].page \in PageIds \cup {Stage} /\ (tasks[t].kind = "list" => tasks[t].page \in PageIds)
    BY TaskFacts DEF Numbers, PageIds
  <2> QED BY <1>2, <2>1 DEF KindInv, Pg
<1> QED BY <1>1, <1>3, <1>4, <1>5 DEF KindInv, Pg

LEMMA KindStep ==
    ASSUME Base, Steps
    PROVE  KindInv'
<1>1. Numbers /\ KindInv /\ table \in TaskIds \cup {NULL}
  BY TypeNumbers, TypeSplit DEF Base, Small
<1>2. CASE Asks
  <2>1. PICK request \in Lists, page \in Int, kept \in {Id, pages[history].task}, given \in 0 .. 1 :
            Turns(request, page, kept, given, 1 + One(kept = Id))
    BY <1>2, AsksTurn DEF TurnsSome
  <2>2. history \in PageIds /\ PageIds' = PageIds /\ pages[history].type = "Frame"
    BY <2>1, ShownAlive DEF Turns, OthersSame, PageIds, Shows
  <2> DEFINE new == NewTask("list", history, request, 1 + One(kept = Id))
  <2>3. AddsTask(new, pages[history].task, given)
        /\ pages'[history].task = kept /\ pages'[history].type = "Frame"
        /\ table' = table /\ (\A q \in PageIds : q # history => pages'[q] = pages[q])
        /\ Len(pages') \in Nat
    BY <1>1, <2>1, <2>2 DEF Turns, Asked, OthersSame, Numbers
  <2> QED BY <1>1, <2>2, <2>3, KindOfNew
<1>3. CASE \E kind, request : Posts(kind, request)
  <2>1. PICK kind, request : Posts(kind, request) BY <1>3
  <2>2. history \in PageIds /\ PageIds' = PageIds
    BY <2>1 DEF Posts, OthersSame, PageIds
  <2>3. AddsTask(NewTask(kind, history, request, 1), NULL, 0)
        /\ pages'[history].task = pages[history].task /\ table' = table
        /\ pages'[history].type = pages[history].type
        /\ (\A q \in PageIds : q # history => pages'[q] = pages[q])
        /\ Len(pages') \in Nat
    BY <1>1, <2>1 DEF Posts, Like, OthersSame, Numbers
  <2>4. \/ kind = "fan" /\ pages'[history].type = "InfoPage"
        \/ kind = "check" /\ pages'[history].type = "Login"
        \/ kind = "register" /\ pages'[history].type = "Register"
    BY <2>1, <2>3 DEF Posts, Shows
  <2> QED BY <1>1, <2>2, <2>3, <2>4, KindOfNew
<1>4. CASE MakesFrame
  <2>1. PageIds' = PageIds \cup {Made + 1} /\ Made + 1 \notin PageIds
    BY <1>1, <1>4 DEF MakesFrame, PageIds, Made, Numbers
  <2>2. AddsTask(NewTask("list", Made + 1, List("default", 0), 2), NULL, 0)
        /\ pages'[Made + 1].task = Id /\ pages'[Made + 1].type = "Frame" /\ table' = table
        /\ (\A q \in PageIds : pages'[q] = pages[q])
        /\ Len(pages') \in Nat
    BY <1>1, <1>4 DEF MakesFrame, Asked, Numbers, NewPage
  <2> QED BY <1>1, <2>1, <2>2, KindOfNew
<1>5. CASE MakesOther
  <2>1. PageIds' = PageIds \cup {Made + 1} /\ Made + 1 \notin PageIds /\ TaskIds' = TaskIds
    BY <1>1, <1>5 DEF MakesOther, PageIds, TaskIds, Made, Numbers
  <2>2. /\ pages'[Made + 1].type # "Frame" /\ table' = table /\ tasks' = tasks
        /\ (\A q \in PageIds : pages'[q] = pages[q])
    BY <1>5 DEF MakesOther, NewPage
  <2>3. \A t \in TaskIds : /\ Pg(t) \in PageIds \cup {Stage}
                           /\ (tasks[t].kind = "list" => Pg(t) \in PageIds)
    BY <1>1, TaskFacts DEF Numbers, PageIds, Pg
  <2>4. Stage \notin PageIds BY <1>1 DEF Numbers, PageIds, Stage
  <2> QED BY <1>1, <2>1, <2>2, <2>3, <2>4 DEF KindInv, Pg
<1>6. CASE Fills
  <2>1. Made \in PageIds /\ PageIds' = PageIds
    BY <1>6 DEF Fills, OthersSame, PageIds
  <2>2. AddsTask(NewTask("status", Made, NULL, 1), NULL, 0)
        /\ pages'[Made].task = pages[Made].task /\ table' = table
        /\ pages'[Made].type = pages[Made].type
        /\ (\A q \in PageIds : q # Made => pages'[q] = pages[q])
        /\ Len(pages') \in Nat
    BY <1>1, <1>6 DEF Fills, Like, OthersSame, Numbers
  <2>3. pages[Made].type = "InfoPage"
    BY <1>6 DEF Base, LoadInv, Loading, Fills
  <2> QED BY <1>1, <2>1, <2>2, <2>3, KindOfNew
<1>7. CASE Restores
  <2>1. pages[Made].type = "Frame" /\ tasks[table].kind = "list"
    BY <1>1, <1>7 DEF Base, LoadInv, Loading, Restores, KindInv, Numbers
  <2> QED BY <1>1, <1>7, <2>1, KindOfSame DEF Restores, OthersSame, Asked, Numbers
<1>8. CASE Forgets
  BY <1>1, <1>8, KindOfSame DEF Forgets, SamePlace
<1>9. CASE Replaces
  <2>1. Shows("Frame") => tasks[pages[history].task].kind = "list"
    BY ShownAlive
  <2> QED BY <1>1, <1>9, <2>1, KindOfSame DEF Replaces, SamePlace
<1>10. CASE \E answer \in Answers : Called(answer)
  BY <1>1, <1>10, KindOfSame DEF Called, SamePlace
<1>11. CASE FrameCalled \/ StatusCalled \/ FanCalled
  <2>1. /\ OthersSame(Page) /\ tasks' = tasks /\ table' = table /\ Page \in PageIds
        /\ pages'[Page].type = pages[Page].type /\ pages'[Page].task = pages[Page].task
    BY <1>11 DEF FrameCalled, StatusCalled, FanCalled, Callback, Loaded, Like
  <2> QED BY <1>1, <2>1, KindOfSame DEF OthersSame, SameTask
<1>12. CASE LetsGo
  <2>1. /\ OthersSame(Page) /\ table' = table /\ Len(tasks') = Len(tasks)
        /\ \A q \in PageIds : pages'[q].type = pages[q].type /\ pages'[q].task = pages[q].task
        /\ \A t \in TaskIds : SamePlace(t)
    BY <1>12 DEF LetsGo, Like, OthersSame
  <2> QED BY <1>1, <2>1, KindOfSame DEF OthersSame, SamePlace
<1>13. CASE UNCHANGED <<pages, tasks, table>>
  BY <1>1, <1>13, KindOfSame DEF SameTask
<1> QED BY <1>2, <1>3, <1>4, <1>5, <1>6, <1>7, <1>8, <1>9, <1>10, <1>11, <1>12, <1>13
        DEF Steps, Starts, Leaves, Takes, PersonCalled, Callback, Predicts, Stays

LEMMA LoadInvStep ==
    ASSUME Base, Steps
    PROVE  LoadInv'
<1>1. /\ Numbers /\ LoadInv /\ freed \subseteq PageIds /\ history \in PageIds \cup {NULL}
      /\ load \in Loads \cup {NULL}
  BY TypeNumbers, TypeSplit DEF Base, Small
<1> USE DEF LoadInv, Loading, Protected, Shows, HasLockStatus
<1>2. ASSUME load = NULL, UNCHANGED <<load, history, freed>>
      PROVE  LoadInv'
  BY <1>1, <1>2
<1>3. CASE Starts
  BY <1>1, <1>3 DEF Starts
<1>4. ASSUME Len(pages') = Made + 1, \A q \in PageIds : pages'[q] = pages[q],
             pages'[Made + 1].type = load.type, load # NULL, Goes("data"),
             UNCHANGED <<freed, history>>
      PROVE  LoadInv'
  <2>1. Made + 1 \notin PageIds /\ Made + 1 > 0 /\ Made + 1 # NULL
    BY <1>1, NullAssumption DEF Made, Numbers, PageIds
  <2> QED BY <1>1, <1>4, <2>1 DEF Goes, Made
<1>5. CASE MakesFrame
  BY <1>4, <1>5 DEF MakesFrame, Asked, NewPage, Made
<1>6. CASE MakesOther
  BY <1>4, <1>6 DEF MakesOther, NewPage, Made
<1>7. ASSUME load # NULL, load.step = "data", Goes("show"), OthersSame(Made),
             Made \in PageIds, pages'[Made].type = pages[Made].type,
             UNCHANGED <<freed, history>>
      PROVE  LoadInv'
  BY <1>1, <1>7 DEF Goes, OthersSame, Made
<1>8. CASE Restores
  BY <1>7, <1>8 DEF Restores, Asked
<1>9. CASE Fills
  BY <1>7, <1>9 DEF Fills, Like
<1>10. CASE Forgets \/ Leaves
  <2>1. load # NULL /\ load.step = "data" /\ Goes("show") /\ UNCHANGED <<pages, freed, history>>
    BY <1>10 DEF Forgets, Leaves
  <2> QED BY <1>1, <2>1 DEF Goes, Made
<1>11. CASE Replaces
  <2>1. Made # NULL BY <1>1, <1>11 DEF Replaces, Numbers
  <2> QED BY <1>1, <1>11, <2>1 DEF Replaces, Made
<1>12. CASE PersonCalled
  BY <1>1, <1>12 DEF PersonCalled, Callback
<1>13. CASE LetsGo
  <2>1. /\ \A q \in PageIds : /\ pages'[q].type = pages[q].type
                              /\ ~pages[q].lock => ~pages'[q].lock
        /\ Len(pages') = Len(pages) /\ UNCHANGED <<load, history, freed>>
    BY <1>13 DEF LetsGo, Like, OthersSame
  <2>2. load # NULL /\ load.step # "new" => Made \in PageIds
    BY <1>1 DEF Numbers, Made, PageIds
  <2> QED BY <1>1, <2>1, <2>2 DEF Made
<1>14. CASE UNCHANGED <<pages, load, history, freed>>
  BY <1>1, <1>14 DEF Made
<1>15. CASE Asks
  BY <1>2, <1>15 DEF Asks, Turns
<1>16. CASE \E kind, request : Posts(kind, request)
  BY <1>2, <1>16 DEF Posts
<1>17. CASE FrameCalled \/ StatusCalled \/ FanCalled
  BY <1>2, <1>17 DEF FrameCalled, StatusCalled, FanCalled, Callback
<1> QED BY <1>3, <1>5, <1>6, <1>8, <1>9, <1>10, <1>11, <1>12, <1>13, <1>14, <1>15, <1>16, <1>17
        DEF Steps, Takes, Called, Predicts, Stays

LEMMA AnswerStep ==
    ASSUME Base, Steps
    PROVE  AnswerInv'
<1>1. Numbers /\ AnswerInv /\ running \in TaskIds \cup {NULL} BY TypeNumbers, TypeSplit DEF Base, Small
<1>2. StageInv /\ NULL # "IS_FAN" /\ NULL # "NOT_FAN" BY NullAssumption DEF Base, FanStatus
<1>3. CASE \E answer \in Answers : Called(answer)
  <2>1. PICK answer \in Answers : Called(answer) BY <1>3
  <2>2. tasks'[running].kind = tasks[running].kind
        /\ tasks'[running].request = tasks[running].request
        /\ running' = running /\ result' = answer
    BY <2>1 DEF Called, SamePlace, SameTask
  <2>3. Kind = "status" /\ answer = "ok" => status' # NULL
    BY <1>2, <2>1 DEF Called
  <2>4. Kind = "list" /\ answer = "ok" => Request(running) \in stored'
    BY <2>1 DEF Called
  <2> QED BY <2>2, <2>3, <2>4 DEF AnswerInv, Kind, Request
<1>4. CASE /\ running' = running /\ stored \subseteq stored' /\ status' = status /\ stage' = stage
           /\ result' = result /\ \A t \in TaskIds : SameTask(t)
  <2>1. stage = "callback" => running \in TaskIds BY <1>1, <1>2 DEF StageInv
  <2> QED BY <1>1, <1>4, <2>1 DEF AnswerInv, SameTask, Kind, Request
<1>5. CASE stage' # "callback"
  BY <1>5 DEF AnswerInv
<1>6. CASE Asks
  BY <1>4, <1>6 DEF Asks, Turns, AddsTask, SamePlace, serverVars
<1>7. CASE \E kind, request : Posts(kind, request)
  BY <1>4, <1>7 DEF Posts, AddsTask, SamePlace, serverVars
<1> QED BY <1>3, <1>4, <1>5, <1>6, <1>7
        DEF Steps, Starts, MakesFrame, MakesOther, Restores, Forgets,
            Fills, Leaves, Replaces, Predicts, Stays, Takes, LetsGo, FrameCalled, StatusCalled,
            FanCalled, PersonCalled, Callback, AddsTask, SamePlace, SameTask, serverVars

LEMMA RefStep ==
    ASSUME Base, Steps
    PROVE  RefInv'
<1>1. /\ Numbers /\ RefInv /\ LoadInv /\ StageInv /\ history \in PageIds \cup {NULL}
      /\ table \in TaskIds \cup {NULL} /\ running \in TaskIds \cup {NULL}
      /\ load \in Loads \cup {NULL}
  BY TypeNumbers, TypeSplit DEF Base, Small
<1>2. \A t \in TaskIds : tasks[t].refs \in Nat /\ Occurs(queue, t) \in Nat /\ t # NULL
  BY <1>1, RefsHeld DEF Numbers
<1>3. Id \notin TaskIds /\ Occurs(queue, Id) = 0 /\ Id # NULL /\ Id \in Nat
  BY <1>1, NullAssumption DEF Numbers, TaskIds
<1> USE DEF RefInv, Refs, Due, Spare, Loading, Shows, One
<1>4. CASE Asks
  <2>1. PICK request \in Lists, page \in Int, kept \in {Id, pages[history].task}, given \in 0 .. 1 :
            Turns(request, page, kept, given, 1 + One(kept = Id)) /\ given = One(kept = Id)
    BY <1>4, AsksTurn DEF TurnsSome
  <2>2. history \in PageIds /\ pages[history].task \in TaskIds
    BY <2>1, ShownAlive DEF Turns
  <2>3. \A t \in TaskIds \cup {Id} : Occurs(queue', t) <= Occurs(queue, t) + One(t = Id)
                                     /\ Occurs(queue', t) \in Nat
    BY <1>2, <1>3, <2>1 DEF Turns, Pushes, Enqueues
  <2>4. /\ load = NULL /\ load' = NULL /\ history' = history /\ table' = table
        /\ running' = running /\ pages'[history].task = kept
        /\ pages[history].type = "Frame" /\ pages'[history].type = "Frame"
        /\ history # NULL /\ TaskIds' = TaskIds \cup {Id}
        /\ tasks'[Id].refs = 1 + One(kept = Id)
        /\ \A t \in TaskIds : tasks'[t].refs =
              tasks[t].refs - (IF t = pages[history].task THEN given ELSE 0)
    BY <1>1, <2>1 DEF Turns, Asked, AddsTask, SamePlace, NewTask, TaskIds, Numbers
  <2>5. ASSUME NEW t \in TaskIds
        PROVE  tasks'[t].refs >= Refs(t)'
    <3>1. tasks[t].refs >= Refs(t) BY <1>1
    <3>2. Occurs(queue', t) <= Occurs(queue, t) /\ Occurs(queue', t) \in Nat BY <1>2, <1>3, <2>3
    <3>3. CASE kept = Id
      BY <1>2, <1>3, <2>1, <2>2, <2>4, <3>1, <3>2, <3>3
    <3>4. CASE kept # Id
      BY <1>2, <1>3, <2>1, <2>2, <2>4, <3>1, <3>2, <3>4
    <3> QED BY <3>3, <3>4
  <2>6. ASSUME NEW t, t = Id
        PROVE  tasks'[t].refs >= Refs(t)'
    <3>1. Occurs(queue', t) \in 0 .. 1 BY <1>3, <2>3, <2>6
    <3>2. table # t /\ running # t /\ t # NULL BY <1>1, <1>3, <2>6
    <3> QED BY <2>1, <2>2, <2>4, <2>6, <3>1, <3>2
  <2> QED BY <2>4, <2>5, <2>6
<1>5. CASE \E kind, request : Posts(kind, request)
  <2>1. PICK kind, request : Posts(kind, request) BY <1>5
  <2>2. /\ load = NULL /\ load' = NULL /\ history' = history /\ table' = table
        /\ running' = running /\ history \in PageIds /\ ~Shows("Frame") /\ ~Shows("Frame")'
        /\ TaskIds' = TaskIds \cup {Id} /\ tasks'[Id].refs = 1
        /\ \A t \in TaskIds : tasks'[t].refs = tasks[t].refs
        /\ \A t : Occurs(queue', t) = Occurs(queue, t) + One(Id = t)
    BY <1>1, <2>1 DEF Posts, Like, AddsTask, NewTask, TaskIds, Numbers, Enqueues
  <2> QED BY <1>1, <1>2, <1>3, <2>2
<1>6. CASE MakesFrame
  <2>1. /\ load # NULL /\ load.step = "new" /\ load.type = "Frame" /\ load' # NULL
        /\ load'.step = "data" /\ load'.type = "Frame" /\ history' = history /\ table' = table
        /\ running' = running /\ Made' = Made + 1 /\ pages'[Made + 1].task = Id
        /\ \A q \in PageIds : pages'[q] = pages[q]
        /\ TaskIds' = TaskIds \cup {Id} /\ tasks'[Id].refs = 2
        /\ \A t \in TaskIds : tasks'[t].refs = tasks[t].refs
        /\ \A t \in TaskIds \cup {Id} : Occurs(queue', t) <= Occurs(queue, t) + One(t = Id)
                                     /\ Occurs(queue', t) \in Nat
    BY <1>1, <1>2, <1>3, <1>6 DEF MakesFrame, Goes, Made, Asked, AddsTask, NewTask, TaskIds,
                                  Numbers, Pushes, Enqueues
  <2>2. Shows("Frame")' <=> Shows("Frame") BY <1>1, <2>1
  <2>3. Shows("Frame") => pages'[history'].task = pages[history].task
                          /\ pages[history].task \in TaskIds
    BY <1>1, <2>1, ShownAlive
  <2>4. ASSUME NEW t \in TaskIds
        PROVE  tasks'[t].refs >= Refs(t)'
    <3>1. tasks[t].refs >= Refs(t) BY <1>1
    <3>2. Occurs(queue', t) <= Occurs(queue, t) /\ Occurs(queue', t) \in Nat BY <1>2, <1>3, <2>1
    <3> QED BY <1>2, <1>3, <2>1, <2>2, <2>3, <3>1, <3>2
  <2>5. ASSUME NEW t, t = Id
        PROVE  tasks'[t].refs >= Refs(t)'
    <3>1. Occurs(queue', t) \in 0 .. 1 BY <1>3, <2>1, <2>5
    <3>2. table # t /\ running # t /\ t # NULL BY <1>1, <1>3, <2>5
    <3> QED BY <1>3, <2>1, <2>2, <2>3, <2>5, <3>1, <3>2
  <2> QED BY <2>1, <2>4, <2>5
<1>7. CASE MakesOther
  <2>1. /\ load # NULL /\ load.step = "new" /\ load.type # "Frame" /\ load' # NULL
        /\ load'.type # "Frame" /\ history' = history /\ table' = table
        /\ running' = running /\ \A q \in PageIds : pages'[q] = pages[q]
        /\ tasks' = tasks /\ queue' = queue
    BY <1>7 DEF MakesOther, Goes
  <2> QED BY <1>1, <1>2, <2>1 DEF TaskIds
<1>8. CASE Restores
  <2>1. /\ load # NULL /\ load.step = "data" /\ load.type = "Frame" /\ load' # NULL
        /\ load'.step = "show" /\ load'.type = "Frame" /\ history' = history /\ table' = table
        /\ running' = running /\ Made' = Made /\ pages'[Made].task = table
        /\ \A q \in PageIds : q # Made => pages'[q] = pages[q]
        /\ TaskIds' = TaskIds /\ table \in TaskIds
        /\ \A t \in TaskIds : tasks'[t].refs = tasks[t].refs + One(t = table)
    BY <1>1, <1>2, <1>8 DEF Restores, Goes, Made, Asked, OthersSame, TaskIds
  <2>2. \A t \in TaskIds : Occurs(queue', t) <= Occurs(queue, t) + One(t = table)
                                     /\ Occurs(queue', t) \in Nat
    BY <1>2, <1>8 DEF Restores, Pushes, Enqueues
  <2>3. Shows("InfoPage") /\ history \in PageIds /\ history # Made
    BY <1>1, <1>8 DEF Restores, LoadInv
  <2>4. ~Shows("Frame") /\ ~Shows("Frame")'
    BY <2>1, <2>3
  <2>5. ASSUME NEW t \in TaskIds
        PROVE  tasks'[t].refs >= Refs(t)'
    <3>1. tasks[t].refs >= Refs(t) BY <1>1
    <3>2. Occurs(queue', t) <= Occurs(queue, t) + One(t = table) /\ Occurs(queue', t) \in Nat
      BY <2>2
    <3>3. CASE t = table
      BY <1>2, <2>1, <2>4, <3>1, <3>2, <3>3
    <3>4. CASE t # table
      BY <1>2, <2>1, <2>4, <3>1, <3>2, <3>4
    <3> QED BY <3>3, <3>4
  <2> QED BY <2>1, <2>5
<1>9. CASE Forgets
  <2>1. /\ load # NULL /\ load.step = "data" /\ load.type = "Frame" /\ load' # NULL
        /\ load'.step = "show" /\ load'.type = "Frame" /\ history' = history /\ table' = NULL
        /\ running' = running /\ pages' = pages /\ queue' = queue
        /\ TaskIds' = TaskIds
        /\ \A t \in TaskIds : tasks'[t].refs = tasks[t].refs - One(t = table)
    BY <1>9 DEF Forgets, Goes, TaskIds
  <2> QED BY <1>1, <1>2, <2>1 DEF Made
<1>10. CASE Fills
  <2>1. /\ load # NULL /\ load.type = "InfoPage" /\ load' # NULL
        /\ load'.type = "InfoPage" /\ history' = history /\ table' = table
        /\ running' = running /\ \A q \in PageIds : q # Made => pages'[q] = pages[q]
        /\ TaskIds' = TaskIds \cup {Id} /\ tasks'[Id].refs = 1
        /\ \A t \in TaskIds : tasks'[t].refs = tasks[t].refs
        /\ \A t \in TaskIds \cup {Id} : Occurs(queue', t) <= Occurs(queue, t) + One(t = Id)
                                     /\ Occurs(queue', t) \in Nat
    BY <1>1, <1>2, <1>3, <1>10 DEF Fills, Goes, Made, Like, AddsTask, NewTask, TaskIds,
                                  Numbers, Enqueues, OthersSame
  <2>2. history # Made BY <1>1, <1>10 DEF Fills, LoadInv
  <2>3. (Shows("Frame")' <=> Shows("Frame"))
        /\ (Shows("Frame") => pages'[history'].task = pages[history].task
                              /\ pages[history].task \in TaskIds)
    BY <1>1, <2>1, <2>2, ShownAlive
  <2>4. ASSUME NEW t \in TaskIds
        PROVE  tasks'[t].refs >= Refs(t)'
    <3>1. tasks[t].refs >= Refs(t) BY <1>1
    <3>2. Occurs(queue', t) <= Occurs(queue, t) /\ Occurs(queue', t) \in Nat BY <1>2, <1>3, <2>1
    <3> QED BY <1>2, <1>3, <2>1, <2>3, <3>1, <3>2
  <2>5. ASSUME NEW t, t = Id
        PROVE  tasks'[t].refs >= Refs(t)'
    <3>1. Occurs(queue', t) \in 0 .. 1 BY <1>3, <2>1, <2>5
    <3>2. table # t /\ running # t /\ t # NULL BY <1>1, <1>3, <2>5
    <3> QED BY <1>3, <2>1, <2>3, <2>5, <3>1, <3>2
  <2> QED BY <2>1, <2>4, <2>5
<1>11. CASE Leaves
  <2>1. /\ load # NULL /\ load.step = "data" /\ load.type # "InfoPage" /\ load' # NULL
        /\ load'.step = "show" /\ load'.type = load.type /\ history' = history
        /\ table' = table /\ running' = running /\ pages' = pages /\ queue' = queue
        /\ tasks' = tasks /\ (load.type = "Frame" => table = NULL)
    BY <1>11 DEF Leaves, Goes
  <2> QED BY <1>1, <1>2, <2>1 DEF Made, TaskIds
<1>12. CASE Replaces
  <2>1. /\ load # NULL /\ load.step = "show" /\ load' = NULL /\ history' = Made /\ Made # NULL
        /\ pages' = pages /\ queue' = queue /\ running' = running /\ TaskIds' = TaskIds
        /\ pages[Made].type = load.type /\ history # Made
    BY <1>1, <1>12 DEF Replaces, TaskIds, LoadInv, Numbers
  <2>2. CASE Shows("Frame")
    <3>1. /\ table' = pages[history].task /\ pages[history].task \in TaskIds
          /\ \A t \in TaskIds : tasks'[t].refs =
                tasks[t].refs + One(t = pages[history].task) - One(t = table)
      BY <1>12, <2>2 DEF Replaces
    <3>2. ASSUME NEW t \in TaskIds
          PROVE  tasks'[t].refs >= Refs(t)'
      <4>1. tasks[t].refs >= Refs(t) BY <1>1
      <4>2. tasks[t].refs \in Nat /\ Occurs(queue, t) \in Nat /\ t # NULL BY <1>2
      <4>3. CASE load.type = "Frame"
        BY <2>1, <2>2, <3>1, <4>1, <4>2, <4>3
      <4>4. CASE load.type # "Frame"
        BY <2>1, <2>2, <3>1, <4>1, <4>2, <4>4
      <4> QED BY <4>3, <4>4
    <3> QED BY <2>1, <3>2
  <2>3. CASE ~Shows("Frame")
    <3>1. table' = table /\ \A t \in TaskIds : tasks'[t].refs = tasks[t].refs
      BY <1>12, <2>3 DEF Replaces
    <3>2. ASSUME NEW t \in TaskIds
          PROVE  tasks'[t].refs >= Refs(t)'
      <4>1. tasks[t].refs >= Refs(t) BY <1>1
      <4>2. tasks[t].refs \in Nat /\ Occurs(queue, t) \in Nat /\ t # NULL BY <1>2
      <4>3. CASE load.type = "Frame"
        BY <2>1, <2>3, <3>1, <4>1, <4>2, <4>3
      <4>4. CASE load.type # "Frame"
        BY <2>1, <2>3, <3>1, <4>1, <4>2, <4>4
      <4> QED BY <4>3, <4>4
    <3> QED BY <2>1, <3>2
  <2> QED BY <2>2, <2>3
<1>13. CASE Starts
  <2>1. /\ load = NULL /\ (load' # NULL => load'.step = "new")
        /\ UNCHANGED <<pages, history, table, tasks, queue, running>>
    BY <1>13 DEF Starts
  <2> QED BY <1>1, <1>2, <2>1 DEF TaskIds, Made
<1>14. CASE Takes
  <2>1. /\ running = NULL /\ running' \in TaskIds
        /\ \A t : Occurs(queue, t) = Occurs(queue', t) + One(running' = t)
        /\ UNCHANGED <<pages, history, table, tasks, load>>
    BY <1>14 DEF Takes
  <2>2. ASSUME NEW t \in TaskIds
        PROVE  Due(t)' = Due(t)
    BY <1>2, <2>1
  <2> QED BY <1>1, <2>1, <2>2 DEF TaskIds, Made
<1>15. CASE \E answer \in Answers : Called(answer)
  <2>1. /\ \A t \in TaskIds : tasks'[t].refs \in Nat /\ tasks'[t].refs >= tasks[t].refs
        /\ Len(tasks') = Len(tasks)
        /\ UNCHANGED <<pages, history, table, queue, running, load>>
    BY <1>15 DEF Called
  <2>2. ASSUME NEW t \in TaskIds
        PROVE  tasks'[t].refs >= Refs(t)'
    <3>1. tasks[t].refs >= Refs(t) /\ Refs(t)' = Refs(t) BY <1>1, <2>1 DEF Made
    <3>2. Refs(t) \in Nat BY <1>2
    <3> HIDE DEF Refs
    <3> QED BY <1>2, <2>1, <3>1, <3>2
  <2> QED BY <2>1, <2>2 DEF TaskIds
<1>16. CASE LetsGo
  <2>1. /\ \A t \in TaskIds : tasks'[t].refs = tasks[t].refs - One(t = running)
        /\ \A q \in PageIds : pages'[q].type = pages[q].type /\ pages'[q].task = pages[q].task
        /\ Len(tasks') = Len(tasks) /\ Len(pages') = Len(pages) /\ running' = NULL
        /\ UNCHANGED <<history, table, queue, load>>
    BY <1>16 DEF LetsGo, OthersSame, Like
  <2>2. Loading => Made \in PageIds
    BY <1>1 DEF LoadInv, PageIds, Made, Numbers
  <2>3. Made' = Made BY <2>1 DEF Made
  <2>4. ASSUME NEW t \in TaskIds
        PROVE  tasks'[t].refs >= Refs(t)'
    <3>1. tasks[t].refs >= Refs(t) BY <1>1
    <3>2. /\ (Shows("Frame")' <=> Shows("Frame"))
          /\ Shows("Frame") => pages'[history'].task = pages[history].task
          /\ Loading => pages'[Made'].task = pages[Made].task
      BY <1>1, <2>1, <2>2, <2>3
    <3>3. running # NULL /\ (Due(t)' = Due(t) - One(t = running))
      BY <1>1, <1>2, <1>16, <2>1 DEF LetsGo, Numbers
    <3>4. Due(t) \in Nat BY <1>2
    <3> HIDE DEF Due, Loading, Shows
    <3>5. Refs(t)' = Refs(t) - One(t = running) /\ Refs(t) \in Int
      BY SMTT(30), <2>1, <3>2, <3>3, <3>4 DEF Loading
    <3>6. tasks[t].refs \in Nat BY <1>2
    <3> HIDE DEF Refs
    <3> QED BY <2>1, <3>1, <3>5, <3>6
  <2> QED BY <2>1, <2>4 DEF TaskIds
<1>17. CASE FrameCalled \/ StatusCalled \/ FanCalled
  <2>1. /\ \A q \in PageIds : pages'[q].type = pages[q].type /\ pages'[q].task = pages[q].task
        /\ Len(pages') = Len(pages) /\ load = NULL /\ load' = NULL
        /\ UNCHANGED <<history, table, queue, running, tasks>>
    BY <1>17 DEF FrameCalled, StatusCalled, FanCalled, Callback, OthersSame, Like, Loaded
  <2> QED BY <1>1, <1>2, <2>1 DEF TaskIds
<1>18. CASE PersonCalled
  <2>1. /\ load = NULL /\ (load' # NULL => load'.step = "new")
        /\ UNCHANGED <<pages, history, table, tasks, queue, running>>
    BY <1>18 DEF PersonCalled, Callback
  <2> QED BY <1>1, <1>2, <2>1 DEF TaskIds, Made
<1>19. CASE UNCHANGED <<pages, history, table, tasks, queue, running, load>>
  BY <1>1, <1>19 DEF TaskIds, Made
<1> QED BY <1>4, <1>5, <1>6, <1>7, <1>8, <1>9, <1>10, <1>11, <1>12, <1>13, <1>14, <1>15, <1>16,
           <1>17, <1>18, <1>19 DEF Steps, Predicts, Stays

-----------------------------------------------------------------------------
(***************************************************************************)
(* The store starts in it.                                                  *)
(***************************************************************************)

LEMMA BaseInit ==
    ASSUME Init
    PROVE  Base
<1>1. /\ pages = <<>> /\ freed = {} /\ history = NULL /\ table = NULL
      /\ running = NULL /\ stage = "idle" /\ result = NULL
      /\ stored = {} /\ status = NULL /\ isFan = NULL
      /\ clicks = 0 /\ trouble = {} /\ came = NULL /\ crashed = FALSE
  BY DEF Init
<1>2. Len(pages) = 0 /\ PageIds = {} /\ pages \in Seq(PageObjs(Len(tasks))) /\ ~Shows("Frame")
  BY <1>1 DEF PageIds, Shows
<1>3. \A t \in TaskIds : t # NULL
  BY NullAssumption DEF TaskIds, Init
<1>4. CASE user = TRUE
  <2> DEFINE new == NewTask("check", Stage, NULL, 1)
  <2>1. load = NULL /\ tasks = <<new>> /\ queue = <<1>> BY <1>4 DEF Init
  <2>2. new \in TaskObjs(0) /\ new.kind = "check" /\ new.page = Stage /\ new.refs = 1
    <3>1. new \in TaskObjs(0) BY TaskMade
    <3> QED BY <3>1 DEF NewTask
  <2> HIDE DEF new
  <2>3. tasks \in Seq(TaskObjs(Len(pages))) /\ TaskIds = {1} /\ tasks[1] = new
        /\ queue \in Seq(TaskIds)
    <3>1. Len(tasks) = 1 /\ tasks[1] = new /\ tasks \in Seq(TaskObjs(0)) BY <2>1, <2>2
    <3>2. TaskIds = {1} BY <3>1 DEF TaskIds
    <3>3. <<1>> \in Seq({1}) OBVIOUS
    <3>4. queue \in Seq(TaskIds) BY <2>1, <3>2, <3>3
    <3>5. tasks \in Seq(TaskObjs(Len(pages))) BY <1>2, <3>1
    <3> QED BY <3>1, <3>2, <3>4, <3>5
  <2>4. Small
    <3>1. user \in BOOLEAN /\ crashed \in BOOLEAN /\ isFan \in BOOLEAN \cup {NULL}
      BY <1>1, <1>4
    <3>2. clicks \in 0 .. MaxClicks BY <1>1, SizeAssumption
    <3> QED BY <1>1, <2>1, <3>1, <3>2 DEF Small
  <2>5. TypeOK BY <1>2, <2>3, <2>4, TypeSplit
  <2>6. StageInv BY <1>1 DEF StageInv
  <2>7. KindInv BY <1>1, <1>2, <2>2, <2>3 DEF KindInv, Pg
  <2>8. LoadInv BY <1>1, <2>1 DEF LoadInv, Loading
  <2>9. AnswerInv BY <1>1 DEF AnswerInv
  <2>10. RefInv
    <3>1. Occurs(queue, 1) = 1
      <4>1. {i \in 1 .. Len(queue) : queue[i] = 1} = {1} BY <2>1
      <4> QED BY <4>1, FS_Singleton DEF Occurs
    <3> QED BY <1>1, <1>2, <1>3, <2>1, <2>2, <2>3, <3>1 DEF RefInv, Refs, Due, One, Loading
  <2> QED BY <2>5, <2>6, <2>7, <2>8, <2>9, <2>10 DEF Base
<1>5. CASE user = FALSE
  <2>1. /\ load = [type |-> "Login", mode |-> "DEFAULT", by |-> "main", step |-> "new"]
        /\ tasks = <<>> /\ queue = <<>>
    BY <1>5 DEF Init
  <2>2. load \in Loads /\ load # NULL /\ load.step = "new" /\ load.type = "Login"
    BY <2>1, NullAssumption DEF Loads, Types
  <2>3. tasks \in Seq(TaskObjs(Len(pages))) /\ TaskIds = {} /\ queue \in Seq(TaskIds)
    <3>1. TaskIds = {} BY <2>1 DEF TaskIds
    <3>2. <<>> \in Seq(TaskObjs(Len(pages))) /\ <<>> \in Seq(TaskIds) OBVIOUS
    <3> QED BY <2>1, <3>1, <3>2
  <2>4. Small
    <3>1. user \in BOOLEAN /\ crashed \in BOOLEAN /\ isFan \in BOOLEAN \cup {NULL}
      BY <1>1, <1>5
    <3>2. clicks \in 0 .. MaxClicks BY <1>1, SizeAssumption
    <3> QED BY <1>1, <2>2, <3>1, <3>2 DEF Small
  <2>5. TypeOK BY <1>2, <2>3, <2>4, TypeSplit
  <2>6. StageInv BY <1>1 DEF StageInv
  <2>7. KindInv BY <1>1, <1>2, <2>3 DEF KindInv
  <2>8. LoadInv BY <1>1, <2>2 DEF LoadInv, Loading, Protected
  <2>9. AnswerInv BY <1>1 DEF AnswerInv
  <2>10. RefInv BY <2>3 DEF RefInv
  <2> QED BY <2>5, <2>6, <2>7, <2>8, <2>9, <2>10 DEF Base
<1> QED BY <1>4, <1>5 DEF Init

LEMMA BaseStep ==
    ASSUME Base, [Next]_vars
    PROVE  Base' /\ Steps
  BY StepsAre, StageStep, KindStep, LoadInvStep, AnswerStep, RefStep DEF Base

LEMMA BaseHolds == Spec => []Base
  BY BaseInit, BaseStep, PTL DEF Spec

\* Whatever is clicked, lost, refused or predicted, what pages, tasks, table, queue
\* and stage refer to has been made, and no reference is given back twice: no count
\* goes below zero.
THEOREM TypeCorrect == Spec => []TypeOK
<1>1. Base => TypeOK BY DEF Base
<1> QED BY <1>1, BaseHolds, PTL

\* A task that waits, runs, is saved in the table or kept by the frame shown has
\* not given its last reference back: queue, worker, table, frames and proxy each
\* hold one of their own.
THEOREM AllTasksAlive == Spec => []TasksAlive
<1>1. ASSUME Base
      PROVE  TasksAlive
  <2>1. /\ Numbers /\ queue \in Seq(TaskIds) /\ table \in TaskIds \cup {NULL}
        /\ running \in TaskIds \cup {NULL}
    BY <1>1, TypeNumbers, TypeSplit DEF Base, Small
  <2>2. ASSUME NEW t \in Pending \cup ({table} \ {NULL})
        PROVE  tasks[t].refs > 0
    <3>1. CASE \E i \in 1 .. Len(queue) : queue[i] = t
      <4>1. t \in TaskIds /\ Occurs(queue, t) > 0 BY <2>1, <3>1, OccursNat
      <4> QED BY <1>1, <4>1, RefsHeld
    <3>2. CASE t \in {table, running} \ {NULL}
      <4>1. t \in TaskIds BY <2>1, <3>2
      <4> QED BY <1>1, <3>2, <4>1, RefsHeld
    <3> QED BY <2>2, <3>1, <3>2 DEF Pending
  <2>3. Shows("Frame") => tasks[pages[history].task].refs > 0
    BY <1>1, ShownAlive
  <2> QED BY <2>2, <2>3 DEF TasksAlive
<1> QED BY <1>1, BaseHolds, PTL

-----------------------------------------------------------------------------
(***************************************************************************)
(* The lock.  An info page, and a frame as long as no call failed, is       *)
(* locked from the push of its request to the unlock after its callback,    *)
(* and has but one such request: none of them is replaced before.           *)
(***************************************************************************)

Default == List("default", 0)
Good == trouble \subseteq {"search"}
Live(p) == p = history \/ (Loading /\ p = Made)
Guarded(p) ==
    p # Stage /\ (pages[p].type = "InfoPage" \/ (pages[p].type = "Frame" /\ Good))

LockedInv ==
    \A t \in TaskIds : Due(t) > 0 /\ Guarded(Pg(t)) => Live(Pg(t)) /\ pages[Pg(t)].lock

FanShownInv == \A t \in TaskIds : Due(t) > 0 /\ tasks[t].kind = "fan" => Pg(t) = history

OnceInv ==
    /\ \A t \in TaskIds : Guarded(Pg(t)) => Due(t) <= 1
    /\ \A t, u \in TaskIds :
          t # u /\ Due(t) > 0 /\ Due(u) > 0 /\ Guarded(Pg(t)) => Pg(t) # Pg(u)

\* No task is for an info page that has not asked yet.
FreshInv ==
    load # NULL /\ load.type = "InfoPage" /\ load.step = "data" =>
        \A t \in TaskIds : Pg(t) # Made

\* A frame is not saved before the default list has come, so that a frame that is
\* restored has had that list at once, and asks for one list only.
Awaited(t) == Occurs(queue, t) > 0 \/ (running = t /\ stage = "func")

DefaultInv ==
    Good =>
        /\ Default \notin stored =>
              \A p \in PageIds : pages[p].type = "Frame" =>
                  \E t \in TaskIds : /\ Awaited(t) /\ tasks[t].kind = "list"
                                     /\ Pg(t) = p /\ Request(t) = Default
        /\ table # NULL => Default \in stored
        /\ table # NULL /\ load # NULL /\ load.type = "Frame" /\ load.step = "data" =>
              ~pages[Made].lock

LockInv == LockedInv /\ FanShownInv /\ OnceInv /\ FreshInv /\ DefaultInv

\* What the invariants say of numbers, once and for all.
Facts ==
    /\ Numbers /\ history \in PageIds \cup {NULL} /\ table \in TaskIds \cup {NULL}
    /\ running \in TaskIds \cup {NULL} /\ load \in Loads \cup {NULL}
    /\ Id \notin TaskIds /\ Occurs(queue, Id) = 0 /\ Id # NULL /\ running # Id
    /\ Stage \notin PageIds /\ Made + 1 \notin PageIds /\ Made + 1 # NULL /\ Made + 1 # Stage
    /\ Made \in Nat /\ (Loading => Made \in PageIds)
    /\ \A t \in TaskIds : /\ Pg(t) \in PageIds \cup {Stage} /\ Due(t) \in Nat /\ t # NULL
                          /\ Occurs(queue, t) \in Nat
                          /\ Guarded(Pg(t)) => Pg(t) \in PageIds
                          /\ tasks[t].kind = "list" =>
                                Pg(t) \in PageIds /\ pages[Pg(t)].type = "Frame"
                          /\ tasks[t].kind \in {"fan", "status"} =>
                                Pg(t) \in PageIds /\ pages[Pg(t)].type = "InfoPage"

LEMMA BaseFacts ==
    ASSUME Base
    PROVE  Facts
<1>1. /\ Numbers /\ history \in PageIds \cup {NULL} /\ table \in TaskIds \cup {NULL}
      /\ running \in TaskIds \cup {NULL} /\ load \in Loads \cup {NULL}
  BY TypeNumbers, TypeSplit DEF Base, Small
<1>2. Id \notin TaskIds /\ Occurs(queue, Id) = 0 /\ Id # NULL /\ running # Id
  BY <1>1, NullAssumption DEF Numbers, TaskIds
<1>3. /\ Stage \notin PageIds /\ Made + 1 \notin PageIds /\ Made + 1 # NULL /\ Made + 1 # Stage
      /\ Made \in Nat
  BY <1>1, NullAssumption DEF Numbers, PageIds, Made, Stage
<1>4. Loading => Made \in PageIds
  BY <1>3 DEF Base, LoadInv, PageIds, Made
<1>5. ASSUME NEW t \in TaskIds
      PROVE  /\ Pg(t) \in PageIds \cup {Stage} /\ Due(t) \in Nat /\ t # NULL
             /\ Occurs(queue, t) \in Nat
             /\ Guarded(Pg(t)) => Pg(t) \in PageIds
             /\ tasks[t].kind = "list" => Pg(t) \in PageIds /\ pages[Pg(t)].type = "Frame"
             /\ tasks[t].kind \in {"fan", "status"} =>
                   Pg(t) \in PageIds /\ pages[Pg(t)].type = "InfoPage"
  <2>1. Pg(t) \in PageIds \cup {Stage} /\ (tasks[t].kind = "list" => Pg(t) \in PageIds)
    BY <1>1, TaskFacts DEF Numbers, Pg, PageIds
  <2>2. Occurs(queue, t) \in Nat /\ Due(t) \in Nat /\ t # NULL
    BY <1>1 DEF Numbers, Due, One
  <2> QED BY <2>1, <2>2 DEF Guarded, Base, KindInv
<1> QED BY <1>1, <1>2, <1>3, <1>4, <1>5 DEF Facts

\* A task that is added is one more, and the others stay where they are.
LEMMA AddedIds ==
    ASSUME Facts, NEW new, NEW old, NEW given, AddsTask(new, old, given)
    PROVE  /\ TaskIds' = TaskIds \cup {Id} /\ TaskIds \subseteq TaskIds' /\ Id \in TaskIds'
           /\ tasks'[Id] = new /\ \A t \in TaskIds : SamePlace(t) /\ SameTask(t)
<1>1. Len(tasks) \in Nat /\ Id = Len(tasks) + 1 BY DEF Facts, Numbers
<1>2. Len(tasks') = Id /\ tasks'[Id] = new /\ \A t \in TaskIds : SamePlace(t)
  BY DEF AddsTask
<1>3. 1 .. Id = (1 .. Len(tasks)) \cup {Id} BY <1>1
<1>4. TaskIds' = TaskIds \cup {Id} BY <1>2, <1>3 DEF TaskIds
<1> QED BY <1>2, <1>4 DEF SamePlace

DueNext(t) == Occurs(queue', t) + One(running' = t)

\* A new task, for a page that no other is for.
LEMMA LockOfNew ==
    ASSUME Facts, LockInv, NEW kind, NEW p \in PageIds', NEW request, NEW refs, NEW old, NEW given,
           AddsTask(NewTask(kind, p, request, refs), old, given),
           PageIds \subseteq PageIds', Stage \notin PageIds', running' = running,
           \A t \in TaskIds : Occurs(queue', t) = Occurs(queue, t),
           Occurs(queue', Id) \in 0 .. 1,
           \A q \in PageIds : q # p => pages'[q] = pages[q],
           \A q \in PageIds : pages'[q].type = pages[q].type,
           \A t \in TaskIds : Due(t) > 0 /\ Pg(t) = p => ~Guarded(p),
           trouble \subseteq trouble', Live(p)', history' = history,
           \A q \in PageIds : Live(q) => Live(q)',
           Guarded(p)' /\ Occurs(queue', Id) > 0 => pages'[p].lock,
           kind = "fan" => p = history
    PROVE  LockedInv' /\ FanShownInv' /\ OnceInv'
<1>1. /\ TaskIds' = TaskIds \cup {Id} /\ Id \notin TaskIds
      /\ tasks'[Id].kind = kind /\ tasks'[Id].page = p
      /\ \A t \in TaskIds : tasks'[t].kind = tasks[t].kind /\ tasks'[t].page = tasks[t].page
  BY DEF Facts, Numbers, AddsTask, NewTask, SamePlace, SameTask, TaskIds
<1>2. \A q \in PageIds : Guarded(q)' => Guarded(q)
  BY DEF Guarded, Good
<1>3. ASSUME NEW t \in TaskIds
      PROVE  /\ Due(t)' = Due(t) /\ Pg(t)' = Pg(t) /\ Pg(t) \in PageIds \cup {Stage}
             /\ tasks'[t].kind = tasks[t].kind /\ (Guarded(Pg(t))' => Guarded(Pg(t)))
             /\ Due(t) \in Nat
  <2>1. Pg(t) \in PageIds \cup {Stage} /\ Due(t) \in Nat BY DEF Facts
  <2>2. Pg(t)' = Pg(t) BY <1>1 DEF Pg
  <2>3. Guarded(Stage)' = FALSE BY DEF Guarded
  <2> QED BY <1>1, <1>2, <2>1, <2>2, <2>3 DEF Due
<1>4. ASSUME NEW t, t = Id
      PROVE  /\ Due(t)' = Occurs(queue', t) /\ Due(t)' \in 0 .. 1 /\ Pg(t)' = p
             /\ tasks'[t].kind = kind /\ t \notin TaskIds
  BY <1>1, <1>4 DEF Due, Pg, One, Facts
<1>5. LockedInv'
  <2>1. ASSUME NEW t \in TaskIds, Due(t)' > 0, Guarded(Pg(t))'
        PROVE  Live(Pg(t))' /\ pages'[Pg(t)'].lock
    <3>1. Guarded(Pg(t)) /\ Due(t) > 0 /\ Pg(t) \in PageIds /\ Pg(t)' = Pg(t)
      BY <1>3, <2>1 DEF Guarded
    <3>2. Live(Pg(t)) /\ pages[Pg(t)].lock BY <3>1 DEF LockInv, LockedInv
    <3>3. Pg(t) # p BY <3>1
    <3> QED BY <3>1, <3>2, <3>3
  <2>2. ASSUME NEW t, t = Id, Due(t)' > 0, Guarded(Pg(t))'
        PROVE  Live(Pg(t))' /\ pages'[Pg(t)'].lock
    BY <1>4, <2>2
  <2> QED BY <1>1, <2>1, <2>2 DEF LockedInv
<1>6. FanShownInv'
  BY <1>1, <1>3, <1>4 DEF LockInv, FanShownInv
<1>7. ASSUME NEW t \in TaskIds', Guarded(Pg(t))'
      PROVE  Due(t)' <= 1
  <2>1. CASE t \in TaskIds
    BY <1>3, <1>7, <2>1 DEF LockInv, OnceInv
  <2>2. CASE t = Id
    BY <1>4, <2>2
  <2> QED BY <1>1, <2>1, <2>2
<1>8. ASSUME NEW t \in TaskIds', NEW u \in TaskIds', t # u, Due(t)' > 0, Due(u)' > 0, Guarded(Pg(t))'
      PROVE  Pg(t)' # Pg(u)'
  <2>1. CASE t \in TaskIds /\ u \in TaskIds
    BY <1>3, <1>8, <2>1 DEF LockInv, OnceInv
  <2>2. CASE t \in TaskIds /\ u = Id
    BY <1>3, <1>4, <1>8, <2>2
  <2>3. CASE u \in TaskIds /\ t = Id
    <3>1. SUFFICES ASSUME Pg(u)' = p PROVE FALSE BY <1>4, <2>3
    <3>2. Guarded(Pg(u))' BY <1>4, <1>8, <2>3, <3>1 DEF Guarded, Good
    <3> QED BY <1>3, <1>8, <2>3, <3>1, <3>2
  <2> QED BY <1>1, <1>8, <2>1, <2>2, <2>3
<1>9. OnceInv' BY <1>7, <1>8 DEF OnceInv
<1> QED BY <1>5, <1>6, <1>9

\* No new task: those that wait do so for pages that stay as they were.
LEMMA LockOfSame ==
    ASSUME Facts, LockInv, TaskIds' = TaskIds, PageIds \subseteq PageIds',
           \A t \in TaskIds : SamePlace(t),
           \A q \in PageIds : pages'[q].type = pages[q].type,
           \A t \in TaskIds : DueNext(t) \in Nat /\ DueNext(t) <= Due(t),
           trouble \subseteq trouble',
           \A t \in TaskIds : DueNext(t) > 0 /\ Guarded(Pg(t)) => Live(Pg(t))' /\ pages'[Pg(t)].lock,
           \A t \in TaskIds : DueNext(t) > 0 /\ tasks[t].kind = "fan" => Pg(t) = history'
    PROVE  LockedInv' /\ FanShownInv' /\ OnceInv'
<1>1. ASSUME NEW t \in TaskIds
      PROVE  /\ Due(t)' = DueNext(t) /\ Pg(t)' = Pg(t) /\ tasks'[t].kind = tasks[t].kind
             /\ Pg(t) \in PageIds \cup {Stage}
             /\ Guarded(Pg(t))' => Guarded(Pg(t))
             /\ Due(t) \in Nat /\ DueNext(t) \in Nat /\ DueNext(t) <= Due(t)
  <2>1. Pg(t) \in PageIds \cup {Stage} /\ Due(t) \in Nat BY DEF Facts
  <2>2. Pg(t)' = Pg(t) /\ tasks'[t].kind = tasks[t].kind BY DEF Pg, SamePlace, SameTask
  <2> QED BY <2>1, <2>2 DEF Due, DueNext, Guarded, Good
<1>2. LockedInv' BY <1>1 DEF LockedInv
<1>3. FanShownInv' BY <1>1 DEF FanShownInv
<1>4. OnceInv' BY <1>1 DEF OnceInv, LockInv
<1> QED BY <1>2, <1>3, <1>4

\* A locked page that is shown is protected.
LEMMA LoadUnlocked ==
    ASSUME Base, LockInv, load # NULL, NEW t \in TaskIds, Due(t) > 0, Guarded(Pg(t))
    PROVE  Pg(t) # history /\ Pg(t) = Made /\ Loading
<1>1. Live(Pg(t)) /\ pages[Pg(t)].lock BY DEF LockInv, LockedInv
<1>2. Facts /\ ~Protected BY BaseFacts DEF Base, LoadInv
<1>3. Pg(t) \in PageIds BY <1>2 DEF Facts
<1>4. Pg(t) # history
  BY <1>1, <1>2, <1>3 DEF Protected, HasLockStatus, Guarded, Facts, Numbers
<1> QED BY <1>1, <1>4 DEF Live

LEMMA LockStep ==
    ASSUME Base, LockInv, Steps, Facts'
    PROVE  LockedInv' /\ FanShownInv' /\ OnceInv'
<1>1. Facts BY BaseFacts
<1>2. /\ \A t \in TaskIds : Due(t) \in Nat /\ Occurs(queue, t) \in Nat
      /\ LockedInv /\ FanShownInv
  BY <1>1 DEF Facts, LockInv
<1>3. CASE Asks
  <2>1. PICK request \in Lists, page \in Int, kept \in {Id, pages[history].task}, given \in 0 .. 1 :
            Turns(request, page, kept, given, 1 + One(kept = Id))
    BY <1>3, AsksTurn DEF TurnsSome
  <2> DEFINE new == NewTask("list", history, request, 1 + One(kept = Id))
             f == pages[history]
  <2>2. history \in PageIds /\ f.type = "Frame" /\ PageIds' = PageIds /\ ~f.lock
    BY <2>1, ShownAlive DEF Turns, OthersSame, PageIds, Shows
  <2>3. /\ AddsTask(new, f.task, given) /\ OthersSame(history)
        /\ pages'[history].type = "Frame" /\ (request \notin stored => pages'[history].lock)
        /\ history' = history /\ load' = load /\ running' = running /\ load = NULL
    BY <2>1, <2>2 DEF Turns, Asked
  <2>4. trouble \subseteq trouble' BY <1>3 DEF Asks
  <2>5. \/ request \in stored /\ queue' = queue
        \/ request \notin stored /\ \A u : Occurs(queue', u) = Occurs(queue, u) + One(Id = u)
    BY <2>1 DEF Turns, Pushes, Enqueues
  <2>6. /\ \A t \in TaskIds : Occurs(queue', t) = Occurs(queue, t)
        /\ Occurs(queue', Id) \in 0 .. 1 /\ (Occurs(queue', Id) > 0 => request \notin stored)
    BY <1>1, <1>2, <2>5 DEF Facts, One
  <2>7. \A t \in TaskIds : Due(t) > 0 /\ Pg(t) = history => ~Guarded(history)
    BY <1>2, <2>2 DEF LockedInv
  <2>8. Live(history)' /\ (\A q \in PageIds : Live(q) => Live(q)')
    BY <2>3 DEF Live, Loading
  <2> HIDE DEF new, f
  <2>9. AddsTask(NewTask("list", history, request, 1 + One(kept = Id)), f.task, given)
    BY <2>3 DEF new
  <2> QED BY <1>1, <2>2, <2>3, <2>4, <2>6, <2>7, <2>8, <2>9, LockOfNew DEF OthersSame, Facts, f
<1>4. CASE \E kind, request : Posts(kind, request)
  <2>1. PICK kind, request : Posts(kind, request) BY <1>4
  <2>2. history \in PageIds /\ PageIds' = PageIds
        /\ pages'[history].type = pages[history].type
        /\ pages'[history].lock = HasLockStatus(history)
    BY <2>1 DEF Posts, OthersSame, PageIds, Like
  <2>3. /\ AddsTask(NewTask(kind, history, request, 1), NULL, 0) /\ OthersSame(history)
        /\ history' = history /\ load' = load /\ running' = running /\ load = NULL
        /\ trouble' = trouble
    BY <2>1 DEF Posts
  <2>4. \A u : Occurs(queue', u) = Occurs(queue, u) + One(Id = u)
    BY <2>1 DEF Posts, Enqueues
  <2>5. /\ \A t \in TaskIds : Occurs(queue', t) = Occurs(queue, t)
        /\ Occurs(queue', Id) \in 0 .. 1
    BY <1>1, <1>2, <2>4 DEF Facts, One
  <2>6. \A t \in TaskIds : Due(t) > 0 /\ Pg(t) = history => ~Guarded(history)
    BY <1>2, <2>1 DEF LockedInv, Posts, Shows, Guarded
  <2>7. Live(history)' /\ (\A q \in PageIds : Live(q) => Live(q)')
    BY <2>3 DEF Live, Loading
  <2>8. Guarded(history)' => pages'[history].lock
    BY <2>2, <2>3 DEF Guarded, HasLockStatus, Good
  <2> QED BY <1>1, <2>2, <2>3, <2>5, <2>6, <2>7, <2>8, LockOfNew DEF OthersSame, Facts
<1>5. CASE MakesFrame
  <2> PICK p : p = Made + 1 OBVIOUS
  <2>1. PageIds' = PageIds \cup {p} /\ p \notin PageIds /\ Made' = p
    BY <1>1, <1>5 DEF MakesFrame, PageIds, Made, Numbers, Facts
  <2>2. /\ AddsTask(NewTask("list", p, Default, 2), NULL, 0)
        /\ \A q \in PageIds : pages'[q] = pages[q]
        /\ Default \notin stored => pages'[p].lock
        /\ history' = history /\ Goes("data") /\ load.step = "new" /\ running' = running
        /\ trouble' = trouble
    BY <1>5 DEF MakesFrame, Asked, Default
  <2>3. \/ Default \in stored /\ queue' = queue
        \/ Default \notin stored /\ \A u : Occurs(queue', u) = Occurs(queue, u) + One(Id = u)
    BY <1>5 DEF MakesFrame, Pushes, Enqueues, Default
  <2>4. /\ \A t \in TaskIds : Occurs(queue', t) = Occurs(queue, t)
        /\ Occurs(queue', Id) \in 0 .. 1 /\ (Occurs(queue', Id) > 0 => Default \notin stored)
    BY <1>1, <1>2, <2>3 DEF Facts, One
  <2>5. \A t \in TaskIds : Pg(t) # p
    <3>1. p # Stage BY <1>1 DEF Facts
    <3> QED BY <1>1, <2>1, <3>1 DEF Facts
  <2>6. Live(p)' /\ (\A q \in PageIds : Live(q) => Live(q)')
    BY <2>1, <2>2 DEF Live, Loading, Goes
  <2>7. p # Stage BY <1>1 DEF Facts
  <2>8. /\ p \in PageIds' /\ PageIds \subseteq PageIds' /\ Stage \notin PageIds'
        /\ \A q \in PageIds : q # p => pages'[q] = pages[q]
        /\ \A q \in PageIds : pages'[q].type = pages[q].type
        /\ \A t \in TaskIds : Due(t) > 0 /\ Pg(t) = p => ~Guarded(p)
        /\ trouble \subseteq trouble'
        /\ Guarded(p)' /\ Occurs(queue', Id) > 0 => pages'[p].lock
    BY <1>1, <2>1, <2>2, <2>4, <2>5, <2>7 DEF Facts
  <2> QED BY <1>1, <2>2, <2>4, <2>6, <2>8, LockOfNew
<1>6. CASE Fills
  <2>1. /\ Made \in PageIds /\ PageIds' = PageIds /\ Made' = Made
        /\ AddsTask(NewTask("status", Made, NULL, 1), NULL, 0) /\ OthersSame(Made)
        /\ pages'[Made].type = pages[Made].type /\ (status = NULL => pages'[Made].lock)
        /\ history' = history /\ Goes("show") /\ load.step = "data" /\ running' = running
        /\ trouble' = trouble /\ load.type = "InfoPage" /\ load # NULL
    BY <1>6 DEF Fills, OthersSame, PageIds, Made, Like
  <2>2. \/ status # NULL /\ queue' = queue
        \/ status = NULL /\ \A u : Occurs(queue', u) = Occurs(queue, u) + One(Id = u)
    BY <1>6 DEF Fills, Enqueues
  <2>3. /\ \A t \in TaskIds : Occurs(queue', t) = Occurs(queue, t)
        /\ Occurs(queue', Id) \in 0 .. 1 /\ (Occurs(queue', Id) > 0 => status = NULL)
    BY <1>1, <1>2, <2>2 DEF Facts, One
  <2>4. \A t \in TaskIds : Pg(t) # Made
    BY <2>1 DEF LockInv, FreshInv
  <2>5. Live(Made)' /\ (\A q \in PageIds : Live(q) => Live(q)')
    BY <2>1 DEF Live, Loading, Goes
  <2> PICK p : p = Made OBVIOUS
  <2>6. /\ p \in PageIds' /\ PageIds' = PageIds /\ AddsTask(NewTask("status", p, NULL, 1), NULL, 0)
        /\ \A q \in PageIds : q # p => pages'[q] = pages[q]
        /\ \A q \in PageIds : pages'[q].type = pages[q].type
        /\ \A t \in TaskIds : Pg(t) # p
        /\ Live(p)' /\ (Occurs(queue', Id) > 0 => pages'[p].lock)
    BY <2>1, <2>3, <2>4, <2>5 DEF OthersSame
  <2>7. /\ PageIds \subseteq PageIds' /\ Stage \notin PageIds' /\ trouble \subseteq trouble'
        /\ \A t \in TaskIds : Due(t) > 0 /\ Pg(t) = p => ~Guarded(p)
        /\ Guarded(p)' /\ Occurs(queue', Id) > 0 => pages'[p].lock
        /\ \A q \in PageIds : Live(q) => Live(q)'
    BY <1>1, <2>1, <2>5, <2>6 DEF Facts
  <2> QED BY <1>1, <2>1, <2>3, <2>6, <2>7, LockOfNew
<1>7. CASE Restores
  <2>1. /\ Made \in PageIds /\ PageIds' = PageIds /\ TaskIds' = TaskIds /\ Made' = Made
        /\ OthersSame(Made) /\ pages'[Made].type = pages[Made].type /\ pages[Made].type = "Frame"
        /\ Request(table) \notin stored => pages'[Made].lock
        /\ Request(table) \in stored => pages'[Made].lock = pages[Made].lock
        /\ history' = history /\ Goes("show") /\ load.step = "data" /\ running' = running
        /\ trouble' = trouble /\ load.type = "Frame" /\ load # NULL /\ table \in TaskIds
        /\ table # NULL /\ history # Made /\ tasks[table].kind = "list"
        /\ \A t \in TaskIds : tasks'[t].kind = tasks[t].kind
        /\ \A t \in TaskIds : tasks'[t].page = IF t = table THEN Made ELSE tasks[t].page
    BY <1>1, <1>7 DEF Restores, OthersSame, PageIds, TaskIds, Made, Asked, SameTask, Base, KindInv,
                      LoadInv, Loading, Facts, Numbers
  <2>2. /\ \A t \in TaskIds : t # table => Occurs(queue', t) = Occurs(queue, t)
        /\ Request(table) \in stored => queue' = queue
        /\ Request(table) \notin stored => Occurs(queue', table) = Occurs(queue, table) + 1
    BY <1>2, <1>7 DEF Restores, Pushes, Enqueues, One
  <2>3. Pg(table) \in PageIds /\ pages[Pg(table)].type = "Frame"
    BY <1>1, <2>1 DEF Facts
  <2>4. Good => ~pages[Made].lock
    BY <2>1 DEF LockInv, DefaultInv
  <2>5. ASSUME Good
        PROVE  Due(table) = 0 /\ \A t \in TaskIds : Due(t) > 0 => Pg(t) # Made
    <3>1. ASSUME NEW t \in TaskIds, Due(t) > 0, Guarded(Pg(t))
          PROVE  FALSE
      BY <2>1, <2>4, <2>5, <3>1, LoadUnlocked DEF LockInv, LockedInv
    <3>2. Guarded(Pg(table)) /\ Guarded(Made)
      BY <1>1, <2>1, <2>3, <2>5 DEF Guarded, Facts
    <3> QED BY <1>2, <2>1, <3>1, <3>2
  <2>6. \A q \in PageIds : Live(q) => Live(q)'
    BY <2>1 DEF Live, Loading, Goes
  <2>7. ASSUME NEW t \in TaskIds, t # table
        PROVE  /\ Due(t)' = Due(t) /\ Pg(t)' = Pg(t)
               /\ Guarded(Pg(t))' => Guarded(Pg(t))
               /\ Pg(t) \in PageIds \cup {Stage}
    <3>1. Pg(t) \in PageIds \cup {Stage} BY <1>1 DEF Facts
    <3>2. Due(t)' = Due(t) BY <2>1, <2>2, <2>7 DEF Due
    <3>3. Pg(t)' = Pg(t) BY <2>1, <2>7 DEF Pg
    <3>4. \A q \in PageIds : pages'[q].type = pages[q].type BY <2>1 DEF OthersSame
    <3>5. Guarded(Pg(t))' => Guarded(Pg(t))
      BY <2>1, <3>1, <3>3, <3>4 DEF Guarded, Good
    <3> QED BY <3>1, <3>2, <3>3, <3>5
  <2>8. LockedInv'
    <3>1. ASSUME NEW t \in TaskIds, t # table, Due(t)' > 0, Guarded(Pg(t))'
          PROVE  Live(Pg(t))' /\ pages'[Pg(t)'].lock
      <4>1. Guarded(Pg(t)) /\ Due(t) > 0 /\ Pg(t)' = Pg(t) /\ Pg(t) \in PageIds
        BY <2>7, <3>1 DEF Guarded
      <4>2. Live(Pg(t)) /\ pages[Pg(t)].lock BY <4>1, <1>2 DEF LockedInv
      <4>3. Pg(t) # Made
        <5>1. Pg(t) = Made => Good BY <2>1, <4>1 DEF Guarded
        <5> QED BY <2>4, <4>2, <5>1
      <4> QED BY <2>1, <2>6, <4>1, <4>2, <4>3 DEF OthersSame
    <3>2. ASSUME NEW t, t = table, Due(t)' > 0, Guarded(Pg(t))'
          PROVE  Live(Pg(t))' /\ pages'[Pg(t)'].lock
      <4>1. Pg(t)' = Made /\ Due(t)' = Occurs(queue', table) + One(running' = table)
        BY <2>1, <3>2 DEF Pg, Due
      <4>2. Good BY <2>1, <3>2, <4>1 DEF Guarded, Good
      <4>3. Due(table) = 0 /\ Occurs(queue, table) \in Nat /\ (One(running = table)) \in Nat
        BY <1>2, <2>1, <2>5, <4>2 DEF One
      <4>4. Request(table) \notin stored
        BY <2>1, <2>2, <3>2, <4>1, <4>3 DEF Due
      <4>5. Live(Pg(t))' BY <2>1, <4>1 DEF Live, Loading, Goes
      <4> QED BY <2>1, <4>1, <4>4, <4>5
    <3> QED BY <2>1, <3>1, <3>2 DEF LockedInv
  <2>9. FanShownInv'
    <3>1. ASSUME NEW t \in TaskIds, Due(t)' > 0, tasks'[t].kind = "fan"
          PROVE  Pg(t)' = history'
      <4>1. t # table BY <2>1, <3>1
      <4> QED BY <1>2, <2>1, <2>7, <3>1, <4>1 DEF FanShownInv
    <3> QED BY <2>1, <3>1 DEF FanShownInv
  <2>10. OnceInv'
    <3>1. ASSUME NEW t \in TaskIds, Guarded(Pg(t))'
          PROVE  Due(t)' <= 1
      <4>1. CASE t # table BY <2>7, <3>1, <4>1 DEF LockInv, OnceInv
      <4>2. CASE t = table
        <5>1. Good BY <2>1, <3>1, <4>2 DEF Guarded, Good, Pg
        <5>2. Due(table) = 0 BY <2>5, <5>1
        <5>3. Due(t)' = Occurs(queue', table) + One(running = table)
          BY <2>1, <4>2 DEF Due
        <5> QED BY <1>2, <2>1, <2>2, <5>2, <5>3 DEF Due, One
      <4> QED BY <4>1, <4>2
    <3>2. ASSUME NEW t \in TaskIds, NEW u \in TaskIds, t # u, Due(t)' > 0, Due(u)' > 0,
                 Guarded(Pg(t))'
          PROVE  Pg(t)' # Pg(u)'
      <4>1. CASE t # table /\ u # table BY <2>7, <3>2, <4>1 DEF LockInv, OnceInv
      <4>2. CASE t = table
        <5>1. Good /\ Pg(t)' = Made BY <2>1, <3>2, <4>2 DEF Guarded, Good, Pg
        <5>2. u # table BY <3>2, <4>2
        <5> QED BY <2>5, <2>7, <3>2, <5>1, <5>2
      <4>3. CASE u = table
        <5>1. Pg(u)' = Made BY <2>1, <4>3 DEF Pg
        <5>2. Pg(t)' = Made => Good BY <2>1, <3>2 DEF Guarded, Good
        <5>3. t # table BY <3>2, <4>3
        <5> QED BY <2>5, <2>7, <3>2, <5>1, <5>2, <5>3
      <4> QED BY <4>1, <4>2, <4>3
    <3> QED BY <2>1, <3>1, <3>2 DEF OnceInv
  <2> QED BY <2>8, <2>9, <2>10
<1> USE DEF DueNext
<1>8. CASE Replaces
  <2>1. /\ history' = Made /\ load # NULL /\ pages' = pages /\ queue' = queue /\ running' = running
        /\ Len(tasks') = Len(tasks) /\ trouble' = trouble /\ \A t \in TaskIds : SamePlace(t)
    BY <1>8 DEF Replaces
  <2>2. ASSUME NEW t \in TaskIds, Due(t) > 0, Guarded(Pg(t))
        PROVE  Pg(t) = Made /\ pages[Pg(t)].lock
    BY <1>2, <2>1, <2>2, LoadUnlocked DEF LockedInv
  <2>3. ASSUME NEW t \in TaskIds, Due(t) > 0, tasks[t].kind = "fan"
        PROVE  Pg(t) = Made
    <3>1. Guarded(Pg(t)) BY <1>1, <2>3 DEF Facts, Guarded
    <3> QED BY <2>2, <2>3, <3>1
  <2>4. TaskIds' = TaskIds /\ PageIds' = PageIds /\ Made' = Made
    BY <2>1 DEF TaskIds, PageIds, Made
  <2>5. \A t \in TaskIds : DueNext(t) = Due(t) BY <2>1 DEF Due
  <2>6. ASSUME NEW t \in TaskIds, DueNext(t) > 0, Guarded(Pg(t))
        PROVE  Live(Pg(t))' /\ pages'[Pg(t)].lock
    <3>1. Pg(t)' = Pg(t) BY <2>1 DEF SamePlace, Pg
    <3> QED BY <2>1, <2>2, <2>4, <2>5, <2>6, <3>1 DEF Live
  <2>7. ASSUME NEW t \in TaskIds, DueNext(t) > 0, tasks[t].kind = "fan"
        PROVE  Pg(t) = history'
    BY <2>1, <2>3, <2>5, <2>7
  <2>8. \A t \in TaskIds : DueNext(t) \in Nat /\ DueNext(t) <= Due(t)
    BY <1>2, <2>5
  <2> HIDE DEF DueNext
  <2>9. /\ PageIds \subseteq PageIds' /\ trouble \subseteq trouble'
        /\ \A q \in PageIds : pages'[q].type = pages[q].type
    BY <2>1, <2>4
  <2> QED BY <1>1, <2>1, <2>4, <2>6, <2>7, <2>8, <2>9, LockOfSame
<1>9. CASE LetsGo
  <2>1. /\ OthersSame(Page) /\ Len(tasks') = Len(tasks) /\ running \in TaskIds /\ running' = NULL
        /\ UNCHANGED <<history, load, queue, trouble>> /\ \A t \in TaskIds : SamePlace(t)
        /\ \A q \in PageIds : pages'[q].type = pages[q].type
    BY <1>9 DEF LetsGo, OthersSame, Like
  <2>2. \A t \in TaskIds : DueNext(t) = Due(t) - One(t = running) /\ DueNext(t) \in Nat
    BY <1>1, <1>2, <2>1 DEF Due, One, Facts
  <2>3. ASSUME NEW t \in TaskIds, DueNext(t) > 0, Guarded(Pg(t))
        PROVE  Live(Pg(t))' /\ pages'[Pg(t)].lock
    <3>1. Due(t) > 0 /\ Due(t) <= 1 /\ Due(running) > 0
      BY <1>2, <2>1, <2>2, <2>3 DEF LockInv, OnceInv, One, Due
    <3>2. t # running BY <1>2, <2>2, <2>3, <3>1 DEF One
    <3>3. Pg(t) # Page BY <2>1, <2>3, <3>1, <3>2 DEF LockInv, OnceInv, Pg, Page
    <3>4. Pg(t) \in PageIds /\ Live(Pg(t)) /\ pages[Pg(t)].lock
      BY <1>1, <1>2, <2>3, <3>1 DEF Facts, LockedInv
    <3>5. Made' = Made BY <2>1 DEF OthersSame, Made
    <3>6. Pg(t)' = Pg(t) BY <2>1 DEF SamePlace, Pg
    <3>7. Live(Pg(t))' BY <2>1, <3>4, <3>5, <3>6 DEF Live, Loading
    <3> QED BY <2>1, <3>3, <3>4, <3>7 DEF OthersSame
  <2>4. \A t \in TaskIds : DueNext(t) > 0 => Due(t) > 0
    BY <1>2, <2>2 DEF One
  <2>5. \A t \in TaskIds : DueNext(t) \in Nat /\ DueNext(t) <= Due(t)
    BY <1>2, <2>2 DEF One
  <2> HIDE DEF DueNext
  <2>6. TaskIds' = TaskIds /\ PageIds \subseteq PageIds' /\ trouble \subseteq trouble'
    BY <2>1 DEF TaskIds, PageIds, OthersSame
  <2>7. \A t \in TaskIds : DueNext(t) > 0 /\ tasks[t].kind = "fan" => Pg(t) = history'
    BY <1>2, <2>1, <2>4 DEF FanShownInv
  <2> QED BY <1>1, <2>1, <2>3, <2>5, <2>6, <2>7, LockOfSame
<1>10. ASSUME Len(tasks') = Len(tasks), PageIds \subseteq PageIds', \A t \in TaskIds : SamePlace(t),
              \A q \in PageIds : pages'[q].type = pages[q].type /\ pages'[q].lock = pages[q].lock,
              \A t \in TaskIds : DueNext(t) = Due(t), trouble \subseteq trouble', history' = history,
              \A q \in PageIds : Live(q) => Live(q)'
       PROVE  LockedInv' /\ FanShownInv' /\ OnceInv'
  <2>1. ASSUME NEW t \in TaskIds, DueNext(t) > 0, Guarded(Pg(t))
        PROVE  Live(Pg(t))' /\ pages'[Pg(t)].lock
    <3>1. Pg(t) \in PageIds BY <1>1, <2>1 DEF Facts
    <3>2. Due(t) > 0 BY <1>10, <2>1
    <3>3. Live(Pg(t)) /\ pages[Pg(t)].lock BY <1>2, <2>1, <3>2 DEF LockedInv
    <3>4. Pg(t)' = Pg(t) BY <1>10 DEF SamePlace, Pg
    <3> QED BY <1>10, <3>1, <3>3, <3>4
  <2> HIDE DEF DueNext
  <2>2. TaskIds' = TaskIds BY <1>10 DEF TaskIds
  <2>3. \A t \in TaskIds : DueNext(t) > 0 /\ tasks[t].kind = "fan" => Pg(t) = history'
    BY <1>2, <1>10 DEF FanShownInv
  <2>4. \A t \in TaskIds : DueNext(t) \in Nat /\ DueNext(t) <= Due(t)
    BY <1>2, <1>10
  <2> QED BY <1>1, <1>10, <2>1, <2>2, <2>3, <2>4, LockOfSame
<1>11. CASE \/ UNCHANGED <<pages, tasks, queue, running, trouble, history, load>>
            \/ Starts \/ PersonCalled
  <2>1. UNCHANGED <<pages, tasks, queue, running, trouble, history>>
        /\ (load' = load \/ load = NULL)
    BY <1>11 DEF Starts, PersonCalled, Callback
  <2> QED BY <1>10, <2>1 DEF Live, Loading, Made, SamePlace, SameTask, PageIds, Due
<1>12. CASE MakesOther
  <2>1. /\ PageIds \subseteq PageIds' /\ \A q \in PageIds : pages'[q] = pages[q]
        /\ UNCHANGED <<tasks, queue, running, trouble, history>> /\ load.step = "new"
    BY <1>1, <1>12 DEF MakesOther, PageIds, Facts, Made
  <2> QED BY <1>10, <2>1 DEF Live, Loading, SamePlace, SameTask, Due
<1>13. CASE Forgets \/ Leaves
  <2>1. /\ UNCHANGED <<pages, queue, running, trouble, history>> /\ load.step = "data"
        /\ load # NULL /\ Goes("show") /\ Len(tasks') = Len(tasks) /\ \A t \in TaskIds : SamePlace(t)
    BY <1>13 DEF Forgets, Leaves, SamePlace, SameTask
  <2> QED BY <1>10, <2>1 DEF Live, Loading, Made, Goes, PageIds, Due
<1>14. CASE Takes
  <2>1. /\ UNCHANGED <<pages, tasks, trouble, history, load>> /\ running = NULL
        /\ \A t : Occurs(queue, t) = Occurs(queue', t) + One(running' = t)
    BY <1>14 DEF Takes
  <2>2. running' \in TaskIds /\ queue' = queue' BY <1>14 DEF Takes
  <2>3. ASSUME NEW t \in TaskIds
        PROVE  DueNext(t) = Due(t)
    <3>1. Occurs(queue', t) \in Nat
      <4>1. Facts' OBVIOUS
      <4>2. TaskIds' = TaskIds BY <2>1 DEF TaskIds
      <4> QED BY <4>1, <4>2 DEF Facts
    <3>2. t # NULL BY <1>1 DEF Facts
    <3> QED BY <2>1, <3>1, <3>2 DEF Due, One
  <2> QED BY <1>10, <2>1, <2>3 DEF Live, Loading, Made, SamePlace, SameTask, PageIds
<1>15. CASE \E answer \in Answers : Called(answer)
  <2>1. /\ UNCHANGED <<pages, queue, running, history, load>> /\ trouble \subseteq trouble'
        /\ Len(tasks') = Len(tasks) /\ \A t \in TaskIds : SamePlace(t)
    BY <1>15 DEF Called, Failed
  <2> QED BY <1>10, <2>1 DEF Live, Loading, Made, PageIds, Due
<1>16. CASE FrameCalled \/ StatusCalled \/ FanCalled
  <2>1. /\ UNCHANGED <<tasks, queue, running, trouble, history, load>> /\ OthersSame(Page)
        /\ \A q \in PageIds : pages'[q].type = pages[q].type /\ pages'[q].lock = pages[q].lock
    BY <1>16 DEF FrameCalled, StatusCalled, FanCalled, Callback, OthersSame, Loaded, Like
  <2> QED BY <1>10, <2>1 DEF Live, Loading, Made, SamePlace, SameTask, PageIds, OthersSame, Due
<1> QED BY <1>3, <1>4, <1>5, <1>6, <1>7, <1>8, <1>9, <1>11, <1>12, <1>13, <1>14, <1>15, <1>16
        DEF Steps, Predicts, Stays


LEMMA FreshStep ==
    ASSUME Base, LockInv, Steps
    PROVE  FreshInv'
<1>1. Facts BY BaseFacts
<1>2. CASE \/ Starts \/ PersonCalled \/ MakesFrame \/ Restores \/ Forgets \/ Fills \/ Leaves \/ Replaces
  <2>1. load' = NULL \/ load'.type = "Frame" \/ load'.step \in {"new", "show"}
    BY <1>2 DEF Starts, PersonCalled, MakesFrame, Restores, Forgets, Fills, Leaves, Replaces, Goes
  <2> QED BY <2>1 DEF FreshInv
<1>3. CASE MakesOther
  <2>1. tasks' = tasks /\ Made' = Made + 1 BY <1>3 DEF MakesOther, Made
  <2> QED BY <1>1, <2>1 DEF FreshInv, Facts, Pg, TaskIds
<1>4. CASE Asks \/ \E kind, request : Posts(kind, request)
  <2>1. load' = NULL
    BY <1>4, AsksTurn DEF TurnsSome, Turns, Posts
  <2> QED BY <2>1 DEF FreshInv
<1>5. CASE \/ Takes \/ (\E answer \in Answers : Called(answer))
           \/ FrameCalled \/ StatusCalled \/ FanCalled \/ LetsGo \/ Predicts \/ Stays
  <2>1. load' = load /\ Len(tasks') = Len(tasks) /\ Made' = Made
    BY <1>5 DEF Takes, Called, FrameCalled, StatusCalled, FanCalled, Callback, LetsGo, Predicts,
                Stays, OthersSame, Made
  <2>2. \A t \in TaskIds : Pg(t)' = Pg(t)
    BY <1>5 DEF Takes, Called, FrameCalled, StatusCalled, FanCalled, Callback, LetsGo, Predicts,
                Stays, SamePlace, Pg
  <2> QED BY <2>1, <2>2 DEF FreshInv, LockInv, TaskIds
<1> QED BY <1>2, <1>3, <1>4, <1>5 DEF Steps

\* The frames there were still wait for the default list.
LEMMA StillAwaited ==
    ASSUME Facts, DefaultInv, Good, Default \notin stored, TaskIds \subseteq TaskIds',
           \A t \in TaskIds : Awaited(t) /\ tasks[t].kind = "list" /\ Request(t) = Default =>
              Awaited(t)',
           \A t \in TaskIds : SamePlace(t),
           NEW p \in PageIds, pages[p].type = "Frame"
    PROVE  \E t \in TaskIds' : /\ Awaited(t)' /\ tasks'[t].kind = "list"
                               /\ Pg(t)' = p /\ Request(t)' = Default
<1>1. PICK t \in TaskIds : Awaited(t) /\ tasks[t].kind = "list" /\ Pg(t) = p /\ Request(t) = Default
  BY DEF DefaultInv
<1>2. Awaited(t)' BY <1>1
<1>3. tasks'[t].kind = "list" /\ Pg(t)' = p /\ Request(t)' = Default
  BY <1>1 DEF SamePlace, SameTask, Pg, Request, Default, List
<1> QED BY <1>1, <1>2, <1>3

AwaitedInv ==
    Good /\ Default \notin stored =>
        \A p \in PageIds : pages[p].type = "Frame" =>
            \E t \in TaskIds : /\ Awaited(t) /\ tasks[t].kind = "list"
                               /\ Pg(t) = p /\ Request(t) = Default

LEMMA AwaitedStep ==
    ASSUME Base, LockInv, Steps, Facts'
    PROVE  AwaitedInv'
<1>1. Facts /\ DefaultInv BY BaseFacts DEF LockInv
<1> SUFFICES ASSUME Good', Default \notin stored', NEW p \in PageIds', pages'[p].type = "Frame"
             PROVE  \E t \in TaskIds' : /\ Awaited(t)' /\ tasks'[t].kind = "list"
                                        /\ Pg(t)' = p /\ Request(t)' = Default
  BY DEF AwaitedInv, Default, List
<1>2. CASE Asks
  <2>1. PICK request \in Lists, page \in Int, kept \in {Id, pages[history].task}, given \in 0 .. 1 :
            Turns(request, page, kept, given, 1 + One(kept = Id))
    BY <1>2, AsksTurn DEF TurnsSome
  <2>2. Good BY <1>2 DEF Asks, Good
  <2>3. history \in PageIds /\ OthersSame(history) /\ pages'[history].type = pages[history].type
        /\ stored' = stored /\ running' = running /\ stage' = stage
    BY <2>1, ShownAlive DEF Turns, Asked, serverVars
  <2>4. p \in PageIds /\ pages[p].type = "Frame" BY <2>3 DEF OthersSame, PageIds
  <2>5. TaskIds \subseteq TaskIds' /\ \A t \in TaskIds : SamePlace(t)
    BY <1>1, <2>1, AddedIds DEF Turns
  <2>6. \A t \in TaskIds : Occurs(queue, t) > 0 => Occurs(queue', t) > 0
    BY <1>1, <2>1 DEF Turns, Pushes, Enqueues, Facts, One
  <2> QED BY <1>1, <2>2, <2>3, <2>4, <2>5, <2>6, StillAwaited DEF Awaited, Default, List
<1>3. CASE \E kind, request : Posts(kind, request)
  <2>1. PICK kind, request : Posts(kind, request) BY <1>3
  <2>2. /\ OthersSame(history) /\ pages'[history].type = pages[history].type /\ Good
        /\ stored' = stored /\ running' = running /\ stage' = stage
    BY <2>1 DEF Posts, Like, serverVars, Good
  <2>3. p \in PageIds /\ pages[p].type = "Frame" BY <2>2 DEF OthersSame, PageIds
  <2>4. TaskIds \subseteq TaskIds' /\ \A t \in TaskIds : SamePlace(t)
    BY <1>1, <2>1, AddedIds DEF Posts
  <2>5. \A t \in TaskIds : Occurs(queue, t) > 0 => Occurs(queue', t) > 0
    BY <1>1, <2>1 DEF Posts, Enqueues, Facts, One
  <2> QED BY <1>1, <2>2, <2>3, <2>4, <2>5, StillAwaited DEF Awaited, Default, List
<1>4. CASE MakesFrame
  <2>1. /\ stored' = stored /\ running' = running /\ stage' = stage /\ Good
        /\ AddsTask(NewTask("list", Made + 1, Default, 2), NULL, 0) /\ Enqueues(Id)
        /\ \A q \in PageIds : pages'[q] = pages[q]
    BY <1>4 DEF MakesFrame, serverVars, Good, Default, Pushes, List
  <2>2. TaskIds \subseteq TaskIds' /\ Id \in TaskIds' /\ \A t \in TaskIds : SamePlace(t)
    BY <1>1, <2>1, AddedIds
  <2>3. CASE p \in PageIds
    <3>1. \A t \in TaskIds : Occurs(queue, t) > 0 => Occurs(queue', t) > 0
      <4> SUFFICES ASSUME NEW t \in TaskIds, Occurs(queue, t) > 0
                   PROVE  Occurs(queue', t) > 0
        OBVIOUS
      <4>1. Occurs(queue, t) \in Nat
        BY <1>1 DEF Facts
      <4>2. Occurs(queue', t) = Occurs(queue, t) + One(Id = t)
        BY <2>1 DEF Enqueues
      <4> QED
        BY <4>1, <4>2 DEF One
    <3> QED BY <1>1, <2>1, <2>2, <2>3, <3>1, StillAwaited DEF Awaited, Default, List
  <2>4. CASE p \notin PageIds
    <3>1. p = Made + 1
      BY <1>1, <1>4, <2>4 DEF MakesFrame, PageIds, Made, Facts, Numbers
    <3>2. PICK t \in TaskIds' : t = Id BY <2>2
    <3>3. tasks'[t] = NewTask("list", p, Default, 2) /\ Occurs(queue', t) > 0
      BY <1>1, <2>1, <3>1, <3>2 DEF AddsTask, Enqueues, One, Facts
    <3>4. Awaited(t)' /\ tasks'[t].kind = "list" /\ Pg(t)' = p /\ Request(t)' = Default
      BY <3>3 DEF Awaited, Pg, Request, NewTask, Default, List
    <3> QED BY <3>4
  <2> QED BY <2>3, <2>4
<1>5. CASE Fills
  <2>1. /\ OthersSame(Made) /\ pages'[Made].type = pages[Made].type /\ Good
        /\ stored' = stored /\ running' = running /\ stage' = stage
    BY <1>5 DEF Fills, Like, serverVars, Good
  <2>2. p \in PageIds /\ pages[p].type = "Frame" BY <2>1 DEF OthersSame, PageIds
  <2>3. TaskIds \subseteq TaskIds' /\ \A t \in TaskIds : SamePlace(t)
    BY <1>1, <1>5, AddedIds DEF Fills
  <2>4. \A t \in TaskIds : Occurs(queue, t) > 0 => Occurs(queue', t) > 0
    BY <1>1, <1>5 DEF Fills, Enqueues, Facts, One
  <2> QED BY <1>1, <2>1, <2>2, <2>3, <2>4, StillAwaited DEF Awaited, Default, List
<1>6. CASE Restores
  <2>1. table # NULL /\ stored' = stored /\ Good
    BY <1>1, <1>6 DEF Restores, serverVars, Facts, Good
  <2> QED BY <1>1, <2>1 DEF DefaultInv, Default, List
<1>7. CASE MakesOther
  <2>1. /\ stored' = stored /\ running' = running /\ stage' = stage /\ queue' = queue
        /\ Good /\ tasks' = tasks
        /\ \A q \in PageIds : pages'[q] = pages[q]
    BY <1>7 DEF MakesOther, serverVars, Good
  <2>2. p \in PageIds
    <3>1. SUFFICES ASSUME p = Made + 1 PROVE FALSE
      BY <1>1, <1>7 DEF MakesOther, PageIds, Made, Facts, Numbers
    <3> QED BY <1>7, <3>1 DEF MakesOther, NewPage
  <2> QED BY <1>1, <2>1, <2>2, StillAwaited DEF Awaited, SamePlace, SameTask, TaskIds, Default, List
<1>8. CASE \/ Starts \/ Forgets \/ Leaves \/ Replaces \/ PersonCalled \/ Predicts \/ Stays
  <2>1. /\ queue' = queue /\ running' = running /\ (stage' = stage \/ stage # "func")
        /\ pages' = pages /\ Len(tasks') = Len(tasks) /\ stored \subseteq stored' /\ Good
    BY <1>8 DEF Starts, Forgets, Leaves, Replaces, PersonCalled, Callback, Predicts, Stays,
                serverVars, Good
  <2>2. \A t \in TaskIds : SamePlace(t)
    BY <1>8 DEF Starts, Forgets, Leaves, Replaces, PersonCalled, Callback, Predicts, Stays,
                SamePlace, SameTask
  <2>3. TaskIds' = TaskIds /\ PageIds' = PageIds BY <2>1 DEF TaskIds, PageIds
  <2>4. \A t \in TaskIds : Awaited(t) => Awaited(t)' BY <2>1 DEF Awaited
  <2> QED BY <1>1, <2>1, <2>2, <2>3, <2>4, StillAwaited DEF Default, List
<1>9. CASE FrameCalled \/ StatusCalled \/ FanCalled \/ LetsGo
  <2>1. /\ queue' = queue /\ stage # "func" /\ OthersSame(Page) /\ stored' = stored /\ Good
        /\ \A q \in PageIds : pages'[q].type = pages[q].type
        /\ Len(tasks') = Len(tasks) /\ \A t \in TaskIds : SamePlace(t)
    BY <1>9 DEF FrameCalled, StatusCalled, FanCalled, Callback, LetsGo, OthersSame, Loaded, Like,
                serverVars, Good, SamePlace, SameTask
  <2>2. TaskIds' = TaskIds /\ PageIds' = PageIds BY <2>1 DEF TaskIds, PageIds, OthersSame
  <2> QED BY <1>1, <2>1, <2>2, StillAwaited DEF Awaited, Default, List
<1>10. CASE Takes
  <2>1. /\ UNCHANGED <<pages, tasks, trouble, stored>> /\ running = NULL /\ stage' = "func"
        /\ \A t : Occurs(queue, t) = Occurs(queue', t) + One(running' = t)
    BY <1>10 DEF Takes, serverVars
  <2>2. TaskIds' = TaskIds /\ PageIds' = PageIds /\ Good BY <2>1 DEF TaskIds, PageIds, Good
  <2>3. ASSUME NEW t \in TaskIds, Awaited(t)
        PROVE  Awaited(t)'
    <3>1. Occurs(queue, t) > 0 /\ t # NULL BY <1>1, <2>1, <2>3 DEF Awaited, Facts
    <3>2. Occurs(queue', t) \in Nat BY <2>2 DEF Facts
    <3>3. Occurs(queue', t) > 0 \/ running' = t BY <2>1, <3>1, <3>2 DEF One
    <3> QED BY <2>1, <3>3 DEF Awaited
  <2> QED BY <1>1, <2>1, <2>2, <2>3, StillAwaited DEF SamePlace, SameTask, Default, List
<1>11. CASE \E answer \in Answers : Called(answer)
  <2>1. PICK answer \in Answers : Called(answer) BY <1>11
  <2>2. /\ UNCHANGED <<pages, queue>> /\ stored \subseteq stored' /\ Good
        /\ Len(tasks') = Len(tasks) /\ \A t \in TaskIds : SamePlace(t)
    BY <2>1 DEF Called, Failed, Good
  <2>3. TaskIds' = TaskIds /\ PageIds' = PageIds BY <2>2 DEF TaskIds, PageIds
  <2>4. ASSUME NEW t \in TaskIds, Awaited(t), tasks[t].kind = "list", Request(t) = Default
        PROVE  Awaited(t)'
    <3>1. t # running
      <4>1. SUFFICES ASSUME t = running PROVE FALSE OBVIOUS
      <4>2. Kind = "list" /\ Request(running) = Default BY <2>4, <4>1 DEF Kind
      <4>3. answer # "ok" BY <2>1, <4>2 DEF Called, Default, List
      <4>4. trouble' = trouble \cup {answer} BY <2>1, <4>2, <4>3 DEF Called, Failed
      <4> QED BY <4>3, <4>4 DEF Good, Answers
    <3> QED BY <2>2, <2>4, <3>1 DEF Awaited
  <2> QED BY <1>1, <2>2, <2>3, <2>4, StillAwaited DEF Default, List
<1> QED BY <1>2, <1>3, <1>4, <1>5, <1>6, <1>7, <1>8, <1>9, <1>10, <1>11 DEF Steps

LEMMA DefaultStep ==
    ASSUME Base, LockInv, Steps, Facts'
    PROVE  DefaultInv'
<1>1. Facts /\ DefaultInv /\ LoadInv BY BaseFacts DEF LockInv, Base
<1>2. stored \subseteq stored' /\ (Good' => Good)
  <2>1. CASE Asks
    BY <2>1, AsksTurn DEF TurnsSome, Turns, Asks, Good, serverVars
  <2> QED BY <2>1 DEF Steps, Starts, Posts, MakesFrame, MakesOther, Restores, Forgets, Fills, Leaves,
          Replaces, Takes, Called, Failed, FrameCalled, StatusCalled, FanCalled, PersonCalled,
          Callback, LetsGo, Predicts, Stays, serverVars, Good
<1>3. ASSUME Good', table' # NULL
      PROVE  Default \in stored'
  <2>1. CASE table' = table
    BY <1>1, <1>2, <1>3, <2>1 DEF DefaultInv
  <2>2. CASE Replaces /\ Shows("Frame")
    <3>1. SUFFICES ASSUME Default \notin stored PROVE FALSE BY <1>2
    <3>2. load # NULL /\ history \in PageIds /\ pages[history].type = "Frame"
      BY <2>2, ShownAlive DEF Replaces, Shows
    <3>3. PICK t \in TaskIds : Awaited(t) /\ Pg(t) = history
      BY <1>1, <1>2, <1>3, <3>1, <3>2 DEF DefaultInv
    <3>4. Due(t) > 0
      BY <1>1, <3>3 DEF Awaited, Due, One, Facts
    <3>5. Guarded(Pg(t))
      BY <1>1, <1>2, <1>3, <3>2, <3>3 DEF Guarded, Facts
    <3> QED BY <3>2, <3>3, <3>4, <3>5, LoadUnlocked
  <2>3. CASE Asks
    BY <2>1, <2>3, AsksTurn DEF TurnsSome, Turns
  <2> QED BY <1>3, <2>1, <2>2, <2>3
          DEF Steps, Starts, Posts, MakesFrame, MakesOther, Restores, Forgets, Fills, Leaves,
              Replaces, Takes, Called, FrameCalled, StatusCalled, FanCalled, PersonCalled, Callback,
              LetsGo, Predicts, Stays
<1>4. ASSUME Good', table' # NULL, load' # NULL, load'.type = "Frame", load'.step = "data"
      PROVE  ~pages'[Made'].lock
  <2>1. CASE MakesFrame
    <3>1. Default \in stored /\ Made' = Made + 1
      BY <1>1, <1>2, <1>4, <2>1 DEF MakesFrame, DefaultInv, Made
    <3>2. pages'[Made + 1].lock = NewPage("Frame").lock
      BY <2>1, <3>1 DEF MakesFrame, Asked, Default
    <3> QED BY <3>1, <3>2 DEF NewPage
  <2>2. CASE \/ Takes \/ (\E answer \in Answers : Called(answer))
             \/ FrameCalled \/ StatusCalled \/ FanCalled \/ LetsGo \/ Predicts \/ Stays
    <3>1. load' = load /\ Made' = Made /\ table' = table
      BY <2>2 DEF Takes, Called, FrameCalled, StatusCalled, FanCalled, Callback, LetsGo, Predicts,
                  Stays, OthersSame, Made
    <3>2. pages'[Made].lock = pages[Made].lock \/ ~pages'[Made].lock
      <4>1. Made \in PageIds BY <1>1, <1>4, <3>1 DEF Facts, Loading
      <4>2. CASE LetsGo
        BY <4>1, <4>2 DEF LetsGo, OthersSame, Like
      <4> QED BY <2>2, <4>1, <4>2 DEF Takes, Called, FrameCalled, StatusCalled, FanCalled, Callback,
                  Predicts, Stays, OthersSame, Loaded, Like
    <3> QED BY <1>1, <1>2, <1>4, <3>1, <3>2 DEF DefaultInv
  <2>3. CASE Asks
    BY <1>4, <2>3, AsksTurn DEF TurnsSome, Turns
  <2> QED BY <1>4, <2>1, <2>2, <2>3
          DEF Steps, Starts, Posts, MakesOther, Restores, Forgets, Fills, Leaves, Replaces,
              PersonCalled, Callback, Goes
<1>5. AwaitedInv' BY AwaitedStep
<1> QED BY <1>3, <1>4, <1>5 DEF DefaultInv, AwaitedInv

LEMMA LockInit ==
    ASSUME Init
    PROVE  LockInv
<1>1. /\ pages = <<>> /\ table = NULL /\ history = NULL /\ running = NULL
      /\ tasks = <<>> \/ tasks = <<NewTask("check", Stage, NULL, 1)>>
      /\ load = NULL \/ load.step = "new"
  BY DEF Init
<1>2. PageIds = {} BY <1>1 DEF PageIds
<1>3. \A t \in TaskIds : Pg(t) = Stage /\ tasks[t].kind = "check" /\ t = 1
  BY <1>1 DEF TaskIds, Pg, NewTask
<1>4. \A t \in TaskIds : ~Guarded(Pg(t))
  BY <1>3 DEF Guarded
<1>5. DefaultInv BY <1>1, <1>2 DEF DefaultInv
<1>6. FreshInv BY <1>1 DEF FreshInv
<1> QED BY <1>3, <1>4, <1>5, <1>6 DEF LockInv, LockedInv, FanShownInv, OnceInv

LEMMA LockHolds == Spec => [](Base /\ LockInv)
<1>1. Init => Base /\ LockInv BY BaseInit, LockInit
<1>2. Base /\ LockInv /\ [Next]_vars /\ Facts' => (Base /\ LockInv)'
  <2> SUFFICES ASSUME Base, LockInv, [Next]_vars, Facts'
               PROVE  Base' /\ LockInv'
    OBVIOUS
  <2>1. Base' /\ Steps BY BaseStep
  <2> QED BY <2>1, LockStep, FreshStep, DefaultStep DEF LockInv
<1>3. Base => Facts BY BaseFacts
<1> QED BY <1>1, <1>2, <1>3, BaseHolds, PTL DEF Spec

\* While no call has failed, no page with a lock-status goes before all it asked for
\* has been answered: the stage does not replace a locked page, a locked page takes
\* no more clicks, and each of them is locked from a push to the unlock.
THEOREM LockSuffices == Spec => []LockProtects
<1>1. ASSUME Base, LockInv
      PROVE  LockProtects
  <2> SUFFICES ASSUME Good, NEW t \in Pending, HasLockStatus(tasks[t].page)
               PROVE  tasks[t].page \notin freed
    BY DEF LockProtects, Good
  <2>1. Facts /\ LoadInv /\ queue \in Seq(TaskIds) BY <1>1, BaseFacts, TypeSplit DEF Base
  <2>2. t \in TaskIds /\ Due(t) > 0
    <3>1. CASE \E i \in 1 .. Len(queue) : queue[i] = t
      <4>1. t \in TaskIds /\ Occurs(queue, t) > 0 BY <2>1, <3>1, OccursNat
      <4> QED BY <2>1, <4>1 DEF Due, One, Facts
    <3>2. CASE t \in {running} \ {NULL}
      <4>1. t \in TaskIds /\ running = t BY <2>1, <3>2 DEF Facts
      <4> QED BY <2>1, <4>1 DEF Due, One, Facts
    <3> QED BY <3>1, <3>2 DEF Pending
  <2>3. Guarded(Pg(t)) BY DEF HasLockStatus, Guarded, Pg
  <2>4. Live(Pg(t)) BY <1>1, <2>2, <2>3 DEF LockInv, LockedInv
  <2> QED BY <2>1, <2>4 DEF Live, LoadInv, Pg
<1> QED BY <1>1, LockHolds, PTL

-----------------------------------------------------------------------------
(***************************************************************************)
(* The fan button.  As long as no answer is lost, what an info page says of *)
(* the user's being a fan is so at the server, but for the time between a   *)
(* success and its callback, when the page is locked.                       *)
(***************************************************************************)

Kept == "lost" \notin trouble
Agrees(f) == f \in {"IS_FAN", "NOT_FAN"} => isFan # NULL /\ (f = "IS_FAN" <=> isFan = TRUE)
FanTurned(p) ==
    running # NULL /\ stage = "callback" /\ result = "ok" /\ tasks[running].kind = "fan"
    /\ Pg(running) = p
FanDue(t) == Due(t) > 0 /\ tasks[t].kind = "fan" /\ (t = running => stage # "unlock")

FanStatusInv == Kept /\ status # NULL => Agrees(status)

FanPageInv ==
    Kept => \A p \in PageIds :
        Live(p) /\ pages[p].type = "InfoPage" /\ ~FanTurned(p) => Agrees(pages[p].fan)

FanAskedInv ==
    Kept => \A t \in TaskIds :
        FanDue(t) => (Request(t) = "add" <=> pages[Pg(t)].fan = "NOT_FAN")

FanDoneInv ==
    Kept => \A t \in TaskIds :
        running = t /\ stage = "callback" /\ result = "ok" /\ tasks[t].kind = "fan" =>
            isFan # NULL /\ (isFan = TRUE <=> Request(t) = "add")

FanInv == FanStatusInv /\ FanPageInv /\ FanAskedInv /\ FanDoneInv

\* Only the calls of the worker bring an answer or carry something out.
LEMMA OnlyCalls ==
    ASSUME Base, Steps, ~\E answer \in Answers : Called(answer)
    PROVE  status' = status /\ isFan' = isFan
<1>1. CASE Asks
  BY <1>1, AsksTurn DEF TurnsSome, Turns, serverVars
<1> QED BY <1>1 DEF Steps, Starts, Posts, MakesFrame, MakesOther, Restores, Forgets, Fills, Leaves,
          Replaces, Takes, FrameCalled, StatusCalled, FanCalled, PersonCalled, Callback, LetsGo,
          Predicts, Stays, serverVars

LEMMA KeptStep ==
    ASSUME Base, Steps, Kept'
    PROVE  Kept
<1>1. trouble \subseteq trouble'
  BY DEF Steps, Asks, Starts, Posts, MakesFrame, MakesOther, Restores, Forgets, Fills, Leaves,
         Replaces, Takes, Called, Failed, FrameCalled, StatusCalled, FanCalled, PersonCalled,
         Callback, LetsGo, Predicts, Stays
<1> QED BY <1>1 DEF Kept

LEMMA CalledIs ==
    ASSUME Base, NEW answer \in Answers, Called(answer)
    PROVE  /\ TaskIds' = TaskIds /\ PageIds' = PageIds /\ running \in TaskIds
           /\ \A t \in TaskIds : SamePlace(t) /\ Pg(t)' = Pg(t) /\ Request(t)' = Request(t)
                                 /\ tasks'[t].kind = tasks[t].kind
           /\ Kind = tasks[running].kind /\ (Kind # "fan" => Kind \in {"list", "status", "check", "register"})
<1>1. Facts BY BaseFacts
<1>2. /\ TaskIds' = TaskIds /\ PageIds' = PageIds /\ running \in TaskIds
      /\ \A t \in TaskIds : SamePlace(t)
  BY DEF Called, TaskIds, PageIds
<1>3. Kind = tasks[running].kind BY DEF Kind
<1>4. Kind \in {"list", "fan", "check", "register", "status"}
  <2>1. tasks[running] \in TaskObjs(Len(pages)) /\ Len(pages) \in Nat
    BY <1>1, <1>2 DEF Facts, Numbers
  <2> QED BY <1>3, <2>1, TaskFacts
<1> QED BY <1>2, <1>3, <1>4 DEF SamePlace, SameTask, Pg, Request

LEMMA FanStatusStep ==
    ASSUME Base, FanInv, Steps
    PROVE  FanStatusInv'
<1> SUFFICES ASSUME Kept', status' # NULL
             PROVE  Agrees(status)'
  BY DEF FanStatusInv
<1>1. Kept BY KeptStep
<1>2. CASE ~\E answer \in Answers : Called(answer)
  BY <1>1, <1>2, OnlyCalls DEF FanInv, FanStatusInv, Agrees
<1>3. CASE \E answer \in Answers : Called(answer)
  <2>1. PICK answer \in Answers : Called(answer) BY <1>3
  <2>2. CASE status' = status /\ isFan' = isFan
    BY <1>1, <2>2 DEF FanInv, FanStatusInv, Agrees
  <2>3. CASE /\ isFan' \in IF isFan = NULL THEN BOOLEAN ELSE {isFan}
             /\ status' = IF isFan' THEN "IS_FAN" ELSE "NOT_FAN"
    <3>1. isFan' \in BOOLEAN
      <4>1. isFan \in BOOLEAN \cup {NULL} BY TypeSplit DEF Base, Small
      <4> QED BY <2>3, <4>1
    <3> QED BY <2>3, <3>1, NullAssumption DEF Agrees
  <2>4. CASE Kind = "fan" /\ answer = "ok"
    BY <2>1, <2>4 DEF Called
  <2>5. answer # "lost" \/ Kind # "fan"
    BY <2>1 DEF Called, Failed, Kept
  <2> QED BY <2>1, <2>2, <2>3, <2>4, <2>5 DEF Called, Answers
<1> QED BY <1>2, <1>3

LEMMA FanDoneStep ==
    ASSUME Base, FanInv, Steps, Facts'
    PROVE  FanDoneInv'
<1> SUFFICES ASSUME Kept', NEW t \in TaskIds', running' = t, stage' = "callback", result' = "ok",
                    tasks'[t].kind = "fan"
             PROVE  isFan' # NULL /\ (isFan' = TRUE <=> Request(t)' = "add")
  BY DEF FanDoneInv
<1>1. Kept /\ Facts BY KeptStep, BaseFacts
<1>2. CASE \E answer \in Answers : Called(answer)
  <2>1. PICK answer \in Answers : Called(answer) BY <1>2
  <2>2. t = running /\ answer = "ok" BY <2>1 DEF Called
  <2>3. Kind = "fan" /\ Request(t)' = Request(running)
    BY <2>1, <2>2, CalledIs
  <2>4. isFan' = (Request(running) = "add")
    BY <2>1, <2>2, <2>3 DEF Called
  <2> QED BY <2>3, <2>4, NullAssumption
<1>3. CASE ~\E answer \in Answers : Called(answer)
  <2>1. stage = "callback" /\ running' = running /\ result' = result
    <3>1. CASE Asks BY <3>1, AsksTurn DEF TurnsSome, Turns
    <3> QED BY <1>3, <3>1 DEF Steps, Starts, Posts, MakesFrame, MakesOther, Restores, Forgets, Fills,
            Leaves, Replaces, Takes, FrameCalled, StatusCalled, FanCalled, PersonCalled, Callback,
            LetsGo, Predicts, Stays
  <2>2. t \in TaskIds
    <3>1. t # NULL BY DEF Facts
    <3> QED BY <1>1, <2>1, <3>1 DEF Facts
  <2>3. SameTask(t)
    <3>1. CASE Asks BY <2>2, <3>1, AsksTurn DEF TurnsSome, Turns, AddsTask, SamePlace
    <3> QED BY <1>3, <2>2, <3>1 DEF Steps, Starts, Posts, MakesFrame, MakesOther, Restores, Forgets,
            Fills, Leaves, Replaces, Takes, FrameCalled, StatusCalled, FanCalled, PersonCalled,
            Callback, LetsGo, Predicts, Stays, AddsTask, SamePlace, SameTask
  <2>4. status' = status /\ isFan' = isFan BY <1>3, OnlyCalls
  <2> QED BY <1>1, <2>1, <2>2, <2>3, <2>4 DEF FanInv, FanDoneInv, SameTask, Request
<1> QED BY <1>2, <1>3

LEMMA FanAskedStep ==
    ASSUME Base, LockInv, FanInv, Steps, Facts'
    PROVE  FanAskedInv'
<1> SUFFICES ASSUME Kept', NEW t \in TaskIds', FanDue(t)'
             PROVE  Request(t)' = "add" <=> pages'[Pg(t)'].fan = "NOT_FAN"
  BY DEF FanAskedInv
<1>1. Kept /\ Facts /\ Facts' BY KeptStep, BaseFacts
<1>2. ASSUME t \in TaskIds, FanDue(t), SamePlace(t), pages'[Pg(t)].fan = pages[Pg(t)].fan
      PROVE  Request(t)' = "add" <=> pages'[Pg(t)'].fan = "NOT_FAN"
  <2>1. Request(t)' = Request(t) /\ Pg(t)' = Pg(t)
    BY <1>2 DEF SamePlace, SameTask, Request, Pg
  <2> QED BY <1>1, <1>2, <2>1 DEF FanInv, FanAskedInv
<1>3. ASSUME t \in TaskIds, tasks[t].kind = "fan"
      PROVE  Pg(t) \in PageIds /\ pages[Pg(t)].type = "InfoPage" /\ Guarded(Pg(t))
  BY <1>1, <1>3 DEF Facts, Guarded
<1>4. ASSUME NEW new, NEW old, NEW given, AddsTask(new, old, given), t \in TaskIds,
             running' = running, stage' = stage,
             \A u \in TaskIds : Occurs(queue', u) = Occurs(queue, u)
      PROVE  SamePlace(t) /\ FanDue(t)
  BY <1>4 DEF AddsTask, SamePlace, SameTask, FanDue, Due
<1>5. ASSUME NEW new, NEW old, NEW given, AddsTask(new, old, given)
      PROVE  t \in TaskIds \/ (t = Id /\ tasks'[t] = new)
  BY <1>1, <1>5, AddedIds
<1>6. \A u \in TaskIds : Id # u BY <1>1 DEF Facts
<1>7. CASE Asks
  <2>1. PICK request \in Lists, page \in Int, kept \in {Id, pages[history].task}, given \in 0 .. 1 :
            Turns(request, page, kept, given, 1 + One(kept = Id))
    BY <1>7, AsksTurn DEF TurnsSome
  <2>2. AddsTask(NewTask("list", history, request, 1 + One(kept = Id)), pages[history].task, given)
        /\ running' = running /\ stage' = stage
    BY <2>1 DEF Turns
  <2>3. t \in TaskIds BY <1>5, <2>2 DEF NewTask, FanDue
  <2>4. \A u \in TaskIds : Occurs(queue', u) = Occurs(queue, u)
    BY <1>1, <1>6, <2>1 DEF Turns, Pushes, Enqueues, One, Facts
  <2>5. SamePlace(t) /\ FanDue(t) BY <1>4, <2>2, <2>3, <2>4
  <2>6. \A q \in PageIds : pages'[q].fan = pages[q].fan
    BY <2>1 DEF Turns, OthersSame, Asked
  <2> QED BY <1>2, <1>3, <2>3, <2>5, <2>6 DEF FanDue
<1>8. CASE \E kind, request : Posts(kind, request)
  <2>1. PICK kind, request : Posts(kind, request) BY <1>8
  <2>2. AddsTask(NewTask(kind, history, request, 1), NULL, 0)
        /\ running' = running /\ stage' = stage
    BY <2>1 DEF Posts
  <2>3. \A q \in PageIds : pages'[q].fan = pages[q].fan
    BY <2>1 DEF Posts, OthersSame, Like
  <2>4. CASE t \in TaskIds
    <3>1. \A u \in TaskIds : Occurs(queue', u) = Occurs(queue, u)
      BY <1>1, <1>6, <2>1 DEF Posts, Enqueues, One, Facts
    <3>2. SamePlace(t) /\ FanDue(t) BY <1>4, <2>2, <2>4, <3>1
    <3> QED BY <1>2, <1>3, <2>3, <2>4, <3>2 DEF FanDue
  <2>5. CASE t = Id /\ tasks'[t] = NewTask(kind, history, request, 1)
    <3>1. kind = "fan" /\ Request(t)' = request /\ Pg(t)' = history
      BY <2>5 DEF FanDue, NewTask, Request, Pg
    <3>2. request = IF pages[history].fan = "NOT_FAN" THEN "add" ELSE "remove"
      BY <2>1, <3>1 DEF Posts
    <3>3. pages'[history].fan = pages[history].fan BY <2>1, <2>3 DEF Posts
    <3> QED BY <3>1, <3>2, <3>3
  <2> QED BY <1>5, <2>2, <2>4, <2>5
<1>9. CASE MakesFrame
  <2>1. AddsTask(NewTask("list", Made + 1, List("default", 0), 2), NULL, 0)
        /\ running' = running /\ stage' = stage /\ \A q \in PageIds : pages'[q] = pages[q]
    BY <1>9 DEF MakesFrame
  <2>2. t \in TaskIds BY <1>5, <2>1 DEF NewTask, FanDue
  <2>3. \A u \in TaskIds : Occurs(queue', u) = Occurs(queue, u)
    BY <1>1, <1>6, <1>9 DEF MakesFrame, Pushes, Enqueues, One, Facts
  <2>4. SamePlace(t) /\ FanDue(t) BY <1>4, <2>1, <2>2, <2>3
  <2> QED BY <1>2, <1>3, <2>1, <2>2, <2>4 DEF FanDue
<1>10. CASE Fills
  <2>1. AddsTask(NewTask("status", Made, NULL, 1), NULL, 0)
        /\ running' = running /\ stage' = stage
    BY <1>10 DEF Fills
  <2>2. t \in TaskIds BY <1>5, <2>1 DEF NewTask, FanDue
  <2>3. \A u \in TaskIds : Occurs(queue', u) = Occurs(queue, u)
    BY <1>1, <1>6, <1>10 DEF Fills, Enqueues, One, Facts
  <2>4. SamePlace(t) /\ FanDue(t) BY <1>4, <2>1, <2>2, <2>3
  <2>5. Pg(t) # Made BY <1>10, <2>2 DEF LockInv, FreshInv, Fills
  <2> QED BY <1>2, <1>3, <1>10, <2>2, <2>4, <2>5 DEF FanDue, Fills, OthersSame
<1>11. CASE Restores
  <2>1. Len(tasks') = Len(tasks) /\ SameTask(t) /\ t \in TaskIds
    BY <1>11 DEF Restores, TaskIds
  <2>2. tasks[t].kind = "fan" /\ t # table
    BY <1>1, <1>11, <2>1 DEF FanDue, SameTask, Base, KindInv, Restores, Facts
  <2>3. SamePlace(t) BY <1>11, <2>1, <2>2 DEF Restores, SamePlace
  <2>4. Occurs(queue', t) = Occurs(queue, t)
    BY <1>1, <1>11, <2>1, <2>2 DEF Restores, Pushes, Enqueues, One, Facts
  <2>5. FanDue(t) BY <1>11, <2>2, <2>4 DEF Restores, FanDue, Due
  <2>6. \A q \in PageIds : pages'[q].fan = pages[q].fan
    BY <1>11 DEF Restores, OthersSame, Asked
  <2> QED BY <1>2, <1>3, <2>1, <2>2, <2>3, <2>5, <2>6
<1>12. CASE \/ Starts \/ MakesOther \/ Forgets \/ Leaves \/ Replaces \/ Predicts \/ Stays
            \/ \E answer \in Answers : Called(answer)
  <2>1. /\ Len(tasks') = Len(tasks) /\ running' = running /\ queue' = queue
        /\ (stage' = stage \/ stage = "func") /\ \A q \in PageIds : pages'[q] = pages[q]
        /\ \A u \in TaskIds : SamePlace(u)
    BY <1>12 DEF Starts, MakesOther, Forgets, Leaves, Replaces, Predicts, Stays, Called, SamePlace,
                 SameTask
  <2>2. t \in TaskIds BY <2>1 DEF TaskIds
  <2>3. FanDue(t) BY <2>1, <2>2 DEF FanDue, Due, SamePlace, SameTask
  <2> QED BY <1>2, <1>3, <2>1, <2>2, <2>3 DEF FanDue
<1>13. CASE Takes
  <2>1. tasks' = tasks /\ pages' = pages /\ running = NULL BY <1>13 DEF Takes
  <2>2. t \in TaskIds /\ t # NULL BY <1>1, <2>1 DEF TaskIds, Facts
  <2>3. Occurs(queue', t) \in Nat /\ Occurs(queue, t) \in Nat
    BY <1>1, <2>2 DEF Facts
  <2>4. Occurs(queue, t) = Occurs(queue', t) + One(running' = t) BY <1>13 DEF Takes
  <2>5. Due(t) > 0 BY <2>1, <2>2, <2>3, <2>4 DEF Due, One, FanDue
  <2>6. FanDue(t) BY <2>1, <2>2, <2>5 DEF FanDue
  <2> QED BY <1>2, <2>1, <2>2, <2>6 DEF SamePlace, SameTask
<1>14. CASE FrameCalled \/ StatusCalled \/ FanCalled \/ PersonCalled
  <2>1. /\ tasks' = tasks /\ running' = running /\ queue' = queue /\ stage = "callback"
        /\ stage' = "unlock" /\ running \in TaskIds
    BY <1>14 DEF FrameCalled, StatusCalled, FanCalled, PersonCalled, Callback
  <2>2. t \in TaskIds /\ t # running /\ FanDue(t) /\ tasks[t].kind = "fan" /\ Due(t) > 0
    BY <2>1 DEF TaskIds, FanDue, Due
  <2>3. Due(running) > 0 BY <1>1, <2>1 DEF Due, One, Facts
  <2>4. Pg(t) # Page
    BY <1>3, <2>1, <2>2, <2>3 DEF LockInv, OnceInv, Pg, Page
  <2>5. pages'[Pg(t)] = pages[Pg(t)]
    BY <1>3, <1>14, <2>2, <2>4 DEF FrameCalled, StatusCalled, FanCalled, PersonCalled, OthersSame
  <2> QED BY <1>2, <2>1, <2>2, <2>5 DEF SamePlace, SameTask
<1>15. CASE LetsGo
  <2>1. /\ Len(tasks') = Len(tasks) /\ running' = NULL /\ queue' = queue /\ stage = "unlock"
        /\ running \in TaskIds /\ \A u \in TaskIds : SamePlace(u)
        /\ \A q \in PageIds : pages'[q].fan = pages[q].fan
    BY <1>15 DEF LetsGo, OthersSame, Like
  <2>2. t \in TaskIds /\ t # NULL /\ tasks[t].kind = "fan" BY <1>1, <2>1 DEF TaskIds, Facts, FanDue, SamePlace, SameTask
  <2>3. Occurs(queue, t) > 0 BY <1>1, <2>1, <2>2 DEF FanDue, Due, One, Facts
  <2>4. t # running /\ Due(t) > 0
    BY <1>1, <1>3, <2>2, <2>3 DEF LockInv, OnceInv, Due, One, Facts
  <2>5. FanDue(t) BY <2>2, <2>4 DEF FanDue
  <2> QED BY <1>2, <1>3, <2>1, <2>2, <2>5
<1> QED BY <1>7, <1>8, <1>9, <1>10, <1>11, <1>12, <1>13, <1>14, <1>15 DEF Steps

LEMMA FanPageStep ==
    ASSUME Base, LockInv, FanInv, Steps, Facts'
    PROVE  FanPageInv'
<1> SUFFICES ASSUME Kept', NEW p \in PageIds', Live(p)', pages'[p].type = "InfoPage", ~FanTurned(p)'
             PROVE  Agrees(pages[p].fan)'
  BY DEF FanPageInv
<1>1. Kept /\ Facts BY KeptStep, BaseFacts
<1>2. ASSUME p \in PageIds, Live(p), pages[p].type = "InfoPage", ~FanTurned(p),
             pages'[p].fan = pages[p].fan, isFan' = isFan
      PROVE  Agrees(pages[p].fan)'
  <2>1. Agrees(pages[p].fan) BY <1>1, <1>2 DEF FanInv, FanPageInv
  <2> QED BY <1>2, <2>1 DEF Agrees
<1>3. ASSUME NEW new, NEW old, NEW given, AddsTask(new, old, given), UNCHANGED <<running, stage, result>>
      PROVE  ~FanTurned(p)
  <2>1. \A t \in TaskIds : SamePlace(t) BY <1>3 DEF AddsTask
  <2> QED BY <1>1, <1>3, <2>1 DEF FanTurned, SamePlace, SameTask, Pg, Facts
<1>4. CASE Asks
  <2>1. PICK request \in Lists, page \in Int, kept \in {Id, pages[history].task}, given \in 0 .. 1 :
            Turns(request, page, kept, given, 1 + One(kept = Id))
    BY <1>4, AsksTurn DEF TurnsSome
  <2>2. /\ \A q \in PageIds : pages'[q].fan = pages[q].fan /\ pages'[q].type = pages[q].type
        /\ Len(pages') = Len(pages) /\ history' = history /\ load' = load /\ isFan' = isFan
    BY <2>1 DEF Turns, OthersSame, Asked, serverVars
  <2>3. p \in PageIds /\ Live(p) BY <2>2 DEF Live, Loading, Made, PageIds
  <2>4. ~FanTurned(p) BY <1>3, <2>1 DEF Turns
  <2> QED BY <1>2, <2>2, <2>3, <2>4
<1>5. CASE \E kind, request : Posts(kind, request)
  <2>1. PICK kind, request : Posts(kind, request) BY <1>5
  <2>2. /\ \A q \in PageIds : pages'[q].fan = pages[q].fan /\ pages'[q].type = pages[q].type
        /\ Len(pages') = Len(pages) /\ history' = history /\ load' = load /\ isFan' = isFan
    BY <2>1 DEF Posts, OthersSame, Like, serverVars
  <2>3. p \in PageIds /\ Live(p) BY <2>2 DEF Live, Loading, Made, PageIds
  <2>4. ~FanTurned(p) BY <1>3, <2>1 DEF Posts
  <2> QED BY <1>2, <2>2, <2>3, <2>4
<1>6. CASE MakesFrame \/ MakesOther
  <2>1. /\ \A q \in PageIds : pages'[q] = pages[q]
        /\ history' = history /\ Made' = Made + 1 /\ isFan' = isFan
    BY <1>6 DEF MakesFrame, MakesOther, serverVars, Made
  <2>2. CASE p = Made + 1
    <3>1. pages'[p].fan = "FAN_NOT_DEFINED"
      <4>1. CASE MakesFrame
        <5>1. pages'[p].fan = NewPage("Frame").fan BY <2>2, <4>1 DEF MakesFrame, Asked
        <5> QED BY <5>1 DEF NewPage
      <4>2. CASE MakesOther BY <2>2, <4>2 DEF MakesOther, NewPage
      <4> QED BY <1>6, <4>1, <4>2
    <3> QED BY <3>1 DEF Agrees
  <2>3. CASE p # Made + 1
    <3>1. p = history BY <2>1, <2>3 DEF Live
    <3>2. p \in PageIds BY <1>1, <2>1, <2>3 DEF PageIds, Made, Facts, Numbers
    <3>3. ~FanTurned(p)
      <4>1. CASE MakesFrame BY <1>3, <4>1 DEF MakesFrame
      <4>2. CASE MakesOther BY <4>2 DEF MakesOther, FanTurned, Pg
      <4> QED BY <1>6, <4>1, <4>2
    <3> QED BY <1>2, <2>1, <3>1, <3>2, <3>3 DEF Live
  <2> QED BY <2>2, <2>3
<1>7. CASE Fills
  <2>1. /\ OthersSame(Made) /\ Made' = Made /\ history' = history /\ isFan' = isFan
        /\ pages'[Made].type = pages[Made].type /\ Loading /\ Made \in PageIds
        /\ pages'[Made].fan = IF status # NULL THEN status ELSE pages[Made].fan
    BY <1>7 DEF Fills, Like, serverVars, OthersSame, Made, Loading
  <2>2. p \in PageIds /\ Live(p) /\ pages[p].type = "InfoPage"
    BY <2>1 DEF Live, OthersSame, PageIds
  <2>3. ~FanTurned(p) BY <1>3, <1>7 DEF Fills
  <2>4. CASE p = Made /\ status # NULL
    <3>1. Agrees(status) BY <1>1, <2>4 DEF FanInv, FanStatusInv
    <3> QED BY <2>1, <2>4, <3>1 DEF Agrees
  <2>5. CASE ~(p = Made /\ status # NULL)
    <3>1. pages'[p].fan = pages[p].fan BY <2>1, <2>2, <2>5 DEF OthersSame
    <3> QED BY <1>2, <2>1, <2>2, <2>3, <3>1
  <2> QED BY <2>4, <2>5
<1>8. CASE Restores
  <2>1. /\ \A q \in PageIds : pages'[q].fan = pages[q].fan /\ pages'[q].type = pages[q].type
        /\ Len(pages') = Len(pages) /\ history' = history /\ Loading /\ isFan' = isFan
        /\ running' = running /\ result' = result /\ stage' = stage
        /\ Len(tasks') = Len(tasks)
    BY <1>8 DEF Restores, OthersSame, Asked, serverVars, Loading
  <2>2. p \in PageIds /\ Live(p) BY <2>1 DEF Live, Made, PageIds
  <2>3. ~FanTurned(p)
    <3>1. SUFFICES ASSUME FanTurned(p) PROVE FALSE OBVIOUS
    <3>2. running \in TaskIds /\ tasks[running].kind = "fan" /\ running # table
      BY <1>1, <1>8, <3>1 DEF FanTurned, Facts, Base, KindInv, Restores
    <3>3. SamePlace(running) BY <1>8, <3>2 DEF Restores, SamePlace
    <3> QED BY <2>1, <3>1, <3>3 DEF FanTurned, Pg, SamePlace, SameTask
  <2> QED BY <1>2, <2>1, <2>2, <2>3
<1>9. CASE \/ Starts \/ Forgets \/ Leaves \/ Replaces \/ Predicts \/ Stays
  <2>1. /\ pages' = pages /\ isFan' = isFan /\ UNCHANGED <<running, stage, result>>
        /\ \A t \in TaskIds : SamePlace(t)
    BY <1>9 DEF Starts, Forgets, Leaves, Replaces, Predicts, Stays, SamePlace, SameTask, serverVars
  <2>2. Made' = Made /\ PageIds' = PageIds BY <2>1 DEF Made, PageIds
  <2>3. Live(p)
    BY <1>9, <2>2 DEF Starts, Forgets, Leaves, Replaces, Predicts, Stays, Live, Loading, Goes
  <2>4. ~FanTurned(p) BY <1>1, <2>1 DEF FanTurned, SamePlace, SameTask, Pg, Facts
  <2> QED BY <1>2, <2>1, <2>2, <2>3, <2>4
<1>10. CASE Takes
  <2>1. /\ pages' = pages /\ isFan' = isFan /\ history' = history /\ load' = load /\ running = NULL
    BY <1>10 DEF Takes, serverVars
  <2>2. p \in PageIds /\ Live(p) /\ ~FanTurned(p)
    BY <2>1 DEF Live, Loading, Made, PageIds, FanTurned
  <2> QED BY <1>2, <2>1, <2>2
<1>11. CASE \E answer \in Answers : Called(answer)
  <2>1. PICK answer \in Answers : Called(answer) BY <1>11
  <2>2. /\ pages' = pages /\ history' = history /\ load' = load /\ stage = "func"
        /\ stage' = "callback" /\ result' = answer /\ running' = running
    BY <2>1 DEF Called
  <2>3. p \in PageIds /\ Live(p) /\ ~FanTurned(p)
    BY <2>2 DEF Live, Loading, Made, PageIds, FanTurned
  <2>4. Agrees(pages[p].fan) BY <1>1, <2>2, <2>3 DEF FanInv, FanPageInv
  <2>5. CASE isFan' = isFan BY <1>2, <2>2, <2>3, <2>5
  <2>6. CASE isFan' \in IF isFan = NULL THEN BOOLEAN ELSE {isFan}
    BY <2>2, <2>4, <2>6 DEF Agrees
  <2>7. CASE Kind = "fan" /\ answer # "refused"
    <3>1. answer = "ok"
      <4>1. answer = "lost" => "lost" \in trouble' BY <2>1, <2>7 DEF Called, Failed
      <4> QED BY <2>7, <4>1 DEF Answers, Kept
    <3>2. running \in TaskIds /\ Kind = tasks[running].kind /\ Pg(running)' = Pg(running)
          /\ tasks'[running].kind = tasks[running].kind
      BY <2>1, <2>2, CalledIs DEF Pg
    <3>3. Pg(running) # p
      BY <1>1, <2>2, <2>7, <3>1, <3>2 DEF FanTurned, Facts
    <3>4. Due(running) > 0 BY <1>1, <3>2 DEF Due, One, Facts
    <3>5. Pg(running) = history
      BY <2>7, <3>2, <3>4 DEF LockInv, FanShownInv
    <3>6. pages[history].type = "InfoPage" /\ history # NULL
      <4>1. tasks[running].kind = "fan" BY <2>7, <3>2
      <4>2. Pg(running) \in PageIds /\ pages[Pg(running)].type = "InfoPage"
        BY <1>1, <3>2, <4>1 DEF Facts
      <4>3. NULL \notin PageIds BY <1>1 DEF Facts, Numbers
      <4> QED BY <3>5, <4>2, <4>3
    <3>7. Loading /\ p = Made BY <2>3, <3>3, <3>5 DEF Live
    <3>8. load.type = "InfoPage" BY <2>2, <3>7 DEF Base, LoadInv
    <3>9. Shows("Frame") BY <3>7, <3>8 DEF Base, LoadInv, Loading
    <3> QED BY <3>6, <3>9 DEF Shows
  <2> QED BY <2>1, <2>5, <2>6, <2>7 DEF Called
<1>12. CASE PersonCalled
  <2>1. /\ pages' = pages /\ isFan' = isFan /\ history' = history
        /\ (load' = NULL \/ load'.step = "new") /\ Kind \in {"check", "register"}
    BY <1>12 DEF PersonCalled, Callback, serverVars
  <2>2. p \in PageIds /\ Live(p) /\ ~FanTurned(p)
    BY <2>1 DEF Live, Loading, PageIds, FanTurned, Kind
  <2> QED BY <1>2, <2>1, <2>2
<1>13. CASE FrameCalled \/ StatusCalled \/ FanCalled
  <2>1. /\ history' = history /\ load' = load /\ OthersSame(Page) /\ Page \in PageIds
        /\ UNCHANGED <<isFan, status, tasks>> /\ stage = "callback" /\ running \in TaskIds
        /\ \A q \in PageIds : pages'[q].type = pages[q].type
    BY <1>13 DEF FrameCalled, StatusCalled, FanCalled, Callback, OthersSame, Loaded, Like, serverVars
  <2>2. p \in PageIds /\ Live(p) /\ pages[p].type = "InfoPage"
    BY <2>1 DEF Live, Loading, Made, PageIds, OthersSame
  <2>3. CASE p # Page
    <3>1. ~FanTurned(p) BY <2>3 DEF FanTurned, Pg, Page
    <3> QED BY <1>2, <2>1, <2>2, <2>3, <3>1 DEF OthersSame
  <2>4. CASE p = Page /\ (FrameCalled \/ (FanCalled /\ result # "ok"))
    <3>1. ~FanTurned(p) BY <2>4 DEF FanTurned, FrameCalled, Kind
    <3>2. pages'[p].fan = pages[p].fan
      BY <2>4 DEF FrameCalled, FanCalled, Loaded, Like
    <3> QED BY <1>2, <2>1, <2>2, <3>1, <3>2
  <2>5. CASE p = Page /\ StatusCalled
    <3>1. CASE result = "ok"
      <4>1. pages'[p].fan = status /\ status # NULL
        BY <2>1, <2>5, <3>1 DEF StatusCalled, Like, Base, AnswerInv
      <4>2. Agrees(status) BY <1>1, <4>1 DEF FanInv, FanStatusInv
      <4> QED BY <2>1, <4>1, <4>2 DEF Agrees
    <3>2. CASE result # "ok"
      <4>1. pages'[p].fan = "FAN_ERROR" BY <2>5, <3>2 DEF StatusCalled, Like
      <4> QED BY <4>1 DEF Agrees
    <3> QED BY <3>1, <3>2
  <2>6. CASE p = Page /\ FanCalled /\ result = "ok"
    <3>1. tasks[running].kind = "fan" /\ Pg(running) = p /\ Due(running) > 0
      BY <1>1, <2>1, <2>6 DEF FanCalled, Kind, Pg, Page, Due, One, Facts
    <3>2. isFan # NULL /\ (isFan = TRUE <=> Request(running) = "add")
      BY <1>1, <2>1, <2>6, <3>1 DEF FanInv, FanDoneInv
    <3>3. Request(running) = "add" <=> pages[p].fan = "NOT_FAN"
      BY <1>1, <2>1, <3>1 DEF FanInv, FanAskedInv, FanDue
    <3>4. pages'[p].fan = IF pages[p].fan = "NOT_FAN" THEN "IS_FAN" ELSE "NOT_FAN"
      BY <2>6 DEF FanCalled, Like
    <3> QED BY <2>1, <3>2, <3>3, <3>4 DEF Agrees
  <2> QED BY <1>13, <2>3, <2>4, <2>5, <2>6
<1>14. CASE LetsGo
  <2>1. /\ history' = history /\ load' = load /\ OthersSame(Page) /\ isFan' = isFan
        /\ stage = "unlock"
        /\ \A q \in PageIds : pages'[q].type = pages[q].type /\ pages'[q].fan = pages[q].fan
    BY <1>14 DEF LetsGo, OthersSame, Like, serverVars
  <2>2. p \in PageIds /\ Live(p) /\ ~FanTurned(p)
    BY <2>1 DEF Live, Loading, Made, PageIds, OthersSame, FanTurned
  <2> QED BY <1>2, <2>1, <2>2
<1> QED BY <1>4, <1>5, <1>6, <1>7, <1>8, <1>9, <1>10, <1>11, <1>12, <1>13, <1>14 DEF Steps

LEMMA FanInit ==
    ASSUME Init
    PROVE  FanInv
<1>1. PageIds = {} /\ status = NULL /\ stage = "idle" BY DEF Init, PageIds
<1>2. \A t \in TaskIds : tasks[t].kind = "check" BY DEF Init, TaskIds, NewTask
<1> QED BY <1>1, <1>2
        DEF FanInv, FanStatusInv, FanPageInv, FanAskedInv, FanDoneInv, FanDue

LEMMA FanHolds == Spec => [](Base /\ LockInv /\ FanInv)
<1>1. Init => FanInv BY FanInit
<1>2. Base /\ LockInv /\ FanInv /\ [Next]_vars /\ Facts' => FanInv'
  <2> SUFFICES ASSUME Base, LockInv, FanInv, [Next]_vars, Facts'
               PROVE  FanInv'
    OBVIOUS
  <2>1. Steps BY BaseStep
  <2> QED BY <2>1, FanStatusStep, FanPageStep, FanAskedStep, FanDoneStep DEF FanInv
<1>3. Base => Facts BY BaseFacts
<1> QED BY <1>1, <1>2, <1>3, LockHolds, PTL DEF Spec

\* The fan button of an info page that can be pressed tells the truth, unless an
\* answer was lost: what the page, the table and the server say is turned in three
\* places, and the lock spans them.
THEOREM FanButtonAgrees == Spec => []FanAgrees
<1>1. ASSUME Base, LockInv, FanInv
      PROVE  FanAgrees
  <2> SUFFICES ASSUME Kept, Shows("InfoPage"), ~pages[history].lock,
                      pages[history].fan \in {"IS_FAN", "NOT_FAN"}
               PROVE  pages[history].fan = "IS_FAN" <=> isFan
    BY DEF FanAgrees, Kept
  <2>1. Facts /\ history \in PageIds BY <1>1, BaseFacts DEF Shows, Facts
  <2>2. ~FanTurned(history)
    <3>1. SUFFICES ASSUME FanTurned(history) PROVE FALSE OBVIOUS
    <3>2. running \in TaskIds /\ Due(running) > 0 /\ Pg(running) = history
      BY <2>1, <3>1 DEF FanTurned, Facts, Due, One
    <3>3. Guarded(Pg(running)) BY <2>1, <3>2 DEF Guarded, Shows, Facts
    <3> QED BY <1>1, <3>2, <3>3 DEF LockInv, LockedInv
  <2>3. Agrees(pages[history].fan)
    BY <1>1, <2>1, <2>2 DEF FanInv, FanPageInv, Live, Shows
  <2>4. isFan \in BOOLEAN \cup {NULL} BY <1>1, TypeSplit DEF Base, Small
  <2> QED BY <2>3, <2>4 DEF Agrees
<1> QED BY <1>1, FanHolds, PTL

-----------------------------------------------------------------------------
(***************************************************************************)
(* The arrows.  Without errors or a search, the task a frame keeps is the   *)
(* one whose results it shows, or awaits, and the arrows are those of its   *)
(* request.                                                                 *)
(***************************************************************************)

Fits(p) ==
    LET f == pages[p] IN
    f.prev \/ f.next =>
        /\ f.list = Request(f.task)
        /\ f.prev => f.list.page > 0
        /\ f.next => NextShown(f.list.page, Total[f.list.query])

FitInv ==
    trouble = {} =>
        \A p \in PageIds : pages[p].type = "Frame" /\ ~pages[p].lock => Fits(p)

\* The results that come are those of the task that is kept.
KeptTaskInv ==
    trouble = {} =>
        \A t \in TaskIds : Due(t) > 0 /\ tasks[t].kind = "list" => t = pages[Pg(t)].task

\* A frame that is about to be unlocked has its results.
ReadyInv ==
    trouble = {} =>
        \A t \in TaskIds : running = t /\ tasks[t].kind = "list" =>
            /\ stage = "callback" => result = "ok"
            /\ stage = "unlock" => Fits(Pg(t))

Within(request) ==
    request.page >= 0 /\ request.page * PageSize <= Total[request.query]

WithinInv ==
    trouble = {} => \A t \in TaskIds : tasks[t].kind = "list" => Within(Request(t))

ArrowInv == FitInv /\ KeptTaskInv /\ ReadyInv /\ WithinInv

\* A frame that has had the answer to a request, or waits for it.
LEMMA AskedFits ==
    ASSUME NEW p, NEW f, NEW t, NEW request, Asked(pages'[p], f, t, request, request.page),
           Request(t)' = request, ~pages'[p].lock
    PROVE  Fits(p)'
<1>1. request \in stored BY DEF Asked
<1>2. pages'[p].task = t /\ tasks'[t].request = request BY DEF Asked, Request
<1>3. CASE Total[request.query] > 0
  <2>1. /\ pages'[p].list = request /\ pages'[p].prev = (request.page > 0)
        /\ pages'[p].next = NextShown(request.page, Total[request.query])
    BY <1>1, <1>3 DEF Asked
  <2> QED BY <1>2, <2>1 DEF Fits, Request, NextShown
<1>4. CASE ~(Total[request.query] > 0)
  <2>1. ~pages'[p].prev /\ ~pages'[p].next BY <1>1, <1>4 DEF Asked
  <2> QED BY <2>1 DEF Fits
<1> QED BY <1>3, <1>4

LEMMA FitsKept ==
    ASSUME Base, NEW p \in PageIds, pages[p].type = "Frame", Fits(p),
           \A t \in TaskIds : SameTask(t),
           pages'[p].list = pages[p].list, pages'[p].task = pages[p].task,
           pages'[p].prev = pages[p].prev, pages'[p].next = pages[p].next
    PROVE  Fits(p)'
<1>1. pages[p].task \in TaskIds BY DEF Base, KindInv
<1>2. tasks'[pages[p].task].request = tasks[pages[p].task].request BY <1>1 DEF SameTask
<1> QED BY <1>2 DEF Fits, Request, NextShown

\* The arrows of a list that fits lead to a page there is, or to the one after
\* a last page that is full.
LEMMA TurnWithin ==
    ASSUME Base, ArrowInv, trouble = {}, Shows("Frame"), ~pages[history].lock,
           NEW request \in Lists, FromShown(request)
    PROVE  Within(request)
<1> DEFINE f == pages[history]
           shown == Request(f.task)
<1>1. history \in PageIds /\ f.type = "Frame" /\ f.task \in TaskIds /\ tasks[f.task].kind = "list"
      /\ shown \in Lists
  BY ShownAlive DEF Shows
<1>2. Fits(history) /\ Within(shown)
  BY <1>1 DEF ArrowInv, FitInv, WithinInv
<1>3. /\ request.page \in Int /\ request.query \in Queries /\ shown.page \in Int
      /\ PageSize \in Nat /\ Total[request.query] \in Nat /\ Total[shown.query] \in Nat
  BY <1>1, SizeAssumption, TotalAssumption DEF Lists
<1>4. CASE request.page = 0
  BY <1>3, <1>4 DEF Within
<1>5. CASE request.page = shown.page - 1 /\ f.prev /\ request.query = shown.query
  <2>1. shown.page > 0 BY <1>2, <1>5 DEF Fits
  <2>2. shown.page * PageSize <= Total[shown.query] BY <1>2 DEF Within
  <2> HIDE DEF f, shown
  <2>3. \A m, n \in Int : (m - 1) * n = m * n - n OBVIOUS
  <2>4. (shown.page - 1) * PageSize = shown.page * PageSize - PageSize
        /\ shown.page * PageSize \in Int
    BY <1>3, <2>3
  <2> QED BY <1>3, <1>5, <2>1, <2>2, <2>4 DEF Within
<1>6. CASE request.page = shown.page + 1 /\ f.next /\ request.query = shown.query
  <2>1. (shown.page + 1) * PageSize <= Total[shown.query]
    BY <1>2, <1>6 DEF Fits, NextShown
  <2>2. shown.page >= 0 BY <1>2 DEF Within
  <2> QED BY <1>3, <1>6, <2>1, <2>2 DEF Within
<1> QED BY <1>4, <1>5, <1>6 DEF FromShown

\* A step of a task, of a page that is no frame, or of the stage.
LEMMA ArrowOfSame ==
    ASSUME Base, ArrowInv, Facts', TaskIds \subseteq TaskIds', PageIds \subseteq PageIds',
           \A t \in TaskIds : SamePlace(t),
           \A p \in PageIds : pages[p].type = "Frame" => pages'[p] = pages[p],
           \A p \in PageIds : pages'[p].type = pages[p].type,
           \A p \in PageIds' \ PageIds : pages'[p].type # "Frame",
           \A t \in TaskIds' \ TaskIds : tasks'[t].kind # "list",
           \A t \in TaskIds : tasks[t].kind = "list" => DueNext(t) <= Due(t) /\ DueNext(t) \in Nat,
           running' = running \/ running' = NULL \/ stage' = "func",
           \/ stage' = stage /\ result' = result
           \/ stage' \in {"idle", "func"}
           \/ stage' = "unlock" /\ Kind # "list",
           trouble \subseteq trouble'
    PROVE  ArrowInv'
<1>1. Facts BY BaseFacts
<1> SUFFICES ASSUME trouble' = {} PROVE ArrowInv' BY DEF ArrowInv, FitInv, KeptTaskInv, ReadyInv, WithinInv
<1>2. trouble = {} OBVIOUS
<1>3. FitInv'
  <2> SUFFICES ASSUME NEW p \in PageIds', pages'[p].type = "Frame", ~pages'[p].lock
               PROVE  Fits(p)'
    BY DEF FitInv
  <2>1. p \in PageIds /\ pages[p].type = "Frame" /\ pages'[p] = pages[p] OBVIOUS
  <2>2. Fits(p) BY <1>2, <2>1 DEF ArrowInv, FitInv
  <2> QED BY <2>1, <2>2, FitsKept DEF SamePlace
<1>4. ASSUME NEW t \in TaskIds', tasks'[t].kind = "list"
      PROVE  /\ t \in TaskIds /\ tasks[t].kind = "list" /\ Pg(t)' = Pg(t) /\ Request(t)' = Request(t)
             /\ Pg(t) \in PageIds /\ pages[Pg(t)].type = "Frame" /\ pages'[Pg(t)] = pages[Pg(t)]
             /\ Due(t)' = DueNext(t)
  <2>1. t \in TaskIds BY <1>4
  <2>2. tasks[t].kind = "list" /\ Pg(t)' = Pg(t) /\ Request(t)' = Request(t)
    BY <1>4, <2>1 DEF SamePlace, SameTask, Pg, Request
  <2>3. Pg(t) \in PageIds /\ pages[Pg(t)].type = "Frame" BY <1>1, <2>1, <2>2 DEF Facts
  <2> QED BY <2>1, <2>2, <2>3 DEF Due, DueNext
<1>5. KeptTaskInv'
  <2> SUFFICES ASSUME NEW t \in TaskIds', Due(t)' > 0, tasks'[t].kind = "list"
               PROVE  t = pages'[Pg(t)'].task
    BY DEF KeptTaskInv
  <2>1. t \in TaskIds /\ Due(t) > 0 /\ tasks[t].kind = "list"
    <3>1. t \in TaskIds /\ DueNext(t) > 0 /\ tasks[t].kind = "list" BY <1>4
    <3>2. DueNext(t) <= Due(t) /\ DueNext(t) \in Nat /\ Due(t) \in Nat BY <1>1, <3>1 DEF Facts
    <3> HIDE DEF DueNext
    <3> QED BY <3>1, <3>2
  <2> QED BY <1>2, <1>4, <2>1 DEF ArrowInv, KeptTaskInv
<1>6. ReadyInv'
  <2> SUFFICES ASSUME NEW t \in TaskIds', running' = t, tasks'[t].kind = "list",
                      stage' \in {"callback", "unlock"}
               PROVE  (stage' = "callback" => result' = "ok") /\ (stage' = "unlock" => Fits(Pg(t))')
    BY DEF ReadyInv
  <2>1. t \in TaskIds /\ running = t /\ tasks[t].kind = "list"
    BY <1>4 DEF Facts
  <2>2. stage' = stage /\ result' = result BY <2>1 DEF Kind
  <2>3. CASE stage' = "callback" BY <1>2, <2>1, <2>2, <2>3 DEF ArrowInv, ReadyInv
  <2>4. CASE stage' = "unlock"
    <3>1. Fits(Pg(t)) BY <1>2, <2>1, <2>2, <2>4 DEF ArrowInv, ReadyInv
    <3>2. PICK p : p = Pg(t) OBVIOUS
    <3>3. p \in PageIds /\ pages[p].type = "Frame" /\ pages'[p] = pages[p] /\ Pg(t)' = p
      BY <1>4, <3>2
    <3>4. Fits(p)' BY <3>1, <3>2, <3>3, FitsKept DEF SamePlace
    <3> QED BY <2>4, <3>3, <3>4
  <2> QED BY <2>3, <2>4
<1>7. WithinInv'
  BY <1>2, <1>4 DEF ArrowInv, WithinInv, Within
<1> QED BY <1>3, <1>5, <1>6, <1>7 DEF ArrowInv

\* A step in which the frame p asks by the task t.
LEMMA ArrowOfAsk ==
    ASSUME Base, ArrowInv, Facts', NEW p \in PageIds', NEW t \in TaskIds', NEW f, NEW request,
           Asked(pages'[p], f, t, request, request.page), Request(t)' = request, Pg(t)' = p,
           tasks'[t].kind = "list", trouble = {} => Within(request),
           PageIds' \subseteq PageIds \cup {p}, TaskIds' \subseteq TaskIds \cup {t},
           \A q \in PageIds : q # p => pages'[q] = pages[q],
           \A u \in TaskIds : SameTask(u),
           \A u \in TaskIds : u # t => SamePlace(u) /\ DueNext(u) = Due(u),
           \A u \in TaskIds : Due(u) > 0 /\ tasks[u].kind = "list" => Pg(u) # p,
           UNCHANGED <<running, stage, result>>, running # t, trouble \subseteq trouble'
    PROVE  ArrowInv'
<1>1. Facts BY BaseFacts
<1> SUFFICES ASSUME trouble' = {} PROVE ArrowInv'
  BY DEF ArrowInv, FitInv, KeptTaskInv, ReadyInv, WithinInv
<1>2. trouble = {} OBVIOUS
<1>3. FitInv'
  <2> SUFFICES ASSUME NEW q \in PageIds', pages'[q].type = "Frame", ~pages'[q].lock
               PROVE  Fits(q)'
    BY DEF FitInv
  <2>1. CASE q = p BY <2>1, AskedFits
  <2>2. CASE q # p
    <3>1. q \in PageIds /\ pages[q].type = "Frame" /\ pages'[q] = pages[q] BY <2>2
    <3>2. Fits(q) BY <1>2, <3>1 DEF ArrowInv, FitInv
    <3> QED BY <3>1, <3>2, FitsKept
  <2> QED BY <2>1, <2>2
<1>4. ASSUME NEW u \in TaskIds', u # t, tasks'[u].kind = "list"
      PROVE  /\ u \in TaskIds /\ tasks[u].kind = "list" /\ Pg(u)' = Pg(u) /\ Request(u)' = Request(u)
             /\ Pg(u) \in PageIds /\ pages[Pg(u)].type = "Frame"
             /\ Due(u)' = Due(u)
             /\ Due(u) > 0 => Pg(u) # p /\ pages'[Pg(u)] = pages[Pg(u)]
  <2>1. u \in TaskIds BY <1>4
  <2>2. tasks[u].kind = "list" /\ Pg(u)' = Pg(u) /\ Request(u)' = Request(u)
    BY <1>4, <2>1 DEF SamePlace, SameTask, Pg, Request
  <2>3. Pg(u) \in PageIds /\ pages[Pg(u)].type = "Frame" BY <1>1, <2>1, <2>2 DEF Facts
  <2>4. Due(u)' = Due(u) BY <1>4, <2>1 DEF Due, DueNext
  <2> QED BY <2>1, <2>2, <2>3, <2>4
<1>5. KeptTaskInv'
  <2> SUFFICES ASSUME NEW u \in TaskIds', Due(u)' > 0, tasks'[u].kind = "list"
               PROVE  u = pages'[Pg(u)'].task
    BY DEF KeptTaskInv
  <2>1. CASE u = t BY <2>1 DEF Asked
  <2>2. CASE u # t BY <1>2, <1>4, <2>2 DEF ArrowInv, KeptTaskInv
  <2> QED BY <2>1, <2>2
<1>6. ReadyInv'
  <2> SUFFICES ASSUME NEW u \in TaskIds', running' = u, tasks'[u].kind = "list"
               PROVE  (stage' = "callback" => result' = "ok") /\ (stage' = "unlock" => Fits(Pg(u))')
    BY DEF ReadyInv
  <2>1. u # t /\ u \in TaskIds /\ running = u /\ tasks[u].kind = "list" /\ Due(u) > 0
    BY <1>1, <1>4 DEF Due, One, Facts
  <2>2. stage = "callback" => result = "ok" BY <1>2, <2>1 DEF ArrowInv, ReadyInv
  <2>3. CASE stage = "unlock"
    <3>1. Fits(Pg(u)) BY <1>2, <2>1, <2>3 DEF ArrowInv, ReadyInv
    <3>2. PICK q : q = Pg(u) OBVIOUS
    <3>3. q \in PageIds /\ pages[q].type = "Frame" /\ pages'[q] = pages[q] /\ Pg(u)' = q
      BY <1>4, <2>1, <3>2
    <3>4. Fits(q)' BY <3>1, <3>2, <3>3, FitsKept
    <3> QED BY <2>2, <3>3, <3>4
  <2> QED BY <2>2, <2>3
<1>7. WithinInv'
  <2> SUFFICES ASSUME NEW u \in TaskIds', tasks'[u].kind = "list"
               PROVE  Within(Request(u)')
    BY DEF WithinInv, Within
  <2>1. CASE u = t BY <1>2, <2>1
  <2>2. CASE u # t BY <1>2, <1>4, <2>2 DEF ArrowInv, WithinInv
  <2> QED BY <2>1, <2>2
<1> QED BY <1>3, <1>5, <1>6, <1>7 DEF ArrowInv

LEMMA ArrowStep ==
    ASSUME Base, LockInv, ArrowInv, Steps, Facts'
    PROVE  ArrowInv'
<1>1. Facts BY BaseFacts
<1>2. ASSUME NEW t \in TaskIds, Due(t) > 0, tasks[t].kind = "list", trouble = {}
      PROVE  Guarded(Pg(t)) /\ Live(Pg(t)) /\ pages[Pg(t)].lock
  <2>1. Guarded(Pg(t)) BY <1>1, <1>2 DEF Facts, Guarded, Good
  <2> QED BY <1>2, <2>1 DEF LockInv, LockedInv
<1>3. \A u \in TaskIds : Id # u BY <1>1 DEF Facts
<1> SUFFICES ASSUME trouble' = {} PROVE ArrowInv'
  BY DEF ArrowInv, FitInv, KeptTaskInv, ReadyInv, WithinInv
<1>4. trouble = {}
  BY DEF Steps, Asks, Starts, Posts, MakesFrame, MakesOther, Restores, Forgets, Fills, Leaves,
         Replaces, Takes, Called, Failed, FrameCalled, StatusCalled, FanCalled, PersonCalled,
         Callback, LetsGo, Predicts, Stays
<1>5. CASE Asks
  <2>1. PICK request \in Lists : Turns(request, request.page, Id, 1, 2) /\ FromShown(request)
    BY <1>5 DEF Asks
  <2>2. Within(request)
    BY <1>4, <2>1, TurnWithin DEF Turns
  <2>3. PICK p : p = history OBVIOUS
  <2>4. PICK t : t = Id OBVIOUS
  <2>5. /\ p \in PageIds /\ PageIds' = PageIds /\ ~pages[p].lock
        /\ \A q \in PageIds : q # p => pages'[q] = pages[q]
    BY <2>1, <2>3, ShownAlive DEF Turns, OthersSame, PageIds
  <2>6. /\ t \in TaskIds' /\ TaskIds' = TaskIds \cup {t} /\ tasks'[t] = NewTask("list", p, request, 2)
        /\ \A u \in TaskIds : SamePlace(u) /\ SameTask(u)
    <3>1. AddsTask(NewTask("list", p, request, 2), pages[history].task, 1)
      BY <2>1, <2>3 DEF Turns
    <3> QED BY <1>1, <2>4, <3>1, AddedIds
  <2>7. Request(t)' = request /\ Pg(t)' = p /\ tasks'[t].kind = "list"
    BY <2>6 DEF NewTask, Request, Pg
  <2>8. \A u \in TaskIds : DueNext(u) = Due(u)
    BY <1>1, <1>3, <2>1 DEF Turns, Pushes, Enqueues, One, Facts, Due, DueNext
  <2>9. \A u \in TaskIds : Due(u) > 0 /\ tasks[u].kind = "list" => Pg(u) # p
    BY <1>2, <1>4, <2>5
  <2>10. /\ UNCHANGED <<running, stage, result>> /\ running # t
         /\ Asked(pages'[p], pages[p], t, request, request.page)
    BY <1>1, <2>1, <2>3, <2>4 DEF Turns, Facts
  <2> HIDE DEF DueNext
  <2> QED BY <1>4, <2>2, <2>5, <2>6, <2>7, <2>8, <2>9, <2>10, ArrowOfAsk
<1>6. CASE MakesFrame
  <2> DEFINE request == List("default", 0)
  <2>1. PICK p : p = Made + 1 OBVIOUS
  <2>2. PICK t : t = Id OBVIOUS
  <2>3. /\ p \in PageIds' /\ PageIds' \subseteq PageIds \cup {p}
        /\ \A q \in PageIds : q # p => pages'[q] = pages[q]
    BY <1>1, <1>6, <2>1 DEF MakesFrame, PageIds, Made, Facts, Numbers
  <2>4. /\ t \in TaskIds' /\ TaskIds' = TaskIds \cup {t} /\ tasks'[t] = NewTask("list", p, request, 2)
        /\ \A u \in TaskIds : SamePlace(u) /\ SameTask(u)
    <3>1. AddsTask(NewTask("list", p, request, 2), NULL, 0)
      BY <1>6, <2>1 DEF MakesFrame
    <3> HIDE DEF request
    <3> QED BY <1>1, <2>2, <3>1, AddedIds
  <2>5. Request(t)' = request /\ Pg(t)' = p /\ tasks'[t].kind = "list"
    BY <2>4 DEF NewTask, Request, Pg
  <2>6. \A u \in TaskIds : DueNext(u) = Due(u)
    BY <1>1, <1>3, <1>6 DEF MakesFrame, Pushes, Enqueues, One, Facts, Due, DueNext
  <2>7. \A u \in TaskIds : Pg(u) # p BY <1>1, <2>1 DEF Facts
  <2>8. /\ UNCHANGED <<running, stage, result>> /\ running # t
        /\ Asked(pages'[p], NewPage("Frame"), t, request, 0)
    BY <1>1, <1>6, <2>1, <2>2 DEF MakesFrame, Facts
  <2>9. request.page = 0 /\ Within(request)
    BY SizeAssumption, TotalAssumption DEF List, Within, Queries
  <2> HIDE DEF DueNext, request
  <2> QED BY <1>4, <2>3, <2>4, <2>5, <2>6, <2>7, <2>8, <2>9, ArrowOfAsk
<1>7. CASE Restores
  <2>1. PICK p : p = Made OBVIOUS
  <2>2. PICK t : t = table OBVIOUS
  <2>3. /\ load # NULL /\ p \in PageIds /\ PageIds' = PageIds /\ t \in TaskIds /\ TaskIds' = TaskIds
        /\ \A q \in PageIds : q # p => pages'[q] = pages[q]
        /\ Asked(pages'[p], pages[p], t, Request(t), Request(t).page)
        /\ tasks[t].kind = "list" /\ t # NULL /\ UNCHANGED <<running, stage, result>>
    BY <1>1, <1>7, <2>1, <2>2
       DEF Restores, OthersSame, PageIds, TaskIds, Base, KindInv, Facts
  <2>4. ~pages[p].lock
    BY <1>4, <1>7, <2>1, <2>2, <2>3 DEF LockInv, DefaultInv, Good, Restores
  <2>5. ASSUME NEW u \in TaskIds, Due(u) > 0, tasks[u].kind = "list"
        PROVE  FALSE
    BY <1>2, <1>4, <2>1, <2>3, <2>4, <2>5, LoadUnlocked
  <2>6. running # t
    BY <1>1, <2>3, <2>5 DEF Due, One, Facts
  <2>7. /\ \A u \in TaskIds : SameTask(u)
        /\ \A u \in TaskIds : u # t => SamePlace(u)
        /\ Request(t)' = Request(t) /\ Pg(t)' = p /\ tasks'[t].kind = "list"
    BY <1>7, <2>1, <2>2, <2>3 DEF Restores, SamePlace, SameTask, Request, Pg
  <2>8. \A u \in TaskIds : u # t => DueNext(u) = Due(u)
    BY <1>1, <1>7, <2>2 DEF Restores, Pushes, Enqueues, One, Facts, Due, DueNext
  <2>9. Within(Request(t))
    BY <1>4, <2>3 DEF ArrowInv, WithinInv
  <2> HIDE DEF DueNext
  <2>10. PICK request : request = Request(t) OBVIOUS
  <2> QED BY <1>4, <2>3, <2>5, <2>6, <2>7, <2>8, <2>9, <2>10, ArrowOfAsk
<1>8. CASE \E kind, request : Posts(kind, request)
  <2>1. PICK kind, request : Posts(kind, request) BY <1>8
  <2>2. /\ \A q \in PageIds : pages[q].type = "Frame" => pages'[q] = pages[q]
        /\ \A q \in PageIds : pages'[q].type = pages[q].type
        /\ PageIds' = PageIds /\ UNCHANGED <<running, stage, result>>
    BY <2>1 DEF Posts, OthersSame, Like, PageIds, Shows
  <2>3. /\ TaskIds' = TaskIds \cup {Id} /\ tasks'[Id].kind # "list"
        /\ \A u \in TaskIds : SamePlace(u)
    BY <1>1, <2>1, AddedIds DEF Posts, NewTask
  <2>4. \A u \in TaskIds : DueNext(u) = Due(u) /\ Due(u) \in Nat
    BY <1>1, <1>3, <2>1 DEF Posts, Enqueues, One, Facts, Due, DueNext
  <2> HIDE DEF DueNext
  <2> QED BY <1>4, <2>2, <2>3, <2>4, ArrowOfSame
<1>9. CASE Fills
  <2>1. /\ \A q \in PageIds : pages[q].type = "Frame" => pages'[q] = pages[q]
        /\ \A q \in PageIds : pages'[q].type = pages[q].type
        /\ PageIds' = PageIds /\ UNCHANGED <<running, stage, result>>
    BY <1>9 DEF Fills, OthersSame, Like, PageIds, Base, LoadInv, Loading
  <2>2. /\ TaskIds' = TaskIds \cup {Id} /\ tasks'[Id].kind # "list"
        /\ \A u \in TaskIds : SamePlace(u)
    BY <1>1, <1>9, AddedIds DEF Fills, NewTask
  <2>3. \A u \in TaskIds : DueNext(u) = Due(u) /\ Due(u) \in Nat
    BY <1>1, <1>3, <1>9 DEF Fills, Enqueues, One, Facts, Due, DueNext
  <2> HIDE DEF DueNext
  <2> QED BY <1>4, <2>1, <2>2, <2>3, ArrowOfSame
<1>10. CASE MakesOther
  <2>1. /\ PageIds \subseteq PageIds' /\ \A q \in PageIds : pages'[q] = pages[q]
        /\ UNCHANGED <<tasks, queue, running, stage, result>>
        /\ \A q \in PageIds' \ PageIds : pages'[q].type # "Frame"
    BY <1>1, <1>10 DEF MakesOther, PageIds, Facts, Numbers, Made, NewPage
  <2>2. TaskIds' = TaskIds /\ \A u \in TaskIds : SamePlace(u)
    BY <2>1 DEF TaskIds, SamePlace, SameTask
  <2>3. \A u \in TaskIds : DueNext(u) = Due(u) /\ Due(u) \in Nat
    BY <1>1, <2>1 DEF Facts, Due, DueNext
  <2> HIDE DEF DueNext
  <2> QED BY <1>4, <2>1, <2>2, <2>3, ArrowOfSame
<1>11. CASE \/ Starts \/ Forgets \/ Leaves \/ Replaces \/ Predicts \/ Stays \/ PersonCalled
            \/ StatusCalled \/ FanCalled
  <2>1. /\ \A q \in PageIds : pages'[q].type = pages[q].type
        /\ UNCHANGED <<queue, running, result>> /\ Len(pages') = Len(pages)
        /\ stage' = stage \/ (stage' = "unlock" /\ Kind # "list")
        /\ Len(tasks') = Len(tasks) /\ \A u \in TaskIds : SamePlace(u)
    BY <1>11 DEF Starts, Forgets, Leaves, Replaces, Predicts, Stays, PersonCalled, StatusCalled,
                 FanCalled, Callback, SamePlace, SameTask, OthersSame, Like
  <2>2. \A q \in PageIds : pages[q].type = "Frame" => pages'[q] = pages[q]
    <3>1. CASE StatusCalled \/ FanCalled
      <4>1. running \in TaskIds /\ tasks[running].kind \in {"status", "fan"} /\ OthersSame(Page)
        BY <3>1 DEF StatusCalled, FanCalled, Callback, Kind
      <4>2. pages[Page].type = "InfoPage" BY <1>1, <4>1 DEF Facts, Pg, Page
      <4> QED BY <4>1, <4>2 DEF OthersSame
    <3> QED BY <1>11, <3>1 DEF Starts, Forgets, Leaves, Replaces, Predicts, Stays, PersonCalled
  <2>3. TaskIds' = TaskIds /\ PageIds' = PageIds BY <2>1 DEF TaskIds, PageIds
  <2>4. \A u \in TaskIds : DueNext(u) = Due(u) /\ Due(u) \in Nat
    BY <1>1, <2>1 DEF Facts, Due, DueNext
  <2> HIDE DEF DueNext
  <2> QED BY <1>4, <2>1, <2>2, <2>3, <2>4, ArrowOfSame
<1>12. CASE Takes
  <2>1. UNCHANGED <<pages, tasks>> /\ stage' = "func" /\ running = NULL
        /\ \A u : Occurs(queue, u) = Occurs(queue', u) + One(running' = u)
    BY <1>12 DEF Takes
  <2>2. TaskIds' = TaskIds /\ PageIds' = PageIds /\ \A u \in TaskIds : SamePlace(u)
    BY <2>1 DEF TaskIds, PageIds, SamePlace, SameTask
  <2>3. ASSUME NEW u \in TaskIds
        PROVE  DueNext(u) = Due(u) /\ Due(u) \in Nat
    <3>1. Occurs(queue', u) \in Nat /\ Due(u) \in Nat /\ u # NULL BY <1>1, <2>2 DEF Facts
    <3> QED BY <2>1, <3>1 DEF Due, DueNext, One
  <2> HIDE DEF DueNext
  <2> QED BY <1>4, <2>1, <2>2, <2>3, ArrowOfSame
<1>13. CASE \E answer \in Answers : Called(answer)
  <2>1. PICK answer \in Answers : Called(answer) BY <1>13
  <2>2. UNCHANGED <<pages, queue, running>> /\ stage' = "callback" /\ result' = answer
    BY <2>1 DEF Called
  <2>3. /\ TaskIds' = TaskIds /\ PageIds' = PageIds /\ Kind = tasks[running].kind
        /\ \A t \in TaskIds : SamePlace(t) /\ Pg(t)' = Pg(t) /\ Request(t)' = Request(t)
                              /\ tasks'[t].kind = tasks[t].kind
    BY <2>1, CalledIs
  <2>4. FitInv'
    BY <1>4, <2>2, <2>3, FitsKept DEF ArrowInv, FitInv, SamePlace
  <2>5. KeptTaskInv' /\ WithinInv'
    BY <1>4, <2>2, <2>3 DEF ArrowInv, KeptTaskInv, WithinInv, Within, Due
  <2>6. Kind = "list" => answer = "ok" BY <2>1 DEF Called, Failed, Answers
  <2>7. ReadyInv' BY <2>2, <2>3, <2>6 DEF ReadyInv
  <2> QED BY <2>4, <2>5, <2>7 DEF ArrowInv
<1>14. CASE FrameCalled
  <2>1. /\ UNCHANGED <<tasks, queue, running, result>> /\ OthersSame(Page) /\ running \in TaskIds
        /\ stage = "callback" /\ stage' = "unlock" /\ tasks[running].kind = "list" /\ Page \in PageIds
        /\ Loaded(pages'[Page], pages[Page], Request(running), Request(pages[Page].task).page, result)
    BY <1>14 DEF FrameCalled, Callback, Kind
  <2>2. TaskIds' = TaskIds /\ PageIds' = PageIds BY <2>1 DEF TaskIds, PageIds, OthersSame
  <2>3. Due(running) > 0 /\ Pg(running) = Page BY <1>1, <2>1 DEF Due, One, Facts, Pg, Page
  <2>4. result = "ok" /\ running = pages[Page].task
    BY <1>4, <2>1, <2>3 DEF ArrowInv, ReadyInv, KeptTaskInv
  <2>5. \A t \in TaskIds : SameTask(t) BY <2>1 DEF SameTask
  <2>6. \A q \in PageIds : pages'[q].type = pages[q].type /\ pages'[q].task = pages[q].task
    BY <2>1 DEF OthersSame, Loaded
  <2>7. PICK p : p = Page OBVIOUS
  <2>8. Fits(p)'
    <3> DEFINE request == Request(running)
    <3>1. pages'[p].task = running /\ tasks'[running].request = request
      BY <2>1, <2>4, <2>6, <2>7 DEF Request
    <3>2. CASE Total[request.query] > 0
      <4>1. /\ pages'[p].list = request /\ pages'[p].prev = (request.page > 0)
            /\ pages'[p].next = NextShown(request.page, Total[request.query])
        BY <2>1, <2>4, <2>7, <3>2 DEF Loaded
      <4> QED BY <3>1, <4>1 DEF Fits, Request, NextShown
    <3>3. CASE ~(Total[request.query] > 0)
      <4>1. ~pages'[p].prev /\ ~pages'[p].next BY <2>1, <2>4, <2>7, <3>3 DEF Loaded
      <4> QED BY <4>1 DEF Fits
    <3> QED BY <3>2, <3>3
  <2>9. FitInv'
    <3> SUFFICES ASSUME NEW q \in PageIds', pages'[q].type = "Frame", ~pages'[q].lock
                 PROVE  Fits(q)'
      BY DEF FitInv
    <3>1. CASE q = p BY <2>8, <3>1
    <3>2. CASE q # p
      <4>1. q \in PageIds /\ pages'[q] = pages[q] BY <2>1, <2>2, <2>7, <3>2 DEF OthersSame
      <4>2. Fits(q) BY <1>4, <4>1 DEF ArrowInv, FitInv
      <4> QED BY <2>5, <4>1, <4>2, FitsKept
    <3> QED BY <3>1, <3>2
  <2>10. KeptTaskInv'
    <3> SUFFICES ASSUME NEW t \in TaskIds', Due(t)' > 0, tasks'[t].kind = "list"
                 PROVE  t = pages'[Pg(t)'].task
      BY DEF KeptTaskInv
    <3>1. t \in TaskIds /\ Due(t) > 0 /\ tasks[t].kind = "list" /\ Pg(t)' = Pg(t)
      BY <2>1, <2>2 DEF Due, Pg
    <3>2. Pg(t) \in PageIds BY <1>1, <3>1 DEF Facts
    <3> QED BY <1>4, <2>6, <3>1, <3>2 DEF ArrowInv, KeptTaskInv
  <2>11. WithinInv' BY <1>4, <2>1, <2>2 DEF ArrowInv, WithinInv, Request
  <2>12. Pg(running)' = p BY <2>1, <2>3, <2>7 DEF Pg
  <2>13. ReadyInv'
    <3> SUFFICES ASSUME NEW t \in TaskIds', running' = t, tasks'[t].kind = "list"
                 PROVE  (stage' = "callback" => result' = "ok") /\ (stage' = "unlock" => Fits(Pg(t))')
      BY DEF ReadyInv
    <3>1. Pg(t)' = p BY <2>1, <2>12
    <3> QED BY <2>1, <2>8, <3>1
  <2> QED BY <2>9, <2>10, <2>11, <2>13 DEF ArrowInv
<1>15. CASE LetsGo
  <2>1. /\ queue' = queue /\ running' = NULL /\ OthersSame(Page) /\ running \in TaskIds
        /\ stage = "unlock" /\ stage' = "idle" /\ Len(tasks') = Len(tasks)
        /\ \A t \in TaskIds : SamePlace(t) /\ SameTask(t)
        /\ \A q \in PageIds : /\ pages'[q].type = pages[q].type /\ pages'[q].task = pages[q].task
                              /\ pages'[q].list = pages[q].list /\ pages'[q].prev = pages[q].prev
                              /\ pages'[q].next = pages[q].next
    BY <1>15 DEF LetsGo, OthersSame, Like, SamePlace
  <2>2. TaskIds' = TaskIds /\ PageIds' = PageIds BY <2>1 DEF TaskIds, PageIds, OthersSame
  <2>3. FitInv'
    <3> SUFFICES ASSUME NEW q \in PageIds', pages'[q].type = "Frame", ~pages'[q].lock
                 PROVE  Fits(q)'
      BY DEF FitInv
    <3>1. q \in PageIds /\ pages[q].type = "Frame" BY <2>1, <2>2
    <3>2. Fits(q)
      <4>1. CASE ~pages[q].lock BY <1>4, <3>1, <4>1 DEF ArrowInv, FitInv
      <4>2. CASE q = Page
        <5>1. q = Pg(running) /\ q # Stage BY <1>1, <3>1, <4>2 DEF Pg, Page, Facts
        <5>2. tasks[running] \in TaskObjs(Len(pages)) /\ Len(pages) \in Nat
          BY <1>1, <2>1 DEF Facts, Numbers
        <5>3. tasks[running].kind = "list"
          BY <2>1, <3>1, <5>1, <5>2, TaskFacts DEF Base, KindInv
        <5> QED BY <1>4, <2>1, <5>1, <5>3 DEF ArrowInv, ReadyInv
      <4> QED BY <2>1, <3>1, <4>1, <4>2 DEF OthersSame
    <3> QED BY <2>1, <3>1, <3>2, FitsKept
  <2>4. KeptTaskInv'
    <3> SUFFICES ASSUME NEW t \in TaskIds', Due(t)' > 0, tasks'[t].kind = "list"
                 PROVE  t = pages'[Pg(t)'].task
      BY DEF KeptTaskInv
    <3>1. t \in TaskIds /\ tasks[t].kind = "list" /\ Pg(t)' = Pg(t) /\ t # NULL
      BY <1>1, <2>1, <2>2 DEF SamePlace, SameTask, Pg, Facts
    <3>2. Pg(t) \in PageIds /\ Due(t) > 0 BY <1>1, <2>1, <3>1 DEF Facts, Due, One
    <3> QED BY <1>4, <2>1, <3>1, <3>2 DEF ArrowInv, KeptTaskInv
  <2>5. WithinInv' BY <1>4, <2>1, <2>2 DEF ArrowInv, WithinInv, Request, SameTask
  <2>6. ReadyInv' BY <2>1 DEF ReadyInv
  <2> QED BY <2>3, <2>4, <2>5, <2>6 DEF ArrowInv
<1> QED BY <1>5, <1>6, <1>7, <1>8, <1>9, <1>10, <1>11, <1>12, <1>13, <1>14, <1>15 DEF Steps

LEMMA ArrowInit ==
    ASSUME Init
    PROVE  ArrowInv
<1>1. PageIds = {} /\ \A t \in TaskIds : tasks[t].kind = "check"
  BY DEF Init, PageIds, TaskIds, NewTask
<1> QED BY <1>1 DEF ArrowInv, FitInv, KeptTaskInv, ReadyInv, WithinInv

LEMMA ArrowHolds == Spec => [](Base /\ LockInv /\ ArrowInv)
<1>1. Init => ArrowInv BY ArrowInit
<1>2. Base /\ LockInv /\ ArrowInv /\ [Next]_vars /\ Facts' => ArrowInv'
  <2> SUFFICES ASSUME Base, LockInv, ArrowInv, [Next]_vars, Facts'
               PROVE  ArrowInv'
    OBVIOUS
  <2>1. Steps BY BaseStep
  <2> QED BY <2>1, ArrowStep
<1>3. Base => Facts BY BaseFacts
<1> QED BY <1>1, <1>2, <1>3, LockHolds, PTL DEF Spec

\* Without errors or a search, an arrow of a frame that can be pressed turns the
\* pages of the list it shows, and no page is asked for but one that exists or
\* the one after a last page that is full.
THEOREM ArrowsFit == Spec => []ArrowsFitList
<1>1. ASSUME Base, ArrowInv
      PROVE  ArrowsFitList
  <2> SUFFICES ASSUME trouble = {} PROVE ArrowsFitList BY DEF ArrowsFitList
  <2>1. ASSUME Shows("Frame"), ~pages[history].lock, pages[history].prev \/ pages[history].next
        PROVE  pages[history].list = Request(pages[history].task)
    <3>1. history \in PageIds /\ pages[history].type = "Frame"
      BY <1>1, <2>1, ShownAlive DEF Shows
    <3> QED BY <1>1, <2>1, <3>1 DEF ArrowInv, FitInv, Fits
  <2>2. \A t \in 1 .. Len(tasks) : tasks[t].kind = "list" => Within(Request(t))
    BY <1>1 DEF ArrowInv, WithinInv, TaskIds
  <2> QED BY <2>1, <2>2 DEF ArrowsFitList, Within
<1> QED BY <1>1, ArrowHolds, PTL

-----------------------------------------------------------------------------
(***************************************************************************)
(* The way back from an info page.  The task saved in the table is the one  *)
(* of the frame that was left, and its list, once shown, stays at the proxy.*)
(***************************************************************************)

Had(list) == list \in stored /\ Total[list.query] > 0

ShownInv == \A p \in PageIds : pages[p].list # NULL => Had(pages[p].list)

LeavingInv ==
    load # NULL /\ load.type = "InfoPage" =>
        Had(came.list) /\ came.request = Request(pages[history].task)

AwayInv ==
    Shows("InfoPage") /\ ~(load # NULL /\ load.type = "Frame" /\ load.mode = "NEW") =>
        Had(came.list) /\ table # NULL /\ Request(table) = came.request

BackInv ==
    load # NULL /\ load.type = "Frame" /\ load.mode = "DEFAULT" /\ load.step = "show" =>
        /\ Request(pages[Made].task) = came.request
        /\ trouble = {} /\ came.list = came.request =>
              pages[Made].list = came.list /\ ~pages[Made].lock

CameInv == ShownInv /\ LeavingInv /\ AwayInv /\ BackInv

\* Neither the worker nor the user ends a load, or changes what it is about; the
\* page shown and the page made keep their task and list meanwhile.
LoadGoesOn == Takes \/ (\E answer \in Answers : Called(answer)) \/ LetsGo \/ Predicts \/ Stays

LEMMA GrowsOnly ==
    ASSUME Base, Steps
    PROVE  stored \subseteq stored' /\ trouble \subseteq trouble'
<1>1. CASE Asks
  BY <1>1, AsksTurn DEF TurnsSome, Turns, Asks, serverVars
<1> QED BY <1>1 DEF Steps, Starts, Posts, MakesFrame, MakesOther, Restores, Forgets, Fills, Leaves,
        Replaces, Takes, Called, Failed, FrameCalled, StatusCalled, FanCalled, PersonCalled,
        Callback, LetsGo, Predicts, Stays, serverVars

LEMMA AskedHad ==
    ASSUME NEW g, NEW f, NEW t, NEW request, NEW page, Asked(g, f, t, request, page),
           f.list # NULL => Had(f.list), g.list # NULL
    PROVE  Had(g.list)
<1>1. CASE request \in stored /\ Total[request.query] > 0 BY <1>1 DEF Asked, Had
<1>2. CASE ~(request \in stored /\ Total[request.query] > 0) BY <1>2 DEF Asked
<1> QED BY <1>1, <1>2

LEMMA ShownStep ==
    ASSUME Base, ShownInv, Steps
    PROVE  ShownInv'
<1>1. Facts BY BaseFacts
<1> SUFFICES ASSUME NEW p \in PageIds', pages'[p].list # NULL
             PROVE  Had(pages'[p].list)
  <2>1. \A list : Had(list) => list \in stored' /\ Total[list.query] > 0
    BY GrowsOnly DEF Had
  <2> QED BY <2>1 DEF ShownInv, Had
<1>2. ASSUME p \in PageIds, pages'[p].list = pages[p].list
      PROVE  Had(pages'[p].list)
  BY <1>2 DEF ShownInv
<1>3. CASE Asks
  <2>1. PICK request \in Lists, page \in Int, kept \in {Id, pages[history].task}, given \in 0 .. 1 :
            Turns(request, page, kept, given, 1 + One(kept = Id))
    BY <1>3, AsksTurn DEF TurnsSome
  <2>2. PageIds' = PageIds /\ history \in PageIds
    BY <2>1, ShownAlive DEF Turns, OthersSame, PageIds
  <2>3. CASE p = history
    <3>1. Asked(pages'[p], pages[p], kept, request, page) BY <2>1, <2>3 DEF Turns
    <3> QED BY <2>2, <2>3, <3>1, AskedHad DEF ShownInv
  <2>4. CASE p # history BY <1>2, <2>1, <2>2, <2>4 DEF Turns, OthersSame
  <2> QED BY <2>3, <2>4
<1>4. CASE MakesFrame \/ MakesOther
  <2>1. CASE p \in PageIds BY <1>2, <1>4, <2>1 DEF MakesFrame, MakesOther
  <2>2. CASE p \notin PageIds
    <3>1. p = Made + 1
      BY <1>1, <1>4, <2>2 DEF MakesFrame, MakesOther, PageIds, Made, Facts, Numbers
    <3>2. CASE MakesFrame
      <4>1. Asked(pages'[p], NewPage("Frame"), Id, List("default", 0), 0)
        BY <3>1, <3>2 DEF MakesFrame
      <4>2. NewPage("Frame").list = NULL BY DEF NewPage
      <4> QED BY <4>1, <4>2, AskedHad
    <3>3. CASE MakesOther BY <3>1, <3>3 DEF MakesOther, NewPage
    <3> QED BY <1>4, <3>2, <3>3
  <2> QED BY <2>1, <2>2
<1>5. CASE Restores
  <2>1. /\ PageIds' = PageIds /\ Made \in PageIds /\ OthersSame(Made)
        /\ Asked(pages'[Made], pages[Made], table, Request(table), Request(table).page)
    BY <1>5 DEF Restores, OthersSame, PageIds
  <2>2. CASE p = Made BY <2>1, <2>2, AskedHad DEF ShownInv
  <2>3. CASE p # Made BY <1>2, <2>1, <2>3 DEF OthersSame
  <2> QED BY <2>2, <2>3
<1>6. CASE FrameCalled
  <2>1. /\ PageIds' = PageIds /\ Page \in PageIds /\ OthersSame(Page)
        /\ Loaded(pages'[Page], pages[Page], Request(running), Request(pages[Page].task).page, result)
        /\ stage = "callback" /\ Kind = "list" /\ result \in Answers
    BY <1>6 DEF FrameCalled, Callback, OthersSame, PageIds
  <2>2. CASE p = Page /\ result = "ok" /\ Total[Request(running).query] > 0
    <3>1. Request(running) \in stored BY <2>1, <2>2 DEF Base, AnswerInv
    <3> QED BY <2>1, <2>2, <3>1 DEF Loaded, Had
  <2>3. CASE p = Page /\ ~(result = "ok" /\ Total[Request(running).query] > 0)
    <3>1. pages'[p].list = pages[p].list BY <2>1, <2>3 DEF Loaded
    <3> QED BY <1>2, <2>1, <2>3, <3>1
  <2>4. CASE p # Page BY <1>2, <2>1, <2>4 DEF OthersSame
  <2> QED BY <2>2, <2>3, <2>4
<1>7. CASE \/ (\E kind, request : Posts(kind, request)) \/ Fills \/ StatusCalled \/ FanCalled
           \/ LetsGo \/ Starts \/ Forgets \/ Leaves \/ Replaces \/ Takes
           \/ (\E answer \in Answers : Called(answer)) \/ PersonCalled \/ Predicts \/ Stays
  <2>1. PageIds' = PageIds /\ \A q \in PageIds : pages'[q].list = pages[q].list
    BY <1>7 DEF Posts, Fills, StatusCalled, FanCalled, LetsGo, Starts, Forgets, Leaves, Replaces,
                Takes, Called, PersonCalled, Predicts, Stays, OthersSame, Like, PageIds
  <2> QED BY <1>2, <2>1
<1> QED BY <1>3, <1>4, <1>5, <1>6, <1>7 DEF Steps

\* What a load finds when the worker has gone on.
LEMMA GoneOn ==
    ASSUME Base, LoadGoesOn
    PROVE  /\ load' = load /\ history' = history /\ table' = table /\ came' = came /\ Made' = Made
           /\ \A t \in TaskIds : SameTask(t)
           /\ \A q \in PageIds : /\ pages'[q].type = pages[q].type /\ pages'[q].task = pages[q].task
                                 /\ pages'[q].list = pages[q].list
                                 /\ ~pages[q].lock => ~pages'[q].lock
  BY DEF LoadGoesOn, Takes, Called, LetsGo, Predicts, Stays, OthersSame, Like, SamePlace, SameTask, Made

LEMMA LeavingStep ==
    ASSUME Base, CameInv, Steps
    PROVE  LeavingInv'
<1>1. Facts BY BaseFacts
<1> SUFFICES ASSUME load' # NULL, load'.type = "InfoPage"
             PROVE  Had(came'.list) /\ came'.request = Request(pages[history].task)'
  <2>1. Had(came'.list) => Had(came.list)' BY GrowsOnly DEF Had
  <2> QED BY <2>1 DEF LeavingInv
<1>2. ASSUME load # NULL, load.type = "InfoPage", came' = came, history' = history,
             history \in PageIds => pages'[history].task = pages[history].task,
             \A t \in TaskIds : SameTask(t)
      PROVE  Had(came'.list) /\ came'.request = Request(pages[history].task)'
  <2>1. history \in PageIds /\ pages[history].task \in TaskIds
    BY <1>2, ShownAlive DEF Base, LoadInv
  <2>2. Request(pages[history].task)' = Request(pages[history].task)
    BY <1>2, <2>1 DEF Request, SameTask
  <2> QED BY <1>2, <2>2 DEF CameInv, LeavingInv
<1>3. CASE Starts
  <2>1. Shows("Frame") /\ pages[history].list # NULL /\ UNCHANGED <<pages, tasks, history>>
        /\ came' = [list |-> pages[history].list, request |-> Request(pages[history].task)]
    BY <1>3 DEF Starts
  <2>2. Had(pages[history].list) BY <2>1, ShownAlive DEF CameInv, ShownInv
  <2> QED BY <2>1, <2>2 DEF Request
<1>4. CASE MakesOther
  BY <1>2, <1>4 DEF MakesOther, Goes, SameTask
<1>5. CASE Fills
  <2>1. history # Made BY <1>5 DEF Fills, Base, LoadInv, Loading
  <2> QED BY <1>2, <1>5, <2>1 DEF Fills, Goes, OthersSame, SameTask
<1>6. CASE LoadGoesOn
  BY <1>2, <1>6, GoneOn
<1>7. CASE Asks
  BY <1>7, AsksTurn DEF TurnsSome, Turns
<1> QED BY <1>3, <1>4, <1>5, <1>6, <1>7
        DEF Steps, Posts, MakesFrame, Restores, Forgets, Leaves, Replaces, FrameCalled, StatusCalled,
            FanCalled, PersonCalled, Callback, Goes, LoadGoesOn

LEMMA AwayStep ==
    ASSUME Base, CameInv, Steps
    PROVE  AwayInv'
<1>1. Facts BY BaseFacts
<1> DEFINE Away == Shows("InfoPage") /\ ~(load # NULL /\ load.type = "Frame" /\ load.mode = "NEW")
<1> SUFFICES ASSUME Away'
             PROVE  Had(came'.list) /\ table' # NULL /\ Request(table)' = came'.request
  <2>1. Had(came'.list) => Had(came.list)' BY GrowsOnly DEF Had
  <2> QED BY <2>1 DEF AwayInv
<1>2. ASSUME Away, came' = came, table' = table, \A t \in TaskIds : SameTask(t)
      PROVE  Had(came'.list) /\ table' # NULL /\ Request(table)' = came'.request
  <2>1. Had(came.list) /\ table # NULL /\ Request(table) = came.request
    BY <1>2 DEF CameInv, AwayInv
  <2>2. Request(table)' = Request(table)
    BY <1>1, <1>2, <2>1 DEF Request, SameTask, Facts
  <2> QED BY <1>2, <2>1, <2>2
<1>3. CASE Asks
  <2>1. history \in PageIds /\ history' = history /\ pages'[history].type = "Frame"
    BY <1>3, AsksTurn, ShownAlive DEF TurnsSome, Turns, Asked, Shows
  <2> QED BY <2>1 DEF Shows
<1>4. CASE \E kind, request : Posts(kind, request)
  <2>1. PICK kind, request : Posts(kind, request) BY <1>4
  <2>2. Away BY <2>1 DEF Posts, Like, Shows
  <2> QED BY <1>2, <2>1, <2>2 DEF Posts, AddsTask, SamePlace
<1>5. CASE Starts
  <2>1. Away BY <1>5 DEF Starts, Shows
  <2>2. came' = came BY <1>5, <2>1 DEF Starts, Shows
  <2> QED BY <1>2, <1>5, <2>1, <2>2 DEF Starts, SameTask
<1>6. CASE MakesFrame \/ MakesOther
  <2>1. history \in PageIds /\ pages'[history] = pages[history] /\ history' = history
    BY <1>1, <1>6 DEF MakesFrame, MakesOther, Shows, Facts
  <2>2. Away BY <1>6, <2>1 DEF MakesFrame, MakesOther, Goes, Shows
  <2>3. \A t \in TaskIds : SameTask(t) BY <1>6 DEF MakesFrame, MakesOther, SameTask
  <2> QED BY <1>2, <1>6, <2>2, <2>3 DEF MakesFrame, MakesOther
<1>7. CASE Restores \/ Fills \/ Leaves
  <2>1. history \in PageIds /\ history' = history /\ history # Made
    BY <1>1, <1>7 DEF Restores, Fills, Leaves, Shows, Facts, Base, LoadInv, Loading
  <2>2. pages'[history] = pages[history] BY <1>7, <2>1 DEF Restores, Fills, Leaves, OthersSame
  <2>3. Away BY <1>7, <2>1, <2>2 DEF Restores, Fills, Leaves, Goes, Shows
  <2>4. \A t \in TaskIds : SameTask(t) BY <1>7 DEF Restores, Fills, Leaves, SameTask
  <2> QED BY <1>2, <1>7, <2>3, <2>4 DEF Restores, Fills, Leaves
<1>8. CASE Forgets
  BY <1>8 DEF Forgets, Goes
<1>9. CASE Replaces
  <2>1. history' = Made /\ pages' = pages /\ load # NULL /\ pages[Made].type = load.type
    BY <1>9 DEF Replaces, Base, LoadInv, Loading
  <2>2. load.type = "InfoPage" BY <2>1 DEF Shows
  <2>3. Shows("Frame") BY <2>1, <2>2 DEF Base, LoadInv
  <2>4. came' = came /\ table' = pages[history].task /\ table' \in TaskIds /\ SameTask(table')
    BY <1>9, <2>2, <2>3 DEF Replaces, SamePlace
  <2>5. Request(table)' = Request(pages[history].task) BY <2>4 DEF SameTask, Request
  <2>6. Had(came.list) /\ came.request = Request(pages[history].task)
    BY <2>1, <2>2 DEF CameInv, LeavingInv
  <2>7. table' # NULL BY <1>1, <2>4 DEF Facts
  <2> QED BY <2>4, <2>5, <2>6, <2>7
<1>10. CASE LoadGoesOn
  <2>1. Away
    <3>1. history \in PageIds BY <1>1, <1>10, GoneOn DEF Shows, Facts
    <3> QED BY <1>10, <3>1, GoneOn DEF Shows
  <2> QED BY <1>2, <1>10, <2>1, GoneOn
<1>11. CASE FrameCalled \/ StatusCalled \/ FanCalled \/ PersonCalled
  <2>1. /\ load = NULL /\ UNCHANGED <<history, table, tasks, came>>
        /\ \A q \in PageIds : pages'[q].type = pages[q].type
    BY <1>11 DEF FrameCalled, StatusCalled, FanCalled, PersonCalled, Callback, OthersSame, Loaded, Like
  <2>2. Away
    <3>1. history \in PageIds BY <1>1, <2>1 DEF Shows, Facts
    <3> QED BY <2>1, <3>1 DEF Shows
  <2> QED BY <1>2, <2>1, <2>2 DEF SameTask
<1> QED BY <1>3, <1>4, <1>5, <1>6, <1>7, <1>8, <1>9, <1>10, <1>11 DEF Steps, LoadGoesOn

LEMMA BackStep ==
    ASSUME Base, LockInv, CameInv, Steps
    PROVE  BackInv'
<1>1. Facts BY BaseFacts
<1> SUFFICES ASSUME load' # NULL, load'.type = "Frame", load'.mode = "DEFAULT", load'.step = "show"
             PROVE  /\ Request(pages[Made].task)' = came'.request
                    /\ trouble' = {} /\ came'.list = came'.request =>
                          pages'[Made'].list = came'.list /\ ~pages'[Made'].lock
  BY DEF BackInv
<1>2. CASE Restores \/ Leaves
  <2>1. load # NULL /\ load.step = "data" /\ load.type = "Frame" /\ load.mode = "DEFAULT"
    BY <1>2 DEF Restores, Leaves, Goes
  <2>2. Had(came.list) /\ table # NULL /\ Request(table) = came.request
    BY <2>1 DEF CameInv, AwayInv, Base, LoadInv
  <2>3. /\ Made \in PageIds /\ Made' = Made /\ came' = came /\ trouble' = trouble
        /\ Asked(pages'[Made], pages[Made], table, Request(table), Request(table).page)
        /\ table \in TaskIds /\ SameTask(table)
    BY <1>2, <2>1, <2>2 DEF Restores, Leaves, OthersSame, Made
  <2>4. Request(pages[Made].task)' = Request(table)
    <3>1. pages'[Made].task = table BY <2>3 DEF Asked
    <3> QED BY <2>3, <3>1 DEF Request, SameTask
  <2>5. ASSUME trouble = {}, came.list = came.request
        PROVE  pages'[Made].list = came.list /\ ~pages'[Made].lock
    <3>1. ~pages[Made].lock BY <2>1, <2>2, <2>5 DEF LockInv, DefaultInv, Good
    <3>2. Request(table) \in stored /\ Total[Request(table).query] > 0
      BY <2>2, <2>5 DEF Had
    <3> QED BY <2>2, <2>3, <2>5, <3>1, <3>2 DEF Asked
  <2> QED BY <2>2, <2>3, <2>4, <2>5
<1>3. CASE LoadGoesOn
  <2>1. /\ load' = load /\ history' = history /\ came' = came /\ Made' = Made
        /\ \A t \in TaskIds : SameTask(t)
        /\ \A q \in PageIds : /\ pages'[q].type = pages[q].type /\ pages'[q].task = pages[q].task
                              /\ pages'[q].list = pages[q].list
                              /\ ~pages[q].lock => ~pages'[q].lock
    BY <1>3, GoneOn
  <2>2. Made \in PageIds /\ pages[Made].type = "Frame"
    BY <1>1, <2>1 DEF Facts, Loading, Base, LoadInv
  <2>3. pages[Made].task \in TaskIds BY <2>2 DEF Base, KindInv
  <2>4. Request(pages[Made].task)' = Request(pages[Made].task)
    BY <2>1, <2>2, <2>3 DEF Request, SameTask
  <2>5. trouble' = {} => trouble = {} BY GrowsOnly
  <2> QED BY <2>1, <2>2, <2>4, <2>5 DEF CameInv, BackInv
<1>4. CASE Asks
  BY <1>4, AsksTurn DEF TurnsSome, Turns
<1> QED BY <1>2, <1>3, <1>4
        DEF Steps, Starts, Posts, MakesFrame, MakesOther, Forgets, Fills, Replaces, FrameCalled,
            StatusCalled, FanCalled, PersonCalled, Callback, Goes, LoadGoesOn

LEMMA CameHolds == Spec => [](Base /\ LockInv /\ CameInv)
<1>1. Init => CameInv
  <2>1. Init => PageIds = {} /\ history = NULL /\ (load = NULL \/ (load.type = "Login" /\ load.step = "new"))
    BY DEF Init, PageIds
  <2> QED BY <2>1 DEF CameInv, ShownInv, LeavingInv, AwayInv, BackInv, Shows
<1>2. Base /\ LockInv /\ CameInv /\ [Next]_vars => CameInv'
  <2> SUFFICES ASSUME Base, LockInv, CameInv, [Next]_vars
               PROVE  CameInv'
    OBVIOUS
  <2>1. Steps BY BaseStep
  <2> QED BY <2>1, ShownStep, LeavingStep, AwayStep, BackStep DEF CameInv
<1> QED BY <1>1, <1>2, LockHolds, PTL DEF Spec

\* Who presses "return" on an info page finds the request of the frame he left and,
\* if no call failed and the frame showed the results of that request, its list at
\* once: the saved task, the proxy and the default list of the new frame agree.
THEOREM ReturnFindsList == Spec => ReturnsToList
<1> DEFINE Back ==
      load # NULL /\ load' = NULL /\ load.type = "Frame" /\ load.mode = "DEFAULT" =>
          LET f == pages'[history'] IN
          /\ tasks'[f.task].request = came.request
          /\ trouble = {} /\ came.list = came.request => f.list = came.list /\ ~f.lock
<1>1. ASSUME Base, LockInv, CameInv, [Next]_vars
      PROVE  [Back]_vars
  <2> SUFFICES ASSUME load # NULL, load' = NULL, load.type = "Frame", load.mode = "DEFAULT"
               PROVE  LET f == pages'[history'] IN
                      /\ tasks'[f.task].request = came.request
                      /\ trouble = {} /\ came.list = came.request => f.list = came.list /\ ~f.lock
    OBVIOUS
  <2>1. Steps BY <1>1, BaseStep
  <2>2. Replaces
    <3>1. CASE Asks BY <1>1, <3>1, AsksTurn DEF TurnsSome, Turns
    <3> QED BY <2>1, <3>1 DEF Steps, Starts, Posts, MakesFrame, MakesOther, Restores, Forgets, Fills,
            Leaves, Takes, Called, FrameCalled, StatusCalled, FanCalled, PersonCalled, Callback,
            LetsGo, Predicts, Stays, Goes
  <2>3. /\ load.step = "show" /\ history' = Made /\ pages' = pages /\ Made \in PageIds
        /\ \A t \in TaskIds : SamePlace(t)
    BY <2>2 DEF Replaces
  <2>4. pages[Made].task \in TaskIds
    BY <1>1, <2>3 DEF Base, KindInv, LoadInv, Loading
  <2>5. tasks'[pages[Made].task].request = Request(pages[Made].task)
    BY <2>3, <2>4 DEF SamePlace, SameTask, Request
  <2> QED BY <1>1, <2>3, <2>5 DEF CameInv, BackInv
<1>2. ReturnsToList <=> [][Back]_vars BY PTL DEF ReturnsToList
<1> HIDE DEF Back
<1> QED BY <1>1, <1>2, CameHolds, PTL DEF Spec
=============================================================================
