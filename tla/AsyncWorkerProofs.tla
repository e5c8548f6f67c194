-------------------------- MODULE AsyncWorkerProofs --------------------------
(***************************************************************************)
(* Invariance proofs about AsyncWorker, for any number of tasks, threads   *)
(* and priorities.                                                         *)
(***************************************************************************)
EXTENDS AsyncWorker, ListLemmas

(***************************************************************************)
(* Type correctness.                                                       *)
(***************************************************************************)

\* A thread between picking a task and finishing it has a task in hand.
HandInv ==
    \A w \in Threads :
        pc[w] \in {"check", "start", "func", "after", "calling", "callback", "finish",
                   "adding", "create", "store"}
            => work[w] \in Tasks

TypeInv == TypeOK /\ HandInv

\* The initial state is well typed.
LEMMA TypeInit == Init => TypeInv
<1> SUFFICES ASSUME Init PROVE TypeInv
  OBVIOUS
<1>1. tasks \in Seq(Tasks)
      /\ idle \in Seq([kind : {"started", "finished", "donothing", "restart"},
                       task : Tasks])
  BY EmptySeq DEF Init
<1>2. calls \in 0 .. MaxCalls
  BY ConfigAssumption DEF Init
<1>3. TypeOK
  BY <1>1, <1>2 DEF Init, TypeOK, Procs, Labels, WorkerLabels, MainLabels, Unadded
<1>4. HandInv
  BY ProcAssumption DEF Init, HandInv, Procs
<1> QED BY <1>3, <1>4 DEF TypeInv

\* An idle source joins the well typed ones.
LEMMA PostTyped ==
    ASSUME TypeOK, NEW t \in Tasks,
           NEW kind \in {"started", "finished", "donothing", "restart"},
           Post(Source(kind, t))
    PROVE  idle' \in Seq([kind : {"started", "finished", "donothing", "restart"},
                          task : Tasks])
<1> DEFINE Sources == [kind : {"started", "finished", "donothing", "restart"},
                       task : Tasks]
<1>1. Source(kind, t) \in Sources /\ idle \in Seq(Sources)
  BY DEF Source, TypeOK
<1> QED BY <1>1, AppendProperties DEF Post

\* Every step keeps the state well typed.
LEMMA TypeStep == TypeInv /\ [Next]_vars => TypeInv'
<1> SUFFICES ASSUME TypeInv, [Next]_vars PROVE TypeInv'
  OBVIOUS
<1> USE ProcAssumption, ConfigAssumption
    DEF queueVars, flagVars, taskVars, callVars, history, Goto, Procs, Labels,
        WorkerLabels, MainLabels
<1>1. ASSUME NEW p \in Procs, NEW t \in Tasks,
             Add(p, t)
      PROVE  TypeInv'
  <2>1. PICK k \in 1 .. Len(tasks) + 1 : tasks' = InsertAt(tasks, k, t)
    BY <1>1 DEF Add
  <2>2. tasks' \in Seq(Tasks)
    BY <2>1, InsertAtProperties DEF TypeInv, TypeOK
  <2>3. TypeOK'
    <3>1. pc' \in [Procs -> Labels] /\ resume' \in [Procs -> Labels]
          /\ lock' \in Procs \cup {NULL}
      <4> DEFINE returnTo == IF pc[p] = "adding" THEN resume[p] ELSE pc[p]
      <4>1. returnTo \in Labels
        BY DEF TypeInv, TypeOK
      <4> HIDE DEF returnTo
      <4>2. \/ /\ lock' = p /\ pc' = [pc EXCEPT ![p] = "create"]
               /\ resume' = [resume EXCEPT ![p] = returnTo]
            \/ /\ lock' = lock /\ pc' = [pc EXCEPT ![p] = returnTo]
               /\ resume' = [resume EXCEPT ![p] = "loop"]
        BY <1>1 DEF Add, returnTo
      <4>3. /\ lock \in Procs \cup {NULL}
            /\ pc \in [Procs -> Labels] /\ resume \in [Procs -> Labels]
        BY DEF TypeInv, TypeOK
      <4>4. "create" \in Labels /\ "loop" \in Labels
        OBVIOUS
      <4> HIDE DEF Labels, Procs
      <4> QED BY <4>1, <4>2, <4>3, <4>4
    <3>2. idseed' \in Nat /\ id' \in [Tasks -> Nat] /\ queue' \in [Tasks -> BOOLEAN]
      BY <1>1 DEF Add, TypeInv, TypeOK
    <3> QED BY <1>1, <2>2, <3>1, <3>2 DEF Add, TypeInv, TypeOK
  <2>4. HandInv'
    BY <1>1, <2>2 DEF Add, MayAdd, TypeInv, TypeOK, HandInv
  <2> QED BY <2>3, <2>4 DEF TypeInv
<1>2. ASSUME NEW w \in Threads,
             BlockOnAdd(w)
      PROVE  TypeInv'
  BY <1>2 DEF BlockOnAdd, TypeInv, TypeOK, HandInv, MayAdd
<1>3. ASSUME NEW t \in Tasks, NEW value \in Priorities,
             SetPriority(t, value)
      PROVE  TypeInv'
  BY <1>3 DEF SetPriority, TypeInv, TypeOK, HandInv, MayCall, MayCallBounded
<1>4. ASSUME NEW t \in Tasks, NEW runCallback \in BOOLEAN,
             RemoveTask(t, runCallback)
      PROVE  TypeInv'
  BY <1>4 DEF RemoveTask, TypeInv, TypeOK, HandInv, MayCall, CancelMark
<1>5. ASSUME RemoveWithoutCurrent PROVE TypeInv'
  BY <1>5 DEF RemoveWithoutCurrent, TypeInv, TypeOK, HandInv, MayCall, Crash
<1>6. ASSUME NEW t \in Tasks,
             RequestCancel(t)
      PROVE  TypeInv'
  BY <1>6 DEF RequestCancel, TypeInv, TypeOK, HandInv, MayCall
<1>7. ASSUME Join PROVE TypeInv'
  BY <1>7 DEF Join, TypeInv, TypeOK, HandInv, MayCall, MayCallBounded
<1>8. ASSUME Dispose PROVE TypeInv'
  BY <1>8 DEF Dispose, TypeInv, TypeOK, HandInv, MayCall, MayCallBounded
<1>9. ASSUME NEW p \in Procs, NEW w \in Threads,
             CreateThread(p, w)
      PROVE  TypeInv'
  BY <1>9 DEF CreateThread, TypeInv, TypeOK, HandInv
<1>10. ASSUME NEW p \in Procs,
             StoreThread(p)
      PROVE  TypeInv'
  BY <1>10 DEF StoreThread, TypeInv, TypeOK, HandInv
<1>11. ASSUME SortTasks PROVE TypeInv'
  <2>1. PICK p \in [1 .. Len(tasks) -> 1 .. Len(tasks)] :
            tasks' = [i \in 1 .. Len(tasks) |-> tasks[p[i]]]
    BY <1>11 DEF SortTasks
  <2>2. Len(tasks) \in Nat /\ \A i \in 1 .. Len(tasks) : tasks[p[i]] \in Tasks
    <3>1. tasks \in Seq(Tasks)
      BY DEF TypeInv, TypeOK
    <3>2. Len(tasks) \in Nat /\ tasks \in [1 .. Len(tasks) -> Tasks]
      BY <3>1, LenProperties
    <3> QED BY <2>1, <3>2
  <2>3. tasks' \in Seq(Tasks)
    BY <2>1, <2>2, IsASeq
  <2> QED BY <1>11, <2>3 DEF SortTasks, TypeInv, TypeOK, HandInv
<1>12. ASSUME JoinTest PROVE TypeInv'
  BY <1>12 DEF JoinTest, TypeInv, TypeOK, HandInv
<1>13. ASSUME JoinRead PROVE TypeInv'
  BY <1>13 DEF JoinRead, TypeInv, TypeOK, HandInv
<1>14. ASSUME JoinWait PROVE TypeInv'
  BY <1>14 DEF JoinWait, TypeInv, TypeOK, HandInv
<1>15. ASSUME JoinReturn PROVE TypeInv'
  BY <1>15 DEF JoinReturn, TypeInv, TypeOK, HandInv
<1>16. ASSUME Dispatch PROVE TypeInv'
  <2>1. idle' \in Seq([kind : {"started", "finished", "donothing", "restart"},
                      task : Tasks])
    BY <1>16, HeadTailProperties DEF Dispatch, TypeInv, TypeOK
  <2>2. TypeOK'
    <3>1. pc' \in [Procs -> Labels] /\ resume' \in [Procs -> Labels]
      BY <1>16 DEF Dispatch, TypeInv, TypeOK
    <3> HIDE DEF Labels, Procs
    <3> QED BY <1>16, <2>1, <3>1 DEF Dispatch, TypeInv, TypeOK
  <2>3. HandInv'
    BY <1>16, <2>1 DEF Dispatch, TypeInv, TypeOK, HandInv
  <2> QED BY <2>2, <2>3 DEF TypeInv
<1>17. ASSUME NEW w \in Threads,
             Pick(w)
      PROVE  TypeInv'
  <2>1. tasks # <<>> => Head(tasks) \in Tasks
    BY HeadTailProperties DEF TypeInv, TypeOK
  <2>2. TypeOK'
    <3>1. CASE tasks = <<>>
      BY <1>17, <3>1 DEF Pick, TypeInv, TypeOK
    <3>2. CASE tasks # <<>>
      <4>1. /\ pc' = [pc EXCEPT ![w] = "check"] /\ current' = Head(tasks)
            /\ work' = [work EXCEPT ![w] = Head(tasks)]
        BY <1>17, <3>2 DEF Pick
      <4>2. /\ pc' \in [Procs -> Labels] /\ current' \in Tasks \cup {NULL}
            /\ work' \in [Threads -> Tasks \cup {NULL}]
        BY <2>1, <3>2, <4>1 DEF TypeInv, TypeOK
      <4> QED BY <1>17, <4>2 DEF Pick, TypeInv, TypeOK
    <3> QED BY <3>1, <3>2
  <2>3. HandInv'
    BY <1>17, <2>1 DEF Pick, TypeInv, TypeOK, HandInv
  <2> QED BY <2>2, <2>3 DEF TypeInv
<1>18. ASSUME NEW w \in Threads,
             StopEmpty(w)
      PROVE  TypeInv'
  BY <1>18 DEF StopEmpty, TypeInv, TypeOK, HandInv
<1>19. ASSUME NEW w \in Threads,
             StartFunc(w)
      PROVE  TypeInv'
  <2>1. work[w] \in Tasks
    BY <1>19 DEF StartFunc, TypeInv, HandInv
  <2>2. idle' \in Seq([kind : {"started", "finished", "donothing", "restart"},
                      task : Tasks])
    BY <1>19, <2>1, PostTyped DEF StartFunc, TypeInv
  <2> QED BY <1>19, <2>1, <2>2 DEF StartFunc, TypeInv, TypeOK, HandInv
<1>20. ASSUME NEW w \in Threads,
             SkipFunc(w)
      PROVE  TypeInv'
  BY <1>20 DEF SkipFunc, TypeInv, TypeOK, HandInv
<1>21. ASSUME NEW w \in Threads,
             FuncReturn(w)
      PROVE  TypeInv'
  BY <1>21 DEF FuncReturn, TypeInv, TypeOK, HandInv
<1>22. ASSUME NEW w \in Threads, NEW runCallback \in BOOLEAN,
             CancelPoint(w, runCallback)
      PROVE  TypeInv'
  <2>1. work[w] \in Tasks
    BY <1>22 DEF CancelPoint, TypeInv, HandInv
  <2>2. idle' \in Seq([kind : {"started", "finished", "donothing", "restart"},
                      task : Tasks])
    BY <1>22, <2>1, PostTyped DEF CancelPoint, TypeInv
  <2> QED BY <1>22, <2>1, <2>2 DEF CancelPoint, TypeInv, TypeOK, HandInv, CancelMark
<1>23. ASSUME NEW w \in Threads,
             CancelUnqueued(w)
      PROVE  TypeInv'
  BY <1>23 DEF CancelUnqueued, TypeInv, TypeOK, HandInv, Crash
<1>24. ASSUME NEW w \in Threads,
             EnterCallback(w)
      PROVE  TypeInv'
  <2>1. work[w] \in Tasks
    BY <1>24 DEF EnterCallback, TypeInv, HandInv
  <2> QED BY <1>24, <2>1 DEF EnterCallback, TypeInv, TypeOK, HandInv
<1>25. ASSUME NEW w \in Threads,
             SkipCallback(w)
      PROVE  TypeInv'
  BY <1>25 DEF SkipCallback, TypeInv, TypeOK, HandInv
<1>26. ASSUME NEW w \in Threads,
             CallbackReturn(w)
      PROVE  TypeInv'
  BY <1>26 DEF CallbackReturn, TypeInv, TypeOK, HandInv
<1>27. ASSUME NEW w \in Threads,
             Finish(w)
      PROVE  TypeInv'
  <2>1. work[w] \in Tasks
    BY <1>27 DEF Finish, TypeInv, HandInv
  <2>2. idle' \in Seq([kind : {"started", "finished", "donothing", "restart"},
                      task : Tasks])
    BY <1>27, <2>1, PostTyped DEF Finish, TypeInv
  <2>3. tasks' \in Seq(Tasks)
    BY <1>27, RemoveAtProperties DEF Finish, TypeInv, TypeOK
  <2>4. TypeOK'
    <3>1. /\ pc' \in [Procs -> Labels] /\ queue' \in [Tasks -> BOOLEAN]
          /\ thread' \in Threads \cup {NULL}
          /\ work' \in [Threads -> Tasks \cup {NULL}]
      BY <1>27 DEF Finish, TypeInv, TypeOK
    <3> HIDE DEF Labels, Procs
    <3> QED BY <1>27, <2>2, <2>3, <3>1 DEF Finish, TypeInv, TypeOK
  <2>5. HandInv'
    <3>1. /\ pc'[w] \in {"pick", "trail"}
          /\ \A v \in Threads : v # w => pc'[v] = pc[v] /\ work'[v] = work[v]
      BY <1>27 DEF Finish, TypeInv, TypeOK
    <3> QED BY <3>1 DEF TypeInv, HandInv
  <2> QED BY <2>4, <2>5 DEF TypeInv
<1>28. ASSUME NEW w \in Threads,
             FinishTwice(w)
      PROVE  TypeInv'
  BY <1>28 DEF FinishTwice, TypeInv, TypeOK, HandInv, Crash
<1>29. ASSUME NEW w \in Threads,
             Trail(w)
      PROVE  TypeInv'
  BY <1>29 DEF Trail, TypeInv, TypeOK, HandInv
<1>30. ASSUME NEW w \in Threads,
             TestFunc(w)
      PROVE  TypeInv'
  BY <1>30 DEF TestFunc, TypeInv, TypeOK, HandInv
<1>31. ASSUME NEW w \in Threads,
             TestCallback(w)
      PROVE  TypeInv'
  BY <1>31 DEF TestCallback, TypeInv, TypeOK, HandInv
<1>32. CASE UNCHANGED vars
  BY <1>32 DEF vars, TypeInv, TypeOK, HandInv
<1> QED
  BY <1>1, <1>2, <1>3, <1>4, <1>5, <1>6, <1>7, <1>8, <1>9, <1>10, <1>11,
     <1>12, <1>13, <1>14, <1>15, <1>16, <1>17, <1>18, <1>19, <1>20, <1>21,
     <1>22, <1>23, <1>24, <1>25, <1>26, <1>27, <1>28, <1>29, <1>30, <1>31, <1>32
  DEF Next, Client, MainStep, Advance, Choice

\* Under any scheduling of the threads and any use of the calls, every
\* variable keeps its type.
THEOREM TypeCorrect == Spec => []TypeOK
<1>1. TypeInv => TypeOK
  BY DEF TypeInv
<1> QED BY <1>1, TypeInit, TypeStep, PTL DEF Spec

(***************************************************************************)
(* The list.                                                               *)
(***************************************************************************)

\* Beside being ordered, the list holds tasks that were added and know their
\* queue: so a task that is added is not in it yet, and the priority of a task
\* in it is not changed without a sort.
ListInv ==
    /\ ListOrdered
    /\ \A i \in 1 .. Len(tasks) : queue[tasks[i]] /\ id[tasks[i]] # Unadded

LEMMA ListInit == Init => ListInv
<1> SUFFICES ASSUME Init PROVE ListInv
  OBVIOUS
<1>1. tasks = <<>> /\ Len(tasks) = 0 /\ DOMAIN tasks = {}
  BY DEF Init
<1> QED BY <1>1 DEF ListInv, ListOrdered, IsInjective

\* A step that leaves the list and what it is ordered by alone.
LEMMA ListFrame ==
    ASSUME ListInv, UNCHANGED <<tasks, priority, id, queue>>,
           pc'[Main] # "sort" => pc[Main] # "sort"
    PROVE  ListInv'
BY DEF ListInv, ListOrdered, IsInjective

LEMMA ListStep == TypeInv /\ ListInv /\ [Next]_vars => ListInv'
<1> SUFFICES ASSUME TypeInv, ListInv, [Next]_vars PROVE ListInv'
  OBVIOUS
<1> USE ProcAssumption DEF queueVars, flagVars, taskVars, callVars, history, Goto
<1>a. /\ tasks \in Seq(Tasks) /\ Len(tasks) \in Nat /\ DOMAIN tasks = 1 .. Len(tasks)
      /\ \A i \in 1 .. Len(tasks) : tasks[i] \in Tasks
      /\ IsInjective(tasks)
      /\ pc \in [Procs -> Labels] /\ Main \in Procs
  BY LenProperties DEF TypeInv, TypeOK, ListInv, ListOrdered, Procs
<1>b. priority \in [Tasks -> Nat] /\ id \in [Tasks -> Nat]
      /\ queue \in [Tasks -> BOOLEAN] /\ idseed \in Nat
  BY PriorityAssumption DEF TypeInv, TypeOK
<1>c. pc[Main] # "sort" => Descending(tasks, priority)
  BY DEF ListInv, ListOrdered, Descending
<1>1. ASSUME NEW p \in Procs, NEW t \in Tasks, Add(p, t)
      PROVE  ListInv'
  <2>1. PICK k \in 1 .. Len(tasks) + 1 :
            InsertsAt(t, k) /\ tasks' = InsertAt(tasks, k, t)
    BY <1>1 DEF Add
  <2>2. \A i \in 1 .. Len(tasks) : tasks[i] # t
    BY <1>1, <1>a DEF Add, ListInv
  <2>3. IsInjective(tasks')
    BY <1>a, <2>1, <2>2, InsertAtInjective
  <2>4. pc'[Main] # "sort" => pc[Main] # "sort"
    BY <1>1, <1>a DEF Add, MayAdd, Procs
  <2>5. priority' = priority
    BY <1>1 DEF Add
  <2>6. pc'[Main] # "sort" => Descending(tasks', priority)
    BY <1>a, <1>b, <1>c, <2>1, <2>4, InsertAtDescending DEF InsertsAt
  <2>7. ListOrdered'
    BY <2>3, <2>5, <2>6 DEF ListOrdered, Descending
  <2>8. ASSUME NEW i \in 1 .. Len(tasks')
        PROVE  queue'[tasks'[i]] /\ id'[tasks'[i]] # Unadded
    <3>1. tasks'[i] = t \/ \E j \in 1 .. Len(tasks) : tasks'[i] = tasks[j]
      BY <1>a, <2>1, InsertAtInjective, <2>2
    <3>2. id' = [id EXCEPT ![t] = idseed + 1] /\ queue' = [queue EXCEPT ![t] = TRUE]
      BY <1>1 DEF Add
    <3> QED BY <1>a, <1>b, <3>1, <3>2 DEF ListInv, Unadded
  <2> QED BY <2>7, <2>8 DEF ListInv
<1>2. ASSUME NEW t \in Tasks, NEW value \in Priorities, SetPriority(t, value)
      PROVE  ListInv'
  <2>1. CASE queue[t]
    <3>1. pc'[Main] = "sort" /\ UNCHANGED <<tasks, id, queue>>
      BY <1>2, <1>a, <2>1 DEF SetPriority, MayCallBounded, MayCall
    <3> QED BY <3>1 DEF ListInv, ListOrdered, IsInjective
  <2>2. CASE ~queue[t]
    <3>1. \A i \in 1 .. Len(tasks) : priority'[tasks[i]] = priority[tasks[i]]
      BY <1>2, <1>a, <1>b, <2>2 DEF SetPriority, ListInv
    <3>2. pc[Main] # "sort" /\ UNCHANGED <<tasks, id, queue>>
      BY <1>2 DEF SetPriority, MayCallBounded, MayCall
    <3> QED BY <3>1, <3>2 DEF ListInv, ListOrdered, IsInjective
  <2> QED BY <2>1, <2>2
<1>3. ASSUME SortTasks PROVE ListInv'
  <2>1. PICK p \in [1 .. Len(tasks) -> 1 .. Len(tasks)] :
            StableOrder(p) /\ tasks' = [i \in 1 .. Len(tasks) |-> tasks[p[i]]]
    BY <1>3 DEF SortTasks
  <2>2. Len(tasks') = Len(tasks) /\ DOMAIN tasks' = 1 .. Len(tasks)
    BY <1>a, <2>1, IsASeq, LenProperties
  <2>3. \A i \in 1 .. Len(tasks) : p[i] \in Int /\ priority[tasks[p[i]]] \in Nat
    BY <1>a, <1>b
  <2>4. ASSUME NEW i \in 1 .. Len(tasks), NEW j \in 1 .. Len(tasks), i < j
        PROVE  p[i] # p[j] /\ priority[tasks[p[i]]] >= priority[tasks[p[j]]]
    <3>1. \/ priority[tasks[p[i]]] > priority[tasks[p[j]]]
          \/ priority[tasks[p[i]]] = priority[tasks[p[j]]] /\ p[i] < p[j]
      BY <2>1, <2>4 DEF StableOrder
    <3> QED BY <2>3, <3>1
  <2>5. \A i, j \in 1 .. Len(tasks) : p[i] = p[j] => i = j
    BY <1>a, <2>4
  <2>6. IsInjective(tasks')
    BY <1>a, <2>1, <2>2, <2>5 DEF IsInjective
  <2>7. UNCHANGED <<priority, id, queue>>
    BY <1>3 DEF SortTasks
  <2> QED BY <1>a, <2>1, <2>2, <2>4, <2>6, <2>7 DEF ListInv, ListOrdered
<1>4. ASSUME NEW w \in Threads, Finish(w)
      PROVE  ListInv'
  <2>1. PICK k \in 1 .. Len(tasks) : tasks[k] = work[w] /\ tasks' = RemoveAt(tasks, k)
    BY <1>4 DEF Finish
  <2>2. /\ IsInjective(tasks')
        /\ \A i \in 1 .. Len(tasks') : tasks'[i] # work[w] /\
              \E j \in 1 .. Len(tasks) : tasks'[i] = tasks[j]
    BY <1>a, <2>1, RemoveAtInjective
  <2>3. priority' = priority /\ id' = id
        /\ queue' = [queue EXCEPT ![work[w]] = FALSE]
        /\ (pc'[Main] # "sort" => pc[Main] # "sort")
    BY <1>4, <1>a DEF Finish, Procs
  <2>4. pc'[Main] # "sort" => Descending(tasks', priority')
    BY <1>a, <1>c, <2>1, <2>3, RemoveAtDescending
  <2>5. ListOrdered'
    BY <2>2, <2>4 DEF ListOrdered, Descending
  <2>6. \A i \in 1 .. Len(tasks') : queue'[tasks'[i]] /\ id'[tasks'[i]] # Unadded
    BY <1>a, <1>b, <2>2, <2>3 DEF ListInv
  <2> QED BY <2>5, <2>6 DEF ListInv
<1>5. ASSUME NEW w \in Threads, BlockOnAdd(w)
      PROVE  ListInv'
  BY <1>5, <1>a, ListFrame DEF BlockOnAdd, Procs, MayAdd
<1>6. ASSUME NEW t \in Tasks, NEW runCallback \in BOOLEAN, RemoveTask(t, runCallback)
      PROVE  ListInv'
  BY <1>6, <1>a, ListFrame DEF RemoveTask, Procs
<1>7. ASSUME RemoveWithoutCurrent PROVE ListInv'
  BY <1>7, <1>a, ListFrame DEF RemoveWithoutCurrent, Procs
<1>8. ASSUME NEW t \in Tasks, RequestCancel(t)
      PROVE  ListInv'
  BY <1>8, <1>a, ListFrame DEF RequestCancel, Procs
<1>9. ASSUME Join PROVE ListInv'
  BY <1>9, <1>a, ListFrame DEF Join, Procs, MayCall, MayCallBounded
<1>10. ASSUME Dispose PROVE ListInv'
  BY <1>10, <1>a, ListFrame DEF Dispose, Procs, MayCall, MayCallBounded
<1>11. ASSUME NEW p \in Procs, NEW w \in Threads, CreateThread(p, w)
      PROVE  ListInv'
  BY <1>11, <1>a, ListFrame DEF CreateThread, Procs
<1>12. ASSUME NEW p \in Procs, StoreThread(p)
      PROVE  ListInv'
  BY <1>12, <1>a, ListFrame DEF StoreThread, Procs
<1>13. ASSUME JoinTest PROVE ListInv'
  BY <1>13, <1>a, ListFrame DEF JoinTest, Procs
<1>14. ASSUME JoinRead PROVE ListInv'
  BY <1>14, <1>a, ListFrame DEF JoinRead, Procs
<1>15. ASSUME JoinWait PROVE ListInv'
  BY <1>15, <1>a, ListFrame DEF JoinWait, Procs
<1>16. ASSUME JoinReturn PROVE ListInv'
  BY <1>16, <1>a, ListFrame DEF JoinReturn, Procs
<1>17. ASSUME Dispatch PROVE ListInv'
  BY <1>17, <1>a, ListFrame DEF Dispatch, Procs
<1>18. ASSUME NEW w \in Threads, Pick(w)
      PROVE  ListInv'
  BY <1>18, <1>a, ListFrame DEF Pick, Procs
<1>19. ASSUME NEW w \in Threads, StopEmpty(w)
      PROVE  ListInv'
  BY <1>19, <1>a, ListFrame DEF StopEmpty, Procs
<1>20. ASSUME NEW w \in Threads, StartFunc(w)
      PROVE  ListInv'
  BY <1>20, <1>a, ListFrame DEF StartFunc, Procs
<1>21. ASSUME NEW w \in Threads, SkipFunc(w)
      PROVE  ListInv'
  BY <1>21, <1>a, ListFrame DEF SkipFunc, Procs
<1>22. ASSUME NEW w \in Threads, FuncReturn(w)
      PROVE  ListInv'
  BY <1>22, <1>a, ListFrame DEF FuncReturn, Procs
<1>23. ASSUME NEW w \in Threads, NEW runCallback \in BOOLEAN, CancelPoint(w, runCallback)
      PROVE  ListInv'
  BY <1>23, <1>a, ListFrame DEF CancelPoint, Procs
<1>24. ASSUME NEW w \in Threads, CancelUnqueued(w)
      PROVE  ListInv'
  BY <1>24, <1>a, ListFrame DEF CancelUnqueued, Procs
<1>25. ASSUME NEW w \in Threads, EnterCallback(w)
      PROVE  ListInv'
  BY <1>25, <1>a, ListFrame DEF EnterCallback, Procs
<1>26. ASSUME NEW w \in Threads, SkipCallback(w)
      PROVE  ListInv'
  BY <1>26, <1>a, ListFrame DEF SkipCallback, Procs
<1>27. ASSUME NEW w \in Threads, CallbackReturn(w)
      PROVE  ListInv'
  BY <1>27, <1>a, ListFrame DEF CallbackReturn, Procs
<1>28. ASSUME NEW w \in Threads, FinishTwice(w)
      PROVE  ListInv'
  BY <1>28, <1>a, ListFrame DEF FinishTwice, Procs
<1>29. ASSUME NEW w \in Threads, Trail(w)
      PROVE  ListInv'
  BY <1>29, <1>a, ListFrame DEF Trail, Procs
<1>30. ASSUME NEW w \in Threads, TestFunc(w)
      PROVE  ListInv'
  BY <1>30, <1>a, ListFrame DEF TestFunc, Procs
<1>31. ASSUME NEW w \in Threads, TestCallback(w)
      PROVE  ListInv'
  BY <1>31, <1>a, ListFrame DEF TestCallback, Procs
<1>32. CASE UNCHANGED vars
  BY <1>32, ListFrame DEF vars
<1> QED
  BY <1>1, <1>2, <1>3, <1>4, <1>5, <1>6, <1>7, <1>8, <1>9, <1>10, <1>11,
     <1>12, <1>13, <1>14, <1>15, <1>16, <1>17, <1>18, <1>19, <1>20, <1>21,
     <1>22, <1>23, <1>24, <1>25, <1>26, <1>27, <1>28, <1>29, <1>30, <1>31, <1>32
  DEF Next, Client, MainStep, Advance, Choice, Procs

\* Under any scheduling, however adding, changing priorities and finishing
\* interleave, the list is ordered whenever no set_priority is half done.
THEOREM ListAlwaysOrdered == Spec => []ListOrdered
<1>1. ListInv => ListOrdered
  BY DEF ListInv
<1> QED BY <1>1, TypeInit, TypeStep, ListInit, ListStep, PTL DEF Spec

(***************************************************************************)
(* One worker.                                                             *)
(***************************************************************************)

\* No two threads are inside the loop.
OnlyWorker == \A v, w \in Threads : Working(v) /\ Working(w) => v = w

LEMMA OneWorkerInit == Init => OneWorkerInv
BY ProcAssumption
   DEF Init, OneWorkerInv, Working, LabelInv, HandleInv, Procs,
       WorkerLabels, MainLabels

\* The history keeps what it has recorded.
LEMMA LateStays == late /\ [Next]_vars => late'
<1> SUFFICES ASSUME late, [Next]_vars PROVE late'
  OBVIOUS
<1>1. ASSUME Client PROVE late'
  BY <1>1 DEF Client, history, Add, SetPriority, RemoveTask, RemoveWithoutCurrent,
              RequestCancel, Join, Dispose
<1>2. ASSUME MainStep PROVE late'
  BY <1>2 DEF MainStep, history, CreateThread, StoreThread, SortTasks, JoinTest,
              JoinRead, JoinWait, JoinReturn, Dispatch
<1>3. ASSUME NEW w \in Threads, Advance(w) PROVE late'
  BY <1>3 DEF Advance, history, CreateThread, StoreThread, Add, Pick, StopEmpty,
              TestFunc, StartFunc, SkipFunc, FuncReturn, TestCallback, EnterCallback,
              SkipCallback, CallbackReturn, Finish, FinishTwice, Trail
<1>4. ASSUME NEW w \in Threads, Choice(w) PROVE late'
  BY <1>4 DEF Choice, history, Add, BlockOnAdd, CancelPoint, CancelUnqueued
<1>5. CASE UNCHANGED vars
  BY <1>5 DEF vars, history
<1> QED BY <1>1, <1>2, <1>3, <1>4, <1>5 DEF Next

\* A step after which no store came too late starts from a state with one worker.
LEMMA BeforeLate ==
    ASSUME OneWorkerInv, [Next]_vars, ~late'
    PROVE  ~late /\ OnlyWorker /\ LabelInv /\ HandleInv
<1>1. ~late /\ LabelInv /\ HandleInv
  BY LateStays DEF OneWorkerInv
<1> QED BY <1>1, ProcAssumption DEF OnlyWorker, HandleInv

\* A worker that adds a task finds its own handle, or records that it does not.
LEMMA WorkerAddFinds ==
    ASSUME TypeInv, OneWorkerInv, [Next]_vars, ~late',
           NEW p \in Threads, NEW t \in Tasks, Add(p, t)
    PROVE  Working(p) /\ pc[p] \in {"func", "callback", "adding"} /\ thread # NULL
<1>1. LabelInv /\ HandleInv
  BY BeforeLate
<1>2. Main \in Procs /\ p # Main /\ p # NULL
  BY ProcAssumption DEF Procs
<1>3. Working(p) /\ pc[p] \in {"func", "callback", "adding"}
  BY <1>2 DEF Add, MayAdd, Working
<1> QED BY <1>1, <1>2, <1>3 DEF Add, MustStart, Unstored, HandleInv

\* Every step but a store that comes too late keeps the handle, the thread it
\* names and the thread that stores it in agreement.
LEMMA OneWorkerStep == TypeInv /\ OneWorkerInv /\ [Next]_vars => OneWorkerInv'
<1> SUFFICES ASSUME TypeInv, OneWorkerInv, [Next]_vars, ~late'
             PROVE  LabelInv' /\ HandleInv'
  BY DEF OneWorkerInv
<1> USE ProcAssumption DEF queueVars, flagVars, taskVars, callVars, history, Goto
<1>t. /\ pc \in [Procs -> Labels] /\ handle \in [Procs -> Threads \cup {NULL}]
      /\ resume \in [Procs -> Labels] /\ thread \in Threads \cup {NULL}
      /\ Main \in Procs /\ Main \notin Threads /\ NULL \notin Threads
      /\ \A w \in Threads : w \in Procs
  BY DEF TypeInv, TypeOK, Procs
<1>i. LabelInv /\ HandleInv
  BY LateStays DEF OneWorkerInv
<1> USE DEF Working, LabelInv, HandleInv, WorkerLabels, MainLabels
<1>1. ASSUME NEW p \in Procs, NEW t \in Tasks, Add(p, t)
      PROVE  LabelInv' /\ HandleInv'
  <2>1. CASE p = Main
    BY <1>1, <1>t, <1>i, <2>1 DEF Add, MayAdd, MustStart
  <2>2. CASE p \in Threads
    <3>1. Working(p) /\ pc[p] \in {"func", "callback", "adding"} /\ thread # NULL
      BY <1>1, <2>2, WorkerAddFinds
    <3> QED BY <1>1, <1>t, <1>i, <2>2, <3>1 DEF Add, MustStart
  <2> QED BY <2>1, <2>2 DEF Procs
<1>2. ASSUME NEW w \in Threads, BlockOnAdd(w)
      PROVE  LabelInv' /\ HandleInv'
  BY <1>2, <1>t, <1>i DEF BlockOnAdd, MayAdd
<1>3. ASSUME NEW t \in Tasks, NEW value \in Priorities, SetPriority(t, value)
      PROVE  LabelInv' /\ HandleInv'
  BY <1>3, <1>t, <1>i DEF SetPriority, MayCall, MayCallBounded
<1>4. ASSUME NEW t \in Tasks, NEW runCallback \in BOOLEAN, RemoveTask(t, runCallback)
      PROVE  LabelInv' /\ HandleInv'
  <2>1. UNCHANGED <<pc, handle, resume, thread>>
    BY <1>4 DEF RemoveTask
  <2> QED BY <1>i, <2>1
<1>5. ASSUME RemoveWithoutCurrent PROVE LabelInv' /\ HandleInv'
  <2>1. UNCHANGED <<pc, handle, resume, thread>>
    BY <1>5 DEF RemoveWithoutCurrent
  <2> QED BY <1>i, <2>1
<1>6. ASSUME NEW t \in Tasks, RequestCancel(t)
      PROVE  LabelInv' /\ HandleInv'
  <2>1. UNCHANGED <<pc, handle, resume, thread>>
    BY <1>6 DEF RequestCancel
  <2> QED BY <1>i, <2>1
<1>7. ASSUME Join PROVE LabelInv' /\ HandleInv'
  BY <1>7, <1>t, <1>i DEF Join, MayCall, MayCallBounded
<1>8. ASSUME Dispose PROVE LabelInv' /\ HandleInv'
  BY <1>8, <1>t, <1>i DEF Dispose, MayCall, MayCallBounded
<1>9. ASSUME NEW p \in Procs, NEW w \in Threads, CreateThread(p, w)
      PROVE  LabelInv' /\ HandleInv'
  BY <1>9, <1>t, <1>i DEF CreateThread, Procs
<1>10. ASSUME NEW p \in Procs, StoreThread(p)
      PROVE  LabelInv' /\ HandleInv'
  BY <1>10, <1>t, <1>i DEF StoreThread, Procs
<1>11. ASSUME SortTasks PROVE LabelInv' /\ HandleInv'
  BY <1>11, <1>t, <1>i DEF SortTasks
<1>12. ASSUME JoinTest PROVE LabelInv' /\ HandleInv'
  BY <1>12, <1>t, <1>i DEF JoinTest
<1>13. ASSUME JoinRead PROVE LabelInv' /\ HandleInv'
  BY <1>13, <1>t, <1>i DEF JoinRead
<1>14. ASSUME JoinWait PROVE LabelInv' /\ HandleInv'
  BY <1>14, <1>t, <1>i DEF JoinWait
<1>15. ASSUME JoinReturn PROVE LabelInv' /\ HandleInv'
  BY <1>15, <1>t, <1>i DEF JoinReturn
<1>16. ASSUME Dispatch PROVE LabelInv' /\ HandleInv'
  BY <1>16, <1>t, <1>i DEF Dispatch
<1>17. ASSUME NEW w \in Threads, Pick(w)
      PROVE  LabelInv' /\ HandleInv'
  BY <1>17, <1>t, <1>i DEF Pick
<1>18. ASSUME NEW w \in Threads, StopEmpty(w)
      PROVE  LabelInv' /\ HandleInv'
  BY <1>18, <1>t, <1>i DEF StopEmpty
<1>19. ASSUME NEW w \in Threads, StartFunc(w)
      PROVE  LabelInv' /\ HandleInv'
  BY <1>19, <1>t, <1>i DEF StartFunc
<1>20. ASSUME NEW w \in Threads, SkipFunc(w)
      PROVE  LabelInv' /\ HandleInv'
  BY <1>20, <1>t, <1>i DEF SkipFunc
<1>21. ASSUME NEW w \in Threads, FuncReturn(w)
      PROVE  LabelInv' /\ HandleInv'
  BY <1>21, <1>t, <1>i DEF FuncReturn
<1>22. ASSUME NEW w \in Threads, NEW runCallback \in BOOLEAN, CancelPoint(w, runCallback)
      PROVE  LabelInv' /\ HandleInv'
  BY <1>22, <1>t, <1>i DEF CancelPoint
<1>23. ASSUME NEW w \in Threads, CancelUnqueued(w)
      PROVE  LabelInv' /\ HandleInv'
  <2>1. UNCHANGED <<pc, handle, resume, thread>>
    BY <1>23 DEF CancelUnqueued
  <2> QED BY <1>i, <2>1
<1>24. ASSUME NEW w \in Threads, EnterCallback(w)
      PROVE  LabelInv' /\ HandleInv'
  BY <1>24, <1>t, <1>i DEF EnterCallback
<1>25. ASSUME NEW w \in Threads, SkipCallback(w)
      PROVE  LabelInv' /\ HandleInv'
  BY <1>25, <1>t, <1>i DEF SkipCallback
<1>26. ASSUME NEW w \in Threads, CallbackReturn(w)
      PROVE  LabelInv' /\ HandleInv'
  BY <1>26, <1>t, <1>i DEF CallbackReturn
<1>27. ASSUME NEW w \in Threads, Finish(w)
      PROVE  LabelInv' /\ HandleInv'
  BY <1>27, <1>t, <1>i DEF Finish
<1>28. ASSUME NEW w \in Threads, FinishTwice(w)
      PROVE  LabelInv' /\ HandleInv'
  <2>1. UNCHANGED <<pc, handle, resume, thread>>
    BY <1>28 DEF FinishTwice
  <2> QED BY <1>i, <2>1
<1>29. ASSUME NEW w \in Threads, Trail(w)
      PROVE  LabelInv' /\ HandleInv'
  BY <1>29, <1>t, <1>i DEF Trail
<1>30. ASSUME NEW w \in Threads, TestFunc(w)
      PROVE  LabelInv' /\ HandleInv'
  BY <1>30, <1>t, <1>i DEF TestFunc
<1>31. ASSUME NEW w \in Threads, TestCallback(w)
      PROVE  LabelInv' /\ HandleInv'
  BY <1>31, <1>t, <1>i DEF TestCallback
<1>32. CASE UNCHANGED vars
  BY <1>32, <1>i DEF vars
<1> HIDE DEF Working, LabelInv, HandleInv, WorkerLabels,
             MainLabels, queueVars, flagVars, taskVars, callVars, history, Goto
<1> QED
  BY <1>1, <1>2, <1>3, <1>4, <1>5, <1>6, <1>7, <1>8, <1>9, <1>10, <1>11,
     <1>12, <1>13, <1>14, <1>15, <1>16, <1>17, <1>18, <1>19, <1>20, <1>21,
     <1>22, <1>23, <1>24, <1>25, <1>26, <1>27, <1>28, <1>29, <1>30, <1>31, <1>32
  DEF Next, Client, MainStep, Advance, Choice, Procs

\* Two threads are never in the loop of thread_main_func at once before one of
\* the unlocked stores of the handle came too late, whatever calls are made and
\* however the threads are scheduled.
THEOREM OneWorker == Spec => []AtMostOneWorker
<1>1. OneWorkerInv => AtMostOneWorker
  BY ProcAssumption DEF OneWorkerInv, AtMostOneWorker, HandleInv
<1> QED BY <1>1, OneWorkerStep, TypeInit, TypeStep, OneWorkerInit, PTL DEF Spec

=============================================================================
