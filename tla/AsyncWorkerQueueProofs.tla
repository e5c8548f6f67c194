----------------------- MODULE AsyncWorkerQueueProofs -----------------------
(***************************************************************************)
(* What clients of the task queue rely on until one of the unlocked stores *)
(* of the thread's handle comes too late, proved of AsyncWorker for any    *)
(* number of tasks, threads and priorities.                                *)
(***************************************************************************)
EXTENDS AsyncWorkerProofs

\* Sorting rearranges the list.
LEMMA SortKeepsTasks ==
    ASSUME TypeInv, SortTasks
    PROVE  Range(tasks') = Range(tasks)
<1>1. tasks \in Seq(Tasks) /\ Len(tasks) \in Nat
      /\ \A i \in 1 .. Len(tasks) : tasks[i] \in Tasks
  BY LenProperties DEF TypeInv, TypeOK
<1>2. PICK p \in [1 .. Len(tasks) -> 1 .. Len(tasks)] :
          StableOrder(p) /\ tasks' = [i \in 1 .. Len(tasks) |-> tasks[p[i]]]
  BY DEF SortTasks
<1>a. priority \in [Tasks -> Nat]
  BY PriorityAssumption DEF TypeInv, TypeOK
<1>b. \A i \in 1 .. Len(tasks) : p[i] \in 1 .. Len(tasks)
  OBVIOUS
<1>3. \A i \in 1 .. Len(tasks) : p[i] \in Int /\ priority[tasks[p[i]]] \in Nat
  BY <1>1, <1>a, <1>b
<1>4. ASSUME NEW i \in 1 .. Len(tasks), NEW j \in 1 .. Len(tasks), i < j
      PROVE  p[i] # p[j]
  <2>1. \/ priority[tasks[p[i]]] > priority[tasks[p[j]]]
        \/ priority[tasks[p[i]]] = priority[tasks[p[j]]] /\ p[i] < p[j]
    BY <1>2, <1>4 DEF StableOrder
  <2> QED BY <1>3, <2>1
<1>5. \A i, j \in 1 .. Len(tasks) : p[i] = p[j] => i = j
  BY <1>1, <1>4
<1> QED BY <1>1, <1>2, <1>5, ReorderRange

\* Adding puts its task among those of the list.
LEMMA AddKeepsTasks ==
    ASSUME TypeInv, NEW p \in Procs, NEW t \in Tasks, Add(p, t)
    PROVE  Range(tasks') = Range(tasks) \cup {t}
BY SMTT(30), InsertAtRange DEF Add, TypeInv, TypeOK

\* Finishing takes away the task in hand and no other.
LEMMA FinishTakesTask ==
    ASSUME TypeInv, ListInv, NEW w \in Threads, Finish(w)
    PROVE  work[w] \in Range(tasks) /\ Range(tasks') = Range(tasks) \ {work[w]}
<1>1. tasks \in Seq(Tasks) /\ IsInjective(tasks)
  BY DEF TypeInv, TypeOK, ListInv, ListOrdered
<1>2. PICK i \in 1 .. Len(tasks) : tasks[i] = work[w] /\ tasks' = RemoveAt(tasks, i)
  BY DEF Finish
<1>3. tasks[i] \in Range(tasks)
  BY <1>1, RangeEquality
<1> QED BY <1>1, <1>2, <1>3, RemoveAtRange

\* What a worker picks is in the list.
LEMMA HeadInRange ==
    ASSUME TypeInv, tasks # <<>>
    PROVE  Head(tasks) \in Range(tasks)
<1>1. tasks \in Seq(Tasks)
  BY DEF TypeInv, TypeOK
<1>2. Head(tasks) = tasks[1] /\ 1 \in 1 .. Len(tasks)
  BY <1>1, HeadTailProperties, EmptySeq, LenProperties
<1> QED BY <1>1, <1>2, RangeEquality

\* A task of the list has been added.
LEMMA ListedAdded ==
    ASSUME TypeInv, ListInv, NEW t \in Range(tasks)
    PROVE  t \in Tasks /\ id[t] # Unadded /\ queue[t]
<1>1. tasks \in Seq(Tasks)
  BY DEF TypeInv, TypeOK
<1>2. PICK i \in 1 .. Len(tasks) : t = tasks[i]
  BY <1>1, RangeEquality
<1> QED BY <1>1, <1>2, LenProperties DEF ListInv

(***************************************************************************)
(* Functions and callbacks are entered once.                               *)
(***************************************************************************)

\* A worker with a task in hand, one that has entered its function, and one
\* that has entered its callback.
Busy(w) ==
    pc[w] \in {"check", "start", "func", "adding", "after", "calling", "callback",
               "finish"}
PastStart(w) ==
    pc[w] \in {"func", "adding", "after", "calling", "callback", "finish"}
PastCallback(w) ==
    pc[w] \in {"callback", "finish"} \/ (pc[w] = "adding" /\ resume[w] = "callback")

\* The task in hand stays in the list until it is finished, and stays the field
\* `current'.
HeldInv ==
    \A w \in Threads : Busy(w) => work[w] \in Range(tasks) /\ work[w] = current

\* Its flags still say, when its function or its callback is entered, what they
\* said when the worker read them: o_async_worker_remove refuses the current task.
FlagInv ==
    \A w \in Threads :
        /\ pc[w] = "start" => Runnable(work[w])
        /\ pc[w] = "calling" => CallbackWanted(work[w])

\* A task of the list whose function was entered is in hand, or it is cancelled
\* so that whoever picks it again will skip the function; and likewise for its
\* callback.  One that is out of the list is not added again.
CountInv ==
    \A t \in Tasks :
        /\ runs[t] <= 1 /\ callbacks[t] <= 1
        /\ id[t] = Unadded => runs[t] = 0 /\ callbacks[t] = 0
        /\ t \in Range(tasks) /\ runs[t] = 1 =>
              \/ cancelled[t] # "NOT_CANCELLED"
              \/ \E w \in Threads : PastStart(w) /\ work[w] = t
        /\ t \in Range(tasks) /\ callbacks[t] = 1 =>
              \E w \in Threads : PastCallback(w) /\ work[w] = t

\* All of that, as long as no store of the handle came too late.
RunsInv == late \/ (HeldInv /\ FlagInv /\ CountInv)

LEMMA RunsInit == Init => RunsInv
BY ProcAssumption DEF Init, RunsInv, HeldInv, FlagInv, CountInv, Busy, Procs

\* Only the one worker finishes tasks, and what it has in hand it finishes last.
LEMMA HeldStep ==
    ASSUME TypeInv, ListInv, OneWorkerInv, HeldInv, [Next]_vars, ~late'
    PROVE  HeldInv'
<1> USE ProcAssumption DEF queueVars, flagVars, taskVars, callVars, history, Goto
<1>t. /\ pc \in [Procs -> Labels] /\ handle \in [Procs -> Threads \cup {NULL}]
      /\ resume \in [Procs -> Labels] /\ thread \in Threads \cup {NULL}
      /\ work \in [Threads -> Tasks \cup {NULL}]
      /\ Main \in Procs /\ Main \notin Threads /\ NULL \notin Threads
      /\ \A w \in Threads : w \in Procs
  BY DEF TypeInv, TypeOK, Procs
<1>i. OnlyWorker /\ LabelInv /\ HandleInv
  BY BeforeLate
<1> USE DEF OnlyWorker, Working, LabelInv, WorkerLabels, MainLabels, HeldInv,
            Busy
<1>1. ASSUME NEW p \in Procs, NEW t \in Tasks, Add(p, t)
      PROVE  HeldInv'
  <2>1. Range(tasks) \subseteq Range(tasks')
    BY <1>1, AddKeepsTasks
  <2> QED BY <1>1, <1>t, <1>i, <2>1 DEF Add, MayAdd, Procs
<1>2. ASSUME NEW w \in Threads, BlockOnAdd(w)
      PROVE  HeldInv'
  BY <1>2, <1>t, <1>i DEF BlockOnAdd, MayAdd
<1>3. ASSUME NEW t \in Tasks, NEW value \in Priorities, SetPriority(t, value)
      PROVE  HeldInv'
  BY <1>3, <1>t, <1>i DEF SetPriority, MayCall, MayCallBounded
<1>4. ASSUME NEW t \in Tasks, NEW runCallback \in BOOLEAN, RemoveTask(t, runCallback)
      PROVE  HeldInv'
  BY <1>4, <1>t, <1>i DEF RemoveTask, MayCall
<1>5. ASSUME RemoveWithoutCurrent PROVE HeldInv'
  BY <1>5, <1>t, <1>i DEF RemoveWithoutCurrent
<1>6. ASSUME NEW t \in Tasks, RequestCancel(t)
      PROVE  HeldInv'
  BY <1>6, <1>t, <1>i DEF RequestCancel, MayCall
<1>7. ASSUME Join PROVE HeldInv'
  BY <1>7, <1>t, <1>i DEF Join, MayCall, MayCallBounded
<1>8. ASSUME Dispose PROVE HeldInv'
  BY <1>8, <1>t, <1>i DEF Dispose, MayCall, MayCallBounded
<1>9. ASSUME NEW p \in Procs, NEW w \in Threads, CreateThread(p, w)
      PROVE  HeldInv'
  BY <1>9, <1>t, <1>i DEF CreateThread, Procs
<1>10. ASSUME NEW p \in Procs, StoreThread(p)
      PROVE  HeldInv'
  BY <1>10, <1>t, <1>i DEF StoreThread, Procs
<1>11. ASSUME SortTasks PROVE HeldInv'
  <2>1. Range(tasks') = Range(tasks)
    BY <1>11, SortKeepsTasks
  <2> QED BY <1>11, <1>t, <1>i, <2>1 DEF SortTasks
<1>12. ASSUME JoinTest PROVE HeldInv'
  BY <1>12, <1>t, <1>i DEF JoinTest
<1>13. ASSUME JoinRead PROVE HeldInv'
  BY <1>13, <1>t, <1>i DEF JoinRead
<1>14. ASSUME JoinWait PROVE HeldInv'
  BY <1>14, <1>t, <1>i DEF JoinWait
<1>15. ASSUME JoinReturn PROVE HeldInv'
  BY <1>15, <1>t, <1>i DEF JoinReturn, HandleInv
<1>16. ASSUME Dispatch PROVE HeldInv'
  BY <1>16, <1>t, <1>i DEF Dispatch
<1>17. ASSUME NEW w \in Threads, Pick(w)
      PROVE  HeldInv'
  BY <1>17, <1>t, <1>i, HeadInRange DEF Pick
<1>18. ASSUME NEW w \in Threads, StopEmpty(w)
      PROVE  HeldInv'
  BY <1>18, <1>t, <1>i DEF StopEmpty
<1>19. ASSUME NEW w \in Threads, StartFunc(w)
      PROVE  HeldInv'
  BY <1>19, <1>t, <1>i DEF StartFunc
<1>20. ASSUME NEW w \in Threads, SkipFunc(w)
      PROVE  HeldInv'
  BY <1>20, <1>t, <1>i DEF SkipFunc
<1>21. ASSUME NEW w \in Threads, FuncReturn(w)
      PROVE  HeldInv'
  BY <1>21, <1>t, <1>i DEF FuncReturn
<1>22. ASSUME NEW w \in Threads, NEW runCallback \in BOOLEAN, CancelPoint(w, runCallback)
      PROVE  HeldInv'
  BY <1>22, <1>t, <1>i DEF CancelPoint
<1>23. ASSUME NEW w \in Threads, CancelUnqueued(w)
      PROVE  HeldInv'
  BY <1>23, <1>t, <1>i DEF CancelUnqueued
<1>24. ASSUME NEW w \in Threads, EnterCallback(w)
      PROVE  HeldInv'
  BY <1>24, <1>t, <1>i DEF EnterCallback
<1>25. ASSUME NEW w \in Threads, SkipCallback(w)
      PROVE  HeldInv'
  BY <1>25, <1>t, <1>i DEF SkipCallback
<1>26. ASSUME NEW w \in Threads, CallbackReturn(w)
      PROVE  HeldInv'
  BY <1>26, <1>t, <1>i DEF CallbackReturn
<1>27. ASSUME NEW w \in Threads, Finish(w)
      PROVE  HeldInv'
  <2>1. Range(tasks') = Range(tasks) \ {work[w]}
    BY <1>27, FinishTakesTask
  <2>2. \A v \in Threads : v # w => ~Working(v) /\ pc'[v] = pc[v]
    BY <1>27, <1>t, <1>i DEF Finish
  <2>3. ~Busy(w)'
    BY <1>27, <1>t DEF Finish
  <2> QED BY <1>t, <1>i, <2>1, <2>2, <2>3
<1>28. ASSUME NEW w \in Threads, FinishTwice(w)
      PROVE  HeldInv'
  BY <1>28, <1>t, <1>i DEF FinishTwice
<1>29. ASSUME NEW w \in Threads, Trail(w)
      PROVE  HeldInv'
  BY <1>29, <1>t, <1>i DEF Trail
<1>30. ASSUME NEW w \in Threads, TestFunc(w)
      PROVE  HeldInv'
  BY <1>30, <1>t, <1>i DEF TestFunc
<1>31. ASSUME NEW w \in Threads, TestCallback(w)
      PROVE  HeldInv'
  BY <1>31, <1>t, <1>i DEF TestCallback
<1>32. CASE UNCHANGED vars
  BY <1>32 DEF vars
<1> QED
  BY <1>1, <1>2, <1>3, <1>4, <1>5, <1>6, <1>7, <1>8, <1>9, <1>10, <1>11, <1>12,
     <1>13, <1>14, <1>15, <1>16, <1>17, <1>18, <1>19, <1>20, <1>21, <1>22,
     <1>23, <1>24, <1>25, <1>26, <1>27, <1>28, <1>29, <1>30, <1>31, <1>32
  DEF Next, Client, MainStep, Advance, Choice, Procs

\* A worker about to enter a function or a callback has the current task in hand,
\* whose flags nobody else writes.
LEMMA FlagStep ==
    ASSUME TypeInv, OneWorkerInv, HeldInv, FlagInv, [Next]_vars, ~late'
    PROVE  FlagInv'
<1> USE ProcAssumption DEF queueVars, flagVars, taskVars, callVars, history, Goto
<1>t. /\ pc \in [Procs -> Labels] /\ resume \in [Procs -> Labels]
      /\ work \in [Threads -> Tasks \cup {NULL}]
      /\ removed \in [Tasks -> BOOLEAN]
      /\ cancelled \in [Tasks -> {"NOT_CANCELLED", "NO_CALLBACK", "DO_CALLBACK"}]
      /\ Main \in Procs /\ Main \notin Threads
      /\ \A w \in Threads : w \in Procs
  BY DEF TypeInv, TypeOK, Procs
<1>i. OnlyWorker /\ LabelInv
  BY BeforeLate
<1>h. \A w \in Threads : pc[w] \in {"start", "calling"} => work[w] = current
  BY DEF HeldInv, Busy
<1> USE DEF OnlyWorker, Working, LabelInv, WorkerLabels, FlagInv, Runnable,
            CallbackWanted
<1>1. ASSUME NEW p \in Procs, NEW t \in Tasks, Add(p, t)
      PROVE  FlagInv'
  BY <1>1, <1>t, <1>i DEF Add, MayAdd, MustStart
<1>2. ASSUME NEW w \in Threads, BlockOnAdd(w)
      PROVE  FlagInv'
  BY <1>2, <1>t, <1>i DEF BlockOnAdd, MayAdd
<1>3. ASSUME NEW t \in Tasks, NEW value \in Priorities, SetPriority(t, value)
      PROVE  FlagInv'
  BY <1>3, <1>t, <1>i DEF SetPriority, MayCall, MayCallBounded
<1>4. ASSUME NEW t \in Tasks, NEW runCallback \in BOOLEAN, RemoveTask(t, runCallback)
      PROVE  FlagInv'
  BY <1>4, <1>t, <1>i, <1>h DEF RemoveTask, Removable
<1>5. ASSUME RemoveWithoutCurrent PROVE FlagInv'
  BY <1>5, <1>t, <1>i DEF RemoveWithoutCurrent
<1>6. ASSUME NEW t \in Tasks, RequestCancel(t)
      PROVE  FlagInv'
  BY <1>6, <1>t, <1>i DEF RequestCancel, MayCall
<1>7. ASSUME Join PROVE FlagInv'
  BY <1>7, <1>t, <1>i DEF Join, MayCall, MayCallBounded
<1>8. ASSUME Dispose PROVE FlagInv'
  BY <1>8, <1>t, <1>i DEF Dispose, MayCall, MayCallBounded
<1>9. ASSUME NEW p \in Procs, NEW w \in Threads, CreateThread(p, w)
      PROVE  FlagInv'
  BY <1>9, <1>t, <1>i DEF CreateThread
<1>10. ASSUME NEW p \in Procs, StoreThread(p)
      PROVE  FlagInv'
  BY <1>10, <1>t, <1>i DEF StoreThread, Procs
<1>11. ASSUME SortTasks PROVE FlagInv'
  BY <1>11, <1>t, <1>i DEF SortTasks
<1>12. ASSUME JoinTest PROVE FlagInv'
  BY <1>12, <1>t, <1>i DEF JoinTest
<1>13. ASSUME JoinRead PROVE FlagInv'
  BY <1>13, <1>t, <1>i DEF JoinRead
<1>14. ASSUME JoinWait PROVE FlagInv'
  BY <1>14, <1>t, <1>i DEF JoinWait
<1>15. ASSUME JoinReturn PROVE FlagInv'
  BY <1>15, <1>t, <1>i DEF JoinReturn
<1>16. ASSUME Dispatch PROVE FlagInv'
  BY <1>16, <1>t, <1>i DEF Dispatch
<1>17. ASSUME NEW w \in Threads, Pick(w)
      PROVE  FlagInv'
  BY <1>17, <1>t, <1>i DEF Pick
<1>18. ASSUME NEW w \in Threads, StopEmpty(w)
      PROVE  FlagInv'
  BY <1>18, <1>t, <1>i DEF StopEmpty
<1>19. ASSUME NEW w \in Threads, StartFunc(w)
      PROVE  FlagInv'
  BY <1>19, <1>t, <1>i DEF StartFunc
<1>20. ASSUME NEW w \in Threads, SkipFunc(w)
      PROVE  FlagInv'
  BY <1>20, <1>t, <1>i DEF SkipFunc
<1>21. ASSUME NEW w \in Threads, FuncReturn(w)
      PROVE  FlagInv'
  BY <1>21, <1>t, <1>i DEF FuncReturn
<1>22. ASSUME NEW w \in Threads, NEW runCallback \in BOOLEAN, CancelPoint(w, runCallback)
      PROVE  FlagInv'
  BY <1>22, <1>t, <1>i DEF CancelPoint
<1>23. ASSUME NEW w \in Threads, CancelUnqueued(w)
      PROVE  FlagInv'
  BY <1>23, <1>t, <1>i DEF CancelUnqueued
<1>24. ASSUME NEW w \in Threads, EnterCallback(w)
      PROVE  FlagInv'
  BY <1>24, <1>t, <1>i DEF EnterCallback
<1>25. ASSUME NEW w \in Threads, SkipCallback(w)
      PROVE  FlagInv'
  BY <1>25, <1>t, <1>i DEF SkipCallback
<1>26. ASSUME NEW w \in Threads, CallbackReturn(w)
      PROVE  FlagInv'
  BY <1>26, <1>t, <1>i DEF CallbackReturn
<1>27. ASSUME NEW w \in Threads, Finish(w)
      PROVE  FlagInv'
  BY <1>27, <1>t, <1>i DEF Finish
<1>28. ASSUME NEW w \in Threads, FinishTwice(w)
      PROVE  FlagInv'
  BY <1>28, <1>t, <1>i DEF FinishTwice
<1>29. ASSUME NEW w \in Threads, Trail(w)
      PROVE  FlagInv'
  BY <1>29, <1>t, <1>i DEF Trail
<1>30. ASSUME NEW w \in Threads, TestFunc(w)
      PROVE  FlagInv'
  BY <1>30, <1>t, <1>i DEF TestFunc
<1>31. ASSUME NEW w \in Threads, TestCallback(w)
      PROVE  FlagInv'
  BY <1>31, <1>t, <1>i DEF TestCallback
<1>32. CASE UNCHANGED vars
  BY <1>32 DEF vars
<1> QED
  BY <1>1, <1>2, <1>3, <1>4, <1>5, <1>6, <1>7, <1>8, <1>9, <1>10, <1>11, <1>12,
     <1>13, <1>14, <1>15, <1>16, <1>17, <1>18, <1>19, <1>20, <1>21, <1>22,
     <1>23, <1>24, <1>25, <1>26, <1>27, <1>28, <1>29, <1>30, <1>31, <1>32
  DEF Next, Client, MainStep, Advance, Choice, Procs

\* A step that leaves the counts, and what explains them, alone.
LEMMA CountFrame ==
    ASSUME CountInv, UNCHANGED <<runs, callbacks, id>>,
           Range(tasks') \subseteq Range(tasks),
           \A t \in Tasks : cancelled[t] # "NOT_CANCELLED" =>
                               cancelled'[t] # "NOT_CANCELLED",
           \A w \in Threads : PastStart(w) /\ work[w] \in Range(tasks') =>
               \/ PastStart(w)' /\ work'[w] = work[w]
               \/ cancelled'[work[w]] # "NOT_CANCELLED",
           \A w \in Threads : PastCallback(w) /\ work[w] \in Range(tasks') =>
               PastCallback(w)' /\ work'[w] = work[w]
    PROVE  CountInv'
<1> SUFFICES ASSUME NEW t \in Tasks
             PROVE  /\ runs'[t] <= 1 /\ callbacks'[t] <= 1
                    /\ id'[t] = Unadded => runs'[t] = 0 /\ callbacks'[t] = 0
                    /\ t \in Range(tasks') /\ runs'[t] = 1 =>
                          \/ cancelled'[t] # "NOT_CANCELLED"
                          \/ \E w \in Threads : PastStart(w)' /\ work'[w] = t
                    /\ t \in Range(tasks') /\ callbacks'[t] = 1 =>
                          \E w \in Threads : PastCallback(w)' /\ work'[w] = t
  BY DEF CountInv
<1>1. /\ runs'[t] <= 1 /\ callbacks'[t] <= 1
      /\ id'[t] = Unadded => runs'[t] = 0 /\ callbacks'[t] = 0
  BY DEF CountInv
<1>2. ASSUME t \in Range(tasks'), runs'[t] = 1
      PROVE  \/ cancelled'[t] # "NOT_CANCELLED"
             \/ \E w \in Threads : PastStart(w)' /\ work'[w] = t
  <2>1. \/ cancelled[t] # "NOT_CANCELLED"
        \/ \E w \in Threads : PastStart(w) /\ work[w] = t
    BY <1>2 DEF CountInv
  <2> QED BY <1>2, <2>1
<1>3. ASSUME t \in Range(tasks'), callbacks'[t] = 1
      PROVE  \E w \in Threads : PastCallback(w)' /\ work'[w] = t
  <2>1. \E w \in Threads : PastCallback(w) /\ work[w] = t
    BY <1>3 DEF CountInv
  <2> QED BY <1>3, <2>1
<1> QED BY <1>1, <1>2, <1>3

\* A function is entered by the one worker, with a task that is not cancelled and
\* which it has just picked; so nobody entered it before.
LEMMA CountStep ==
    ASSUME TypeInv, ListInv, OneWorkerInv, HeldInv, FlagInv, CountInv, [Next]_vars,
           ~late'
    PROVE  CountInv'
<1> USE ProcAssumption DEF queueVars, flagVars, taskVars, callVars, history, Goto
<1>t. /\ pc \in [Procs -> Labels] /\ handle \in [Procs -> Threads \cup {NULL}]
      /\ resume \in [Procs -> Labels] /\ thread \in Threads \cup {NULL}
      /\ work \in [Threads -> Tasks \cup {NULL}]
      /\ Main \in Procs /\ Main \notin Threads /\ NULL \notin Threads
      /\ \A w \in Threads : w \in Procs
  BY DEF TypeInv, TypeOK, Procs
<1>i. OnlyWorker /\ LabelInv /\ HandleInv
  BY BeforeLate
<1>c. /\ runs \in [Tasks -> Nat] /\ callbacks \in [Tasks -> Nat]
      /\ id \in [Tasks -> Nat] /\ idseed \in Nat
      /\ cancelled \in [Tasks -> {"NOT_CANCELLED", "NO_CALLBACK", "DO_CALLBACK"}]
  BY DEF TypeInv, TypeOK
<1> USE DEF OnlyWorker, Working, LabelInv, WorkerLabels, MainLabels,
            PastStart, PastCallback
<1>1. ASSUME NEW p \in Procs, NEW t \in Tasks, Add(p, t)
      PROVE  CountInv'
  <2>1. Range(tasks') = Range(tasks) \cup {t}
    BY <1>1, AddKeepsTasks
  <2>2. runs[t] = 0 /\ callbacks[t] = 0
    BY <1>1 DEF Add, CountInv
  <2>3. UNCHANGED <<runs, callbacks, cancelled, work>>
        /\ \A u \in Tasks : u # t => id'[u] = id[u]
    BY <1>1, <1>c DEF Add
  <2>4. \A w \in Threads :
            (PastStart(w) => PastStart(w)') /\ (PastCallback(w) => PastCallback(w)')
    <3>1. CASE p = Main
      BY <1>1, <1>t, <1>i, <3>1 DEF Add, MayAdd
    <3>2. CASE p \in Threads
      BY <1>1, <1>t, <1>i, <3>2, WorkerAddFinds DEF Add, MayAdd, MustStart
    <3> QED BY <3>1, <3>2 DEF Procs
  <2> HIDE DEF PastStart, PastCallback
  <2> QED BY <1>c, <2>1, <2>2, <2>3, <2>4 DEF CountInv
<1>2. ASSUME NEW w \in Threads, BlockOnAdd(w)
      PROVE  CountInv'
  BY <1>2, <1>t, <1>i, CountFrame DEF BlockOnAdd, MayAdd
<1>3. ASSUME NEW t \in Tasks, NEW value \in Priorities, SetPriority(t, value)
      PROVE  CountInv'
  BY <1>3, <1>t, <1>i, CountFrame DEF SetPriority, MayCall, MayCallBounded
<1>4. ASSUME NEW t \in Tasks, NEW runCallback \in BOOLEAN, RemoveTask(t, runCallback)
      PROVE  CountInv'
  BY <1>4, <1>t, <1>i, <1>c, CountFrame DEF RemoveTask, CancelMark
<1>5. ASSUME RemoveWithoutCurrent PROVE CountInv'
  BY <1>5, <1>t, <1>i, CountFrame DEF RemoveWithoutCurrent
<1>6. ASSUME NEW t \in Tasks, RequestCancel(t)
      PROVE  CountInv'
  BY <1>6, <1>t, <1>i, CountFrame DEF RequestCancel, MayCall
<1>7. ASSUME Join PROVE CountInv'
  BY <1>7, <1>t, <1>i, CountFrame DEF Join, MayCall, MayCallBounded
<1>8. ASSUME Dispose PROVE CountInv'
  BY <1>8, <1>t, <1>i, CountFrame DEF Dispose, MayCall, MayCallBounded
<1>9. ASSUME NEW p \in Procs, NEW w \in Threads, CreateThread(p, w)
      PROVE  CountInv'
  <2>1. UNCHANGED <<runs, callbacks, id, tasks, cancelled, work, resume>>
    BY <1>9 DEF CreateThread
  <2>2. \A v \in Threads :
            (PastStart(v) => PastStart(v)') /\ (PastCallback(v) => PastCallback(v)')
    BY <1>9, <1>t, <1>i DEF CreateThread, Fresh, Procs
  <2> HIDE DEF PastStart, PastCallback
  <2> QED BY <2>1, <2>2, CountFrame
<1>10. ASSUME NEW p \in Procs, StoreThread(p)
      PROVE  CountInv'
  BY <1>10, <1>t, <1>i, CountFrame DEF StoreThread, Procs
<1>11. ASSUME SortTasks PROVE CountInv'
  <2>1. Range(tasks') = Range(tasks)
    BY <1>11, SortKeepsTasks
  <2> QED BY <1>11, <1>t, <1>i, <2>1, CountFrame DEF SortTasks
<1>12. ASSUME JoinTest PROVE CountInv'
  BY <1>12, <1>t, <1>i, CountFrame DEF JoinTest
<1>13. ASSUME JoinRead PROVE CountInv'
  BY <1>13, <1>t, <1>i, CountFrame DEF JoinRead
<1>14. ASSUME JoinWait PROVE CountInv'
  BY <1>14, <1>t, <1>i, CountFrame DEF JoinWait
<1>15. ASSUME JoinReturn PROVE CountInv'
  BY <1>15, <1>t, <1>i, CountFrame DEF JoinReturn
<1>16. ASSUME Dispatch PROVE CountInv'
  BY <1>16, <1>t, <1>i, CountFrame DEF Dispatch
<1>17. ASSUME NEW w \in Threads, Pick(w)
      PROVE  CountInv'
  BY <1>17, <1>t, <1>i, CountFrame DEF Pick
<1>18. ASSUME NEW w \in Threads, StopEmpty(w)
      PROVE  CountInv'
  BY <1>18, <1>t, <1>i, CountFrame DEF StopEmpty
<1>19. ASSUME NEW w \in Threads, StartFunc(w)
      PROVE  CountInv'
  <2> DEFINE u == work[w]
  <2>1. u \in Range(tasks) /\ u \in Tasks /\ id[u] # Unadded
    BY <1>19, ListedAdded DEF StartFunc, HeldInv, Busy
  <2>2. \A v \in Threads : PastStart(v) => work[v] # u
    BY <1>19, <1>t, <1>i DEF StartFunc
  <2>3. runs[u] = 0 /\ callbacks[u] # 1
    BY <1>19, <1>c, <2>1, <2>2 DEF StartFunc, FlagInv, Runnable, CountInv
  <2>4. /\ runs' = [runs EXCEPT ![u] = @ + 1]
        /\ UNCHANGED <<callbacks, cancelled, work, id, tasks>>
    BY <1>19 DEF StartFunc
  <2>5. /\ PastStart(w)'
        /\ \A v \in Threads :
              (PastStart(v) => PastStart(v)') /\ (PastCallback(v) => PastCallback(v)')
    BY <1>19, <1>t, <1>i DEF StartFunc
  <2> HIDE DEF PastStart, PastCallback, u
  <2> QED BY <1>c, <2>1, <2>3, <2>4, <2>5 DEF CountInv, u
<1>20. ASSUME NEW w \in Threads, SkipFunc(w)
      PROVE  CountInv'
  BY <1>20, <1>t, <1>i, CountFrame DEF SkipFunc
<1>21. ASSUME NEW w \in Threads, FuncReturn(w)
      PROVE  CountInv'
  BY <1>21, <1>t, <1>i, CountFrame DEF FuncReturn
<1>22. ASSUME NEW w \in Threads, NEW runCallback \in BOOLEAN, CancelPoint(w, runCallback)
      PROVE  CountInv'
  <2>1. UNCHANGED <<runs, callbacks, id, tasks>>
        /\ \A v \in Threads : v # w => work'[v] = work[v] /\ pc'[v] = pc[v]
        /\ UNCHANGED resume
    BY <1>22, <1>t DEF CancelPoint
  <2>2. cancelled' = [cancelled EXCEPT ![work[w]] = CancelMark(runCallback)]
        /\ CancelMark(runCallback) # "NOT_CANCELLED"
    BY <1>22 DEF CancelPoint, CancelMark
  <2>3. /\ \A t \in Tasks : cancelled[t] # "NOT_CANCELLED" =>
                               cancelled'[t] # "NOT_CANCELLED"
        /\ work[w] \in Tasks => cancelled'[work[w]] # "NOT_CANCELLED"
    BY <1>c, <2>2
  <2>4. ~PastCallback(w) /\ work[w] \in Tasks
    BY <1>22 DEF CancelPoint, TypeInv, HandInv
  <2>5. \A v \in Threads : v # w =>
            (PastStart(v) => PastStart(v)') /\ (PastCallback(v) => PastCallback(v)')
    BY <2>1
  <2> HIDE DEF PastStart, PastCallback
  <2> QED BY <2>1, <2>3, <2>4, <2>5, CountFrame
<1>23. ASSUME NEW w \in Threads, CancelUnqueued(w)
      PROVE  CountInv'
  BY <1>23, <1>t, <1>i, CountFrame DEF CancelUnqueued
<1>24. ASSUME NEW w \in Threads, EnterCallback(w)
      PROVE  CountInv'
  <2> DEFINE u == work[w]
  <2>1. u \in Range(tasks) /\ u \in Tasks /\ id[u] # Unadded
    BY <1>24, ListedAdded DEF EnterCallback, HeldInv, Busy
  <2>2. \A v \in Threads : PastCallback(v) => work[v] # u
    BY <1>24, <1>t, <1>i DEF EnterCallback
  <2>3. callbacks[u] = 0
    BY <1>24, <1>c, <2>1, <2>2 DEF CountInv
  <2>4. /\ callbacks' = [callbacks EXCEPT ![u] = @ + 1]
        /\ UNCHANGED <<runs, cancelled, work, id, tasks>>
    BY <1>24 DEF EnterCallback
  <2>5. /\ PastCallback(w)'
        /\ \A v \in Threads :
              (PastStart(v) => PastStart(v)') /\ (PastCallback(v) => PastCallback(v)')
    BY <1>24, <1>t, <1>i DEF EnterCallback
  <2> HIDE DEF PastStart, PastCallback, u
  <2> QED BY <1>c, <2>1, <2>3, <2>4, <2>5 DEF CountInv, u
<1>25. ASSUME NEW w \in Threads, SkipCallback(w)
      PROVE  CountInv'
  BY <1>25, <1>t, <1>i, CountFrame DEF SkipCallback
<1>26. ASSUME NEW w \in Threads, CallbackReturn(w)
      PROVE  CountInv'
  BY <1>26, <1>t, <1>i, CountFrame DEF CallbackReturn
<1>27. ASSUME NEW w \in Threads, Finish(w)
      PROVE  CountInv'
  <2>1. Range(tasks') = Range(tasks) \ {work[w]}
    BY <1>27, FinishTakesTask
  <2>2. \A v \in Threads : v # w => ~Working(v) /\ pc'[v] = pc[v]
    BY <1>27, <1>t, <1>i DEF Finish
  <2>3. UNCHANGED <<runs, callbacks, id, cancelled>>
    BY <1>27 DEF Finish
  <2> QED BY <2>1, <2>2, <2>3, CountFrame
<1>28. ASSUME NEW w \in Threads, FinishTwice(w)
      PROVE  CountInv'
  BY <1>28, <1>t, <1>i, CountFrame DEF FinishTwice
<1>29. ASSUME NEW w \in Threads, Trail(w)
      PROVE  CountInv'
  BY <1>29, <1>t, <1>i, CountFrame DEF Trail
<1>30. ASSUME NEW w \in Threads, TestFunc(w)
      PROVE  CountInv'
  BY <1>30, <1>t, <1>i, CountFrame DEF TestFunc
<1>31. ASSUME NEW w \in Threads, TestCallback(w)
      PROVE  CountInv'
  BY <1>31, <1>t, <1>i, CountFrame DEF TestCallback
<1>32. CASE UNCHANGED vars
  BY <1>32, CountFrame DEF vars
<1> QED
  BY <1>1, <1>2, <1>3, <1>4, <1>5, <1>6, <1>7, <1>8, <1>9, <1>10, <1>11, <1>12,
     <1>13, <1>14, <1>15, <1>16, <1>17, <1>18, <1>19, <1>20, <1>21, <1>22,
     <1>23, <1>24, <1>25, <1>26, <1>27, <1>28, <1>29, <1>30, <1>31, <1>32
  DEF Next, Client, MainStep, Advance, Choice, Procs

LEMMA RunsStep ==
    TypeInv /\ ListInv /\ OneWorkerInv /\ RunsInv /\ [Next]_vars => RunsInv'
<1> SUFFICES ASSUME TypeInv, ListInv, OneWorkerInv, RunsInv, [Next]_vars, ~late'
             PROVE  HeldInv' /\ FlagInv' /\ CountInv'
  BY DEF RunsInv
<1>1. HeldInv /\ FlagInv /\ CountInv
  BY BeforeLate DEF RunsInv
<1> QED BY <1>1, HeldStep, FlagStep, CountStep

\* Until a store of the handle comes too late, no function and no callback is
\* entered twice, whatever is queued, cancelled, removed, sorted and restarted.
THEOREM RunsAtMostOnce == Spec => []RunsOnce
<1>1. RunsInv => RunsOnce
  BY DEF RunsInv, CountInv, RunsOnce
<1> QED
  BY <1>1, TypeInit, TypeStep, ListInit, ListStep, OneWorkerInit, OneWorkerStep,
     RunsInit, RunsStep, PTL DEF Spec

(***************************************************************************)
(* Removed tasks.                                                          *)
(***************************************************************************)

\* The functions and callbacks that were entered are counted in two steps only.
LEMMA RunsFrame ==
    ASSUME [Next]_vars,
           \A w \in Threads : ~StartFunc(w) /\ ~EnterCallback(w)
    PROVE  UNCHANGED <<runs, callbacks>>
<1> USE DEF history
<1>1. ASSUME NEW p \in Procs, NEW t \in Tasks, Add(p, t)
      PROVE  UNCHANGED <<runs, callbacks>>
  BY <1>1 DEF Add
<1>2. ASSUME NEW w \in Threads, BlockOnAdd(w)
      PROVE  UNCHANGED <<runs, callbacks>>
  BY <1>2 DEF BlockOnAdd
<1>3. ASSUME NEW t \in Tasks, NEW value \in Priorities, SetPriority(t, value)
      PROVE  UNCHANGED <<runs, callbacks>>
  BY <1>3 DEF SetPriority
<1>4. ASSUME NEW t \in Tasks, NEW runCallback \in BOOLEAN, RemoveTask(t, runCallback)
      PROVE  UNCHANGED <<runs, callbacks>>
  BY <1>4 DEF RemoveTask
<1>5. ASSUME RemoveWithoutCurrent PROVE UNCHANGED <<runs, callbacks>>
  BY <1>5 DEF RemoveWithoutCurrent
<1>6. ASSUME NEW t \in Tasks, RequestCancel(t)
      PROVE  UNCHANGED <<runs, callbacks>>
  BY <1>6 DEF RequestCancel
<1>7. ASSUME Join PROVE UNCHANGED <<runs, callbacks>>
  BY <1>7 DEF Join
<1>8. ASSUME Dispose PROVE UNCHANGED <<runs, callbacks>>
  BY <1>8 DEF Dispose
<1>9. ASSUME NEW p \in Procs, NEW w \in Threads, CreateThread(p, w)
      PROVE  UNCHANGED <<runs, callbacks>>
  BY <1>9 DEF CreateThread
<1>10. ASSUME NEW p \in Procs, StoreThread(p)
      PROVE  UNCHANGED <<runs, callbacks>>
  BY <1>10 DEF StoreThread
<1>11. ASSUME SortTasks PROVE UNCHANGED <<runs, callbacks>>
  BY <1>11 DEF SortTasks
<1>12. ASSUME JoinTest PROVE UNCHANGED <<runs, callbacks>>
  BY <1>12 DEF JoinTest
<1>13. ASSUME JoinRead PROVE UNCHANGED <<runs, callbacks>>
  BY <1>13 DEF JoinRead
<1>14. ASSUME JoinWait PROVE UNCHANGED <<runs, callbacks>>
  BY <1>14 DEF JoinWait
<1>15. ASSUME JoinReturn PROVE UNCHANGED <<runs, callbacks>>
  BY <1>15 DEF JoinReturn
<1>16. ASSUME Dispatch PROVE UNCHANGED <<runs, callbacks>>
  BY <1>16 DEF Dispatch
<1>17. ASSUME NEW w \in Threads, Pick(w)
      PROVE  UNCHANGED <<runs, callbacks>>
  BY <1>17 DEF Pick
<1>18. ASSUME NEW w \in Threads, StopEmpty(w)
      PROVE  UNCHANGED <<runs, callbacks>>
  BY <1>18 DEF StopEmpty
<1>19. ASSUME NEW w \in Threads, StartFunc(w)
      PROVE  UNCHANGED <<runs, callbacks>>
  BY <1>19
<1>20. ASSUME NEW w \in Threads, SkipFunc(w)
      PROVE  UNCHANGED <<runs, callbacks>>
  BY <1>20 DEF SkipFunc
<1>21. ASSUME NEW w \in Threads, FuncReturn(w)
      PROVE  UNCHANGED <<runs, callbacks>>
  BY <1>21 DEF FuncReturn
<1>22. ASSUME NEW w \in Threads, NEW runCallback \in BOOLEAN, CancelPoint(w, runCallback)
      PROVE  UNCHANGED <<runs, callbacks>>
  BY <1>22 DEF CancelPoint
<1>23. ASSUME NEW w \in Threads, CancelUnqueued(w)
      PROVE  UNCHANGED <<runs, callbacks>>
  BY <1>23 DEF CancelUnqueued
<1>24. ASSUME NEW w \in Threads, EnterCallback(w)
      PROVE  UNCHANGED <<runs, callbacks>>
  BY <1>24
<1>25. ASSUME NEW w \in Threads, SkipCallback(w)
      PROVE  UNCHANGED <<runs, callbacks>>
  BY <1>25 DEF SkipCallback
<1>26. ASSUME NEW w \in Threads, CallbackReturn(w)
      PROVE  UNCHANGED <<runs, callbacks>>
  BY <1>26 DEF CallbackReturn
<1>27. ASSUME NEW w \in Threads, Finish(w)
      PROVE  UNCHANGED <<runs, callbacks>>
  BY <1>27 DEF Finish
<1>28. ASSUME NEW w \in Threads, FinishTwice(w)
      PROVE  UNCHANGED <<runs, callbacks>>
  BY <1>28 DEF FinishTwice
<1>29. ASSUME NEW w \in Threads, Trail(w)
      PROVE  UNCHANGED <<runs, callbacks>>
  BY <1>29 DEF Trail
<1>30. ASSUME NEW w \in Threads, TestFunc(w)
      PROVE  UNCHANGED <<runs, callbacks>>
  BY <1>30 DEF TestFunc
<1>31. ASSUME NEW w \in Threads, TestCallback(w)
      PROVE  UNCHANGED <<runs, callbacks>>
  BY <1>31 DEF TestCallback
<1>32. CASE UNCHANGED vars
  BY <1>32 DEF vars
<1> QED
  BY <1>1, <1>2, <1>3, <1>4, <1>5, <1>6, <1>7, <1>8, <1>9, <1>10, <1>11, <1>12,
     <1>13, <1>14, <1>15, <1>16, <1>17, <1>18, <1>19, <1>20, <1>21, <1>22,
     <1>23, <1>24, <1>25, <1>26, <1>27, <1>28, <1>29, <1>30, <1>31, <1>32
  DEF Next, Client, MainStep, Advance, Choice, Procs

\* Until a store of the handle comes too late, a task that was removed is not run
\* and, if its callback is to be dropped, not called back: the worker has read its
\* flags some steps before it enters the function or the callback, but meanwhile
\* the task is the current one, which cannot be removed.
THEOREM RemovedStaysOut == Spec => RemovedNeverRuns
<1>1. ASSUME TypeInv, RunsInv, [Next]_vars, ~late, NEW t \in Tasks
      PROVE  /\ removed[t] => runs'[t] = runs[t]
             /\ removed[t] /\ cancelled[t] = "NO_CALLBACK" =>
                   callbacks'[t] = callbacks[t]
  <2>1. ASSUME NEW w \in Threads, StartFunc(w)
        PROVE  (removed[t] => runs'[t] = runs[t]) /\ callbacks'[t] = callbacks[t]
    <3>1. ~removed[work[w]] /\ work[w] \in Tasks
      BY <1>1, <2>1 DEF StartFunc, Runnable, RunsInv, FlagInv, TypeInv, HandInv
    <3> QED BY <1>1, <2>1, <3>1 DEF StartFunc, TypeInv, TypeOK
  <2>2. ASSUME NEW w \in Threads, EnterCallback(w)
        PROVE  /\ runs'[t] = runs[t]
               /\ cancelled[t] = "NO_CALLBACK" => callbacks'[t] = callbacks[t]
    <3>1. cancelled[work[w]] # "NO_CALLBACK" /\ work[w] \in Tasks
      BY <1>1, <2>2
      DEF EnterCallback, CallbackWanted, RunsInv, FlagInv, TypeInv, HandInv
    <3> QED BY <1>1, <2>2, <3>1 DEF EnterCallback, TypeInv, TypeOK
  <2>3. CASE \A w \in Threads : ~StartFunc(w) /\ ~EnterCallback(w)
    BY <1>1, <2>3, RunsFrame
  <2> QED BY <2>1, <2>2, <2>3
<1>2. TypeInv /\ RunsInv /\ [Next]_vars =>
          [late \/ \A t \in Tasks :
              /\ removed[t] => runs'[t] = runs[t]
              /\ removed[t] /\ cancelled[t] = "NO_CALLBACK" =>
                    callbacks'[t] = callbacks[t]]_vars
  BY <1>1
<1> QED
  BY <1>2, TypeInit, TypeStep, ListInit, ListStep, OneWorkerInit, OneWorkerStep,
     RunsInit, RunsStep, PTL DEF Spec, RemovedNeverRuns

(***************************************************************************)
(* Without cancellations nothing is left behind.                           *)
(***************************************************************************)

\* No thread leaves from a cancellation point, so none is restarted.
NoRestartInv ==
    /\ \A t \in Tasks : ~iwanttocancel[t]
    /\ \A i \in 1 .. Len(idle) : idle[i].kind # "restart"
    /\ resume[Main] # "create"

\* A list that is not empty has a worker that will look at it again, or one that
\* is about to be started; none finds the list empty.
ServedInv ==
    /\ tasks # <<>> =>
          (\E w \in Threads : Working(w)) \/ pc[Main] \in {"create", "store"}
    /\ pc[Main] = "create" => tasks # <<>>
    /\ \A w \in Threads : pc[w] = "pick" => tasks # <<>>
    /\ \A w \in Threads : pc[w] # "empty"
    /\ thread # NULL => Working(thread)

LEMMA ServedInit == Init => NoRestartInv /\ ServedInv
BY ProcAssumption DEF Init, NoRestartInv, ServedInv, Working, Procs

\* An idle source that is no restart keeps the others.
LEMMA PostNoRestart ==
    ASSUME TypeInv, \A i \in 1 .. Len(idle) : idle[i].kind # "restart",
           NEW t \in Tasks, NEW kind \in {"started", "finished", "donothing"},
           Post(Source(kind, t))
    PROVE  \A i \in 1 .. Len(idle') : idle'[i].kind # "restart"
<1> DEFINE Sources == [kind : {"started", "finished", "donothing", "restart"},
                       task : Tasks]
<1>1. Source(kind, t) \in Sources /\ idle \in Seq(Sources) /\ Len(idle) \in Nat
  BY LenProperties DEF Source, TypeInv, TypeOK
<1>2. Len(idle') = Len(idle) + 1 /\ idle'[Len(idle) + 1] = Source(kind, t)
      /\ \A i \in 1 .. Len(idle) : idle'[i] = idle[i]
  BY <1>1, AppendProperties DEF Post
<1>3. Source(kind, t).kind # "restart"
  BY DEF Source
<1> QED BY <1>1, <1>2, <1>3

LEMMA NoRestartStep ==
    ASSUME "cancel" \notin Ops,
           TypeInv, OneWorkerInv, NoRestartInv, [Next]_vars, ~late'
    PROVE  NoRestartInv'
<1> USE ProcAssumption DEF queueVars, flagVars, taskVars, callVars, history, Goto
<1>t. /\ pc \in [Procs -> Labels] /\ handle \in [Procs -> Threads \cup {NULL}]
      /\ resume \in [Procs -> Labels] /\ thread \in Threads \cup {NULL}
      /\ work \in [Threads -> Tasks \cup {NULL}]
      /\ Main \in Procs /\ Main \notin Threads /\ NULL \notin Threads
      /\ \A w \in Threads : w \in Procs
  BY DEF TypeInv, TypeOK, Procs
<1>i. OnlyWorker /\ LabelInv /\ HandleInv
  BY BeforeLate
<1> USE DEF LabelInv, WorkerLabels, MainLabels, NoRestartInv
<1>1. ASSUME NEW p \in Procs, NEW t \in Tasks, Add(p, t)
      PROVE  NoRestartInv'
  BY <1>1, <1>t, <1>i DEF Add, MayAdd, Procs
<1>2. ASSUME NEW w \in Threads, BlockOnAdd(w)
      PROVE  NoRestartInv'
  BY <1>2, <1>t, <1>i DEF BlockOnAdd, MayAdd
<1>3. ASSUME NEW t \in Tasks, NEW value \in Priorities, SetPriority(t, value)
      PROVE  NoRestartInv'
  BY <1>3, <1>t, <1>i DEF SetPriority, MayCall, MayCallBounded
<1>4. ASSUME NEW t \in Tasks, NEW runCallback \in BOOLEAN, RemoveTask(t, runCallback)
      PROVE  NoRestartInv'
  BY <1>4, <1>t, <1>i DEF RemoveTask, MayCall
<1>5. ASSUME RemoveWithoutCurrent PROVE NoRestartInv'
  BY <1>5, <1>t, <1>i DEF RemoveWithoutCurrent
<1>6. ASSUME NEW t \in Tasks, RequestCancel(t)
      PROVE  NoRestartInv'
  BY <1>6, <1>t, <1>i DEF RequestCancel, MayCall
<1>7. ASSUME Join PROVE NoRestartInv'
  BY <1>7, <1>t, <1>i DEF Join, MayCall, MayCallBounded
<1>8. ASSUME Dispose PROVE NoRestartInv'
  BY <1>8, <1>t, <1>i DEF Dispose, MayCall, MayCallBounded
<1>9. ASSUME NEW p \in Procs, NEW w \in Threads, CreateThread(p, w)
      PROVE  NoRestartInv'
  BY <1>9, <1>t, <1>i DEF CreateThread, Procs
<1>10. ASSUME NEW p \in Procs, StoreThread(p)
      PROVE  NoRestartInv'
  BY <1>10, <1>t, <1>i DEF StoreThread, Procs
<1>11. ASSUME SortTasks PROVE NoRestartInv'
  BY <1>11, <1>t, <1>i DEF SortTasks
<1>12. ASSUME JoinTest PROVE NoRestartInv'
  BY <1>12, <1>t, <1>i DEF JoinTest
<1>13. ASSUME JoinRead PROVE NoRestartInv'
  BY <1>13, <1>t, <1>i DEF JoinRead
<1>14. ASSUME JoinWait PROVE NoRestartInv'
  BY <1>14, <1>t, <1>i DEF JoinWait
<1>15. ASSUME JoinReturn PROVE NoRestartInv'
  BY <1>15, <1>t, <1>i DEF JoinReturn
<1>16. ASSUME Dispatch PROVE NoRestartInv'
  <2>1. idle # <<>> /\ idle' = Tail(idle)
        /\ idle \in Seq([kind : {"started", "finished", "donothing", "restart"},
                         task : Tasks])
    BY <1>16 DEF Dispatch, TypeInv, TypeOK
  <2>2. Len(idle) \in Nat /\ Len(idle) # 0
    BY <2>1, LenProperties, EmptySeq
  <2>3. Head(idle) = idle[1] /\ Len(idle') = Len(idle) - 1
        /\ \A i \in 1 .. Len(idle') : idle'[i] = idle[i + 1]
    BY <2>1, HeadTailProperties
  <2>4. Head(idle).kind # "restart"
    BY <2>2, <2>3
  <2>5. \A i \in 1 .. Len(idle') : idle'[i].kind # "restart"
    BY <2>2, <2>3
  <2> QED BY <1>16, <2>4, <2>5 DEF Dispatch
<1>17. ASSUME NEW w \in Threads, Pick(w)
      PROVE  NoRestartInv'
  BY <1>17, <1>t, <1>i DEF Pick
<1>18. ASSUME NEW w \in Threads, StopEmpty(w)
      PROVE  NoRestartInv'
  BY <1>18, <1>t, <1>i DEF StopEmpty
<1>19. ASSUME NEW w \in Threads, StartFunc(w)
      PROVE  NoRestartInv'
  <2>1. work[w] \in Tasks
    BY <1>19 DEF StartFunc, TypeInv, HandInv
  <2>2. \A i \in 1 .. Len(idle') : idle'[i].kind # "restart"
    BY <1>19, <2>1, PostNoRestart DEF StartFunc
  <2> QED BY <1>19, <2>2 DEF StartFunc
<1>20. ASSUME NEW w \in Threads, SkipFunc(w)
      PROVE  NoRestartInv'
  BY <1>20, <1>t, <1>i DEF SkipFunc
<1>21. ASSUME NEW w \in Threads, FuncReturn(w)
      PROVE  NoRestartInv'
  BY <1>21, <1>t, <1>i DEF FuncReturn
<1>22. ASSUME NEW w \in Threads, NEW runCallback \in BOOLEAN, CancelPoint(w, runCallback)
      PROVE  NoRestartInv'
  BY <1>22 DEF CancelPoint, TypeInv, HandInv
<1>23. ASSUME NEW w \in Threads, CancelUnqueued(w)
      PROVE  NoRestartInv'
  BY <1>23, <1>t, <1>i DEF CancelUnqueued
<1>24. ASSUME NEW w \in Threads, EnterCallback(w)
      PROVE  NoRestartInv'
  BY <1>24, <1>t, <1>i DEF EnterCallback
<1>25. ASSUME NEW w \in Threads, SkipCallback(w)
      PROVE  NoRestartInv'
  BY <1>25, <1>t, <1>i DEF SkipCallback
<1>26. ASSUME NEW w \in Threads, CallbackReturn(w)
      PROVE  NoRestartInv'
  BY <1>26, <1>t, <1>i DEF CallbackReturn
<1>27. ASSUME NEW w \in Threads, Finish(w)
      PROVE  NoRestartInv'
  <2>1. work[w] \in Tasks
    BY <1>27 DEF Finish, TypeInv, HandInv
  <2>2. \A i \in 1 .. Len(idle') : idle'[i].kind # "restart"
    BY <1>27, <2>1, PostNoRestart DEF Finish
  <2> QED BY <1>27, <2>2 DEF Finish
<1>28. ASSUME NEW w \in Threads, FinishTwice(w)
      PROVE  NoRestartInv'
  BY <1>28, <1>t, <1>i DEF FinishTwice
<1>29. ASSUME NEW w \in Threads, Trail(w)
      PROVE  NoRestartInv'
  BY <1>29, <1>t, <1>i DEF Trail
<1>30. ASSUME NEW w \in Threads, TestFunc(w)
      PROVE  NoRestartInv'
  BY <1>30, <1>t, <1>i DEF TestFunc
<1>31. ASSUME NEW w \in Threads, TestCallback(w)
      PROVE  NoRestartInv'
  BY <1>31, <1>t, <1>i DEF TestCallback
<1>32. CASE UNCHANGED vars
  BY <1>32 DEF vars
<1> QED
  BY <1>1, <1>2, <1>3, <1>4, <1>5, <1>6, <1>7, <1>8, <1>9, <1>10, <1>11, <1>12,
     <1>13, <1>14, <1>15, <1>16, <1>17, <1>18, <1>19, <1>20, <1>21, <1>22,
     <1>23, <1>24, <1>25, <1>26, <1>27, <1>28, <1>29, <1>30, <1>31, <1>32
  DEF Next, Client, MainStep, Advance, Choice, Procs

\* The worker that adds or finishes is the only one, and the handle is its own.
LEMMA ServedStep ==
    ASSUME TypeInv, ListInv, OneWorkerInv, NoRestartInv, ServedInv, [Next]_vars,
           ~late'
    PROVE  ServedInv'
<1> USE ProcAssumption DEF queueVars, flagVars, taskVars, callVars, history, Goto
<1>t. /\ pc \in [Procs -> Labels] /\ handle \in [Procs -> Threads \cup {NULL}]
      /\ resume \in [Procs -> Labels] /\ thread \in Threads \cup {NULL}
      /\ work \in [Threads -> Tasks \cup {NULL}]
      /\ Main \in Procs /\ Main \notin Threads /\ NULL \notin Threads
      /\ \A w \in Threads : w \in Procs
  BY DEF TypeInv, TypeOK, Procs
<1>i. OnlyWorker /\ LabelInv /\ HandleInv
  BY BeforeLate
<1> USE DEF OnlyWorker, Working, LabelInv, HandleInv, WorkerLabels, MainLabels,
            ServedInv
<1>1. ASSUME NEW p \in Procs, NEW t \in Tasks, Add(p, t)
      PROVE  ServedInv'
  <2>1. tasks' # <<>>
    <3>1. Range(tasks') # {} /\ tasks' \in Seq(Tasks)
      BY <1>1, AddKeepsTasks, TypeStep DEF TypeInv, TypeOK
    <3> QED BY <3>1, EmptyRange
  <2>2. CASE p = Main
    BY <1>1, <1>t, <1>i, <2>1, <2>2 DEF Add, MayAdd, MustStart
  <2>3. CASE p \in Threads
    BY <1>1, <1>t, <1>i, <2>1, <2>3 DEF Add, MayAdd, MustStart
  <2> QED BY <2>2, <2>3 DEF Procs
<1>2. ASSUME NEW w \in Threads, BlockOnAdd(w)
      PROVE  ServedInv'
  BY <1>2, <1>t, <1>i DEF BlockOnAdd, MayAdd
<1>3. ASSUME NEW t \in Tasks, NEW value \in Priorities, SetPriority(t, value)
      PROVE  ServedInv'
  BY <1>3, <1>t, <1>i DEF SetPriority, MayCall, MayCallBounded
<1>4. ASSUME NEW t \in Tasks, NEW runCallback \in BOOLEAN, RemoveTask(t, runCallback)
      PROVE  ServedInv'
  BY <1>4, <1>t, <1>i DEF RemoveTask, MayCall
<1>5. ASSUME RemoveWithoutCurrent PROVE ServedInv'
  BY <1>5, <1>t, <1>i DEF RemoveWithoutCurrent
<1>6. ASSUME NEW t \in Tasks, RequestCancel(t)
      PROVE  ServedInv'
  BY <1>6, <1>t, <1>i DEF RequestCancel, MayCall
<1>7. ASSUME Join PROVE ServedInv'
  BY <1>7, <1>t, <1>i DEF Join, MayCall, MayCallBounded
<1>8. ASSUME Dispose PROVE ServedInv'
  BY <1>8, <1>t, <1>i DEF Dispose, MayCall, MayCallBounded
<1>9. ASSUME NEW p \in Procs, NEW w \in Threads, CreateThread(p, w)
      PROVE  ServedInv'
  BY <1>9, <1>t, <1>i DEF CreateThread, Procs, Fresh
<1>10. ASSUME NEW p \in Procs, StoreThread(p)
      PROVE  ServedInv'
  BY <1>10, <1>t, <1>i DEF StoreThread, Procs
<1>11. ASSUME SortTasks PROVE ServedInv'
  <2>1. tasks' = <<>> <=> tasks = <<>>
    <3>1. Range(tasks') = Range(tasks) /\ tasks \in Seq(Tasks) /\ tasks' \in Seq(Tasks)
      BY <1>11, SortKeepsTasks, TypeStep DEF TypeInv, TypeOK
    <3> QED BY <3>1, EmptyRange
  <2> QED BY <1>11, <1>t, <1>i, <2>1 DEF SortTasks
<1>12. ASSUME JoinTest PROVE ServedInv'
  BY <1>12, <1>t, <1>i DEF JoinTest
<1>13. ASSUME JoinRead PROVE ServedInv'
  BY <1>13, <1>t, <1>i DEF JoinRead
<1>14. ASSUME JoinWait PROVE ServedInv'
  BY <1>14, <1>t, <1>i DEF JoinWait
<1>15. ASSUME JoinReturn PROVE ServedInv'
  BY <1>15, <1>t, <1>i DEF JoinReturn, NoRestartInv
<1>16. ASSUME Dispatch PROVE ServedInv'
  BY <1>16, <1>t, <1>i DEF Dispatch
<1>17. ASSUME NEW w \in Threads, Pick(w)
      PROVE  ServedInv'
  BY <1>17, <1>t, <1>i DEF Pick
<1>18. ASSUME NEW w \in Threads, StopEmpty(w)
      PROVE  ServedInv'
  BY <1>18, <1>t, <1>i DEF StopEmpty
<1>19. ASSUME NEW w \in Threads, StartFunc(w)
      PROVE  ServedInv'
  BY <1>19, <1>t, <1>i DEF StartFunc
<1>20. ASSUME NEW w \in Threads, SkipFunc(w)
      PROVE  ServedInv'
  BY <1>20, <1>t, <1>i DEF SkipFunc
<1>21. ASSUME NEW w \in Threads, FuncReturn(w)
      PROVE  ServedInv'
  BY <1>21, <1>t, <1>i DEF FuncReturn
<1>22. ASSUME NEW w \in Threads, NEW runCallback \in BOOLEAN, CancelPoint(w, runCallback)
      PROVE  ServedInv'
  BY <1>22 DEF CancelPoint, TypeInv, HandInv, NoRestartInv
<1>23. ASSUME NEW w \in Threads, CancelUnqueued(w)
      PROVE  ServedInv'
  BY <1>23, <1>t, <1>i DEF CancelUnqueued
<1>24. ASSUME NEW w \in Threads, EnterCallback(w)
      PROVE  ServedInv'
  BY <1>24, <1>t, <1>i DEF EnterCallback
<1>25. ASSUME NEW w \in Threads, SkipCallback(w)
      PROVE  ServedInv'
  BY <1>25, <1>t, <1>i DEF SkipCallback
<1>26. ASSUME NEW w \in Threads, CallbackReturn(w)
      PROVE  ServedInv'
  BY <1>26, <1>t, <1>i DEF CallbackReturn
<1>27. ASSUME NEW w \in Threads, Finish(w)
      PROVE  ServedInv'
  BY <1>27, <1>t, <1>i DEF Finish, Drained
<1>28. ASSUME NEW w \in Threads, FinishTwice(w)
      PROVE  ServedInv'
  BY <1>28, <1>t, <1>i DEF FinishTwice
<1>29. ASSUME NEW w \in Threads, Trail(w)
      PROVE  ServedInv'
  BY <1>29, <1>t, <1>i DEF Trail
<1>30. ASSUME NEW w \in Threads, TestFunc(w)
      PROVE  ServedInv'
  BY <1>30, <1>t, <1>i DEF TestFunc
<1>31. ASSUME NEW w \in Threads, TestCallback(w)
      PROVE  ServedInv'
  BY <1>31, <1>t, <1>i DEF TestCallback
<1>32. CASE UNCHANGED vars
  BY <1>32 DEF vars
<1> QED
  BY <1>1, <1>2, <1>3, <1>4, <1>5, <1>6, <1>7, <1>8, <1>9, <1>10, <1>11, <1>12,
     <1>13, <1>14, <1>15, <1>16, <1>17, <1>18, <1>19, <1>20, <1>21, <1>22,
     <1>23, <1>24, <1>25, <1>26, <1>27, <1>28, <1>29, <1>30, <1>31, <1>32
  DEF Next, Client, MainStep, Advance, Choice, Procs

\* Every invariant of a queue whose tasks nobody asks to cancel.
ServingInv == late \/ (NoRestartInv /\ ServedInv)

LEMMA Served ==
    ASSUME "cancel" \notin Ops
    PROVE  Spec => [](OneWorkerInv /\ ServingInv)
<1>1. ASSUME TypeInv, ListInv, OneWorkerInv, ServingInv, [Next]_vars
      PROVE  ServingInv'
  <2> SUFFICES ASSUME ~late' PROVE NoRestartInv' /\ ServedInv'
    BY DEF ServingInv
  <2>1. NoRestartInv /\ ServedInv
    BY <1>1, BeforeLate DEF ServingInv
  <2> QED BY <1>1, <2>1, NoRestartStep, ServedStep
<1>2. TypeInv /\ ListInv /\ OneWorkerInv /\ ServingInv /\ [Next]_vars => ServingInv'
  BY <1>1
<1>3. Init => ServingInv
  BY ServedInit DEF ServingInv
<1> QED
  BY <1>2, <1>3, TypeInit, TypeStep, ListInit, ListStep, OneWorkerInit,
     OneWorkerStep, PTL DEF Spec

\* Until a store of the handle comes too late, a task of the list has a worker that
\* will look at the list again or a thread about to be started, as long as no
\* cancellation is requested.
THEOREM NothingStranded ==
    ASSUME "cancel" \notin Ops
    PROVE  Spec => []NoStrandedTask
<1>1. OneWorkerInv /\ ServingInv => NoStrandedTask
  BY DEF ServingInv, ServedInv, NoStrandedTask, Procs
<1>2. Spec => [](OneWorkerInv /\ ServingInv)
  BY Served
<1> QED BY <1>1, <1>2, PTL

\* When o_async_worker_join returns to its caller the list is empty, unless a store
\* of the handle came too late: the handle it waited for was that of the one worker,
\* which left the list empty, and no call started another since.
THEOREM JoinEmpties ==
    ASSUME "cancel" \notin Ops
    PROVE  Spec => []JoinWaitsUnlessLate
<1>1. OneWorkerInv /\ ServingInv => JoinWaitsUnlessLate
  BY DEF OneWorkerInv, HandleInv, ServingInv, ServedInv, JoinWaitsUnlessLate,
         JoinWaitsForAll
<1>2. Spec => [](OneWorkerInv /\ ServingInv)
  BY Served
<1> QED BY <1>1, <1>2, PTL

(***************************************************************************)
(* One task at a time, the highest priority first.                         *)
(***************************************************************************)

\* The field `current' names a task only while it is in hand, and nothing is between
\* the two halves of a set_priority.
CurrentInv ==
    /\ current # NULL => \E w \in Threads : Busy(w)
    /\ pc[Main] # "sort"

LEMMA CurrentInit == Init => CurrentInv
BY ProcAssumption DEF Init, CurrentInv, Busy, Procs

LEMMA CurrentStep ==
    ASSUME "cancel" \notin Ops, "priority" \notin Ops,
           TypeInv, OneWorkerInv, NoRestartInv, CurrentInv, [Next]_vars, ~late'
    PROVE  CurrentInv'
<1> USE ProcAssumption DEF queueVars, flagVars, taskVars, callVars, history, Goto
<1>t. /\ pc \in [Procs -> Labels] /\ handle \in [Procs -> Threads \cup {NULL}]
      /\ resume \in [Procs -> Labels] /\ thread \in Threads \cup {NULL}
      /\ work \in [Threads -> Tasks \cup {NULL}]
      /\ Main \in Procs /\ Main \notin Threads /\ NULL \notin Threads
      /\ \A w \in Threads : w \in Procs
  BY DEF TypeInv, TypeOK, Procs
<1>i. OnlyWorker /\ LabelInv /\ HandleInv
  BY BeforeLate
<1> USE DEF OnlyWorker, Working, LabelInv, WorkerLabels, MainLabels, CurrentInv,
            Busy
<1>1. ASSUME NEW p \in Procs, NEW t \in Tasks, Add(p, t)
      PROVE  CurrentInv'
  <2>1. CASE p = Main
    BY <1>1, <1>t, <1>i, <2>1 DEF Add, MayAdd
  <2>2. CASE p \in Threads
    <3>1. thread # NULL /\ pc[p] \in {"func", "callback", "adding"}
      BY <1>1, <2>2, WorkerAddFinds
    <3>2. pc' = [pc EXCEPT ![p] = IF pc[p] = "adding" THEN resume[p] ELSE pc[p]]
          /\ UNCHANGED <<current, work>>
      BY <1>1, <3>1 DEF Add, MustStart
    <3>3. pc'[Main] = pc[Main] /\ \A v \in Threads : Busy(v) => Busy(v)'
      BY <1>t, <1>i, <2>2, <3>1, <3>2
    <3> QED BY <3>2, <3>3
  <2> QED BY <2>1, <2>2 DEF Procs
<1>2. ASSUME NEW w \in Threads, BlockOnAdd(w)
      PROVE  CurrentInv'
  BY <1>2, <1>t, <1>i DEF BlockOnAdd, MayAdd
<1>3. ASSUME NEW t \in Tasks, NEW value \in Priorities, SetPriority(t, value)
      PROVE  CurrentInv'
  BY <1>3, <1>t, <1>i DEF SetPriority, MayCall, MayCallBounded
<1>4. ASSUME NEW t \in Tasks, NEW runCallback \in BOOLEAN, RemoveTask(t, runCallback)
      PROVE  CurrentInv'
  BY <1>4, <1>t, <1>i DEF RemoveTask, MayCall
<1>5. ASSUME RemoveWithoutCurrent PROVE CurrentInv'
  BY <1>5, <1>t, <1>i DEF RemoveWithoutCurrent
<1>6. ASSUME NEW t \in Tasks, RequestCancel(t)
      PROVE  CurrentInv'
  BY <1>6, <1>t, <1>i DEF RequestCancel, MayCall
<1>7. ASSUME Join PROVE CurrentInv'
  BY <1>7, <1>t, <1>i DEF Join, MayCall, MayCallBounded
<1>8. ASSUME Dispose PROVE CurrentInv'
  BY <1>8, <1>t, <1>i DEF Dispose, MayCall, MayCallBounded
<1>9. ASSUME NEW p \in Procs, NEW w \in Threads, CreateThread(p, w)
      PROVE  CurrentInv'
  BY <1>9, <1>t, <1>i DEF CreateThread, Procs, Fresh
<1>10. ASSUME NEW p \in Procs, StoreThread(p)
      PROVE  CurrentInv'
  BY <1>10, <1>t, <1>i DEF StoreThread, Procs
<1>11. ASSUME SortTasks PROVE CurrentInv'
  BY <1>11, <1>t, <1>i DEF SortTasks
<1>12. ASSUME JoinTest PROVE CurrentInv'
  BY <1>12, <1>t, <1>i DEF JoinTest
<1>13. ASSUME JoinRead PROVE CurrentInv'
  BY <1>13, <1>t, <1>i DEF JoinRead
<1>14. ASSUME JoinWait PROVE CurrentInv'
  BY <1>14, <1>t, <1>i DEF JoinWait
<1>15. ASSUME JoinReturn PROVE CurrentInv'
  BY <1>15, <1>t, <1>i DEF JoinReturn, HandleInv
<1>16. ASSUME Dispatch PROVE CurrentInv'
  BY <1>16, <1>t, <1>i DEF Dispatch
<1>17. ASSUME NEW w \in Threads, Pick(w)
      PROVE  CurrentInv'
  BY <1>17, <1>t, <1>i DEF Pick
<1>18. ASSUME NEW w \in Threads, StopEmpty(w)
      PROVE  CurrentInv'
  BY <1>18, <1>t, <1>i DEF StopEmpty
<1>19. ASSUME NEW w \in Threads, StartFunc(w)
      PROVE  CurrentInv'
  BY <1>19, <1>t, <1>i DEF StartFunc
<1>20. ASSUME NEW w \in Threads, SkipFunc(w)
      PROVE  CurrentInv'
  BY <1>20, <1>t, <1>i DEF SkipFunc
<1>21. ASSUME NEW w \in Threads, FuncReturn(w)
      PROVE  CurrentInv'
  BY <1>21, <1>t, <1>i DEF FuncReturn
<1>22. ASSUME NEW w \in Threads, NEW runCallback \in BOOLEAN, CancelPoint(w, runCallback)
      PROVE  CurrentInv'
  BY <1>22 DEF CancelPoint, TypeInv, HandInv, NoRestartInv
<1>23. ASSUME NEW w \in Threads, CancelUnqueued(w)
      PROVE  CurrentInv'
  BY <1>23, <1>t, <1>i DEF CancelUnqueued
<1>24. ASSUME NEW w \in Threads, EnterCallback(w)
      PROVE  CurrentInv'
  BY <1>24, <1>t, <1>i DEF EnterCallback
<1>25. ASSUME NEW w \in Threads, SkipCallback(w)
      PROVE  CurrentInv'
  BY <1>25, <1>t, <1>i DEF SkipCallback
<1>26. ASSUME NEW w \in Threads, CallbackReturn(w)
      PROVE  CurrentInv'
  BY <1>26, <1>t, <1>i DEF CallbackReturn
<1>27. ASSUME NEW w \in Threads, Finish(w)
      PROVE  CurrentInv'
  BY <1>27, <1>t, <1>i DEF Finish
<1>28. ASSUME NEW w \in Threads, FinishTwice(w)
      PROVE  CurrentInv'
  BY <1>28, <1>t, <1>i DEF FinishTwice
<1>29. ASSUME NEW w \in Threads, Trail(w)
      PROVE  CurrentInv'
  BY <1>29, <1>t, <1>i DEF Trail
<1>30. ASSUME NEW w \in Threads, TestFunc(w)
      PROVE  CurrentInv'
  BY <1>30, <1>t, <1>i DEF TestFunc
<1>31. ASSUME NEW w \in Threads, TestCallback(w)
      PROVE  CurrentInv'
  BY <1>31, <1>t, <1>i DEF TestCallback
<1>32. CASE UNCHANGED vars
  BY <1>32 DEF vars
<1> QED
  BY <1>1, <1>2, <1>3, <1>4, <1>5, <1>6, <1>7, <1>8, <1>9, <1>10, <1>11, <1>12,
     <1>13, <1>14, <1>15, <1>16, <1>17, <1>18, <1>19, <1>20, <1>21, <1>22,
     <1>23, <1>24, <1>25, <1>26, <1>27, <1>28, <1>29, <1>30, <1>31, <1>32
  DEF Next, Client, MainStep, Advance, Choice, Procs

\* What the abstract queue sees of the state.
LEMMA SerialFrame ==
    UNCHANGED <<priority, tasks, current, id, late>> => UNCHANGED Serial!vars
BY DEF Serial!vars

\* The initial queue is an empty one.
LEMMA SerialInit == Init => Serial!Init
<1> SUFFICES ASSUME Init PROVE Serial!Init
  OBVIOUS
<1>1. Range(tasks) = {}
  BY DEF Init, Range
<1> QED BY <1>1 DEF Init, Serial!Init

\* A step of the queue is a submission (add), the beginning of the first of the
\* waiting tasks (pick), the end of the one in hand (finish), or is not seen.
LEMMA SerialStep ==
    ASSUME "cancel" \notin Ops, "priority" \notin Ops,
           TypeInv, ListInv, OneWorkerInv, HeldInv, CurrentInv, [Next]_vars, ~late'
    PROVE  [Serial!Next]_(Serial!vars)
<1> USE ProcAssumption DEF queueVars, flagVars, taskVars, callVars, history, Goto
<1>t. /\ pc \in [Procs -> Labels] /\ handle \in [Procs -> Threads \cup {NULL}]
      /\ resume \in [Procs -> Labels] /\ thread \in Threads \cup {NULL}
      /\ work \in [Threads -> Tasks \cup {NULL}]
      /\ Main \in Procs /\ Main \notin Threads /\ NULL \notin Threads
      /\ \A w \in Threads : w \in Procs
  BY DEF TypeInv, TypeOK, Procs
<1>i. OnlyWorker /\ LabelInv /\ HandleInv
  BY BeforeLate
<1>l. ~late /\ late' = late
  BY BeforeLate, TypeStep DEF TypeInv, TypeOK
<1>f. UNCHANGED <<priority, tasks, current, id>> => [Serial!Next]_(Serial!vars)
  BY <1>l, SerialFrame
<1>r. /\ tasks \in Seq(Tasks) /\ Range(tasks) \in SUBSET Tasks
      /\ current \in Range(tasks) \cup {NULL} /\ NULL \notin Range(tasks)
      /\ \A u \in Range(tasks) : id[u] # Unadded
      /\ id \in [Tasks -> Nat] /\ idseed \in Nat
  <2>1. tasks \in Seq(Tasks) /\ id \in [Tasks -> Nat] /\ idseed \in Nat
    BY DEF TypeInv, TypeOK
  <2>2. Range(tasks) \in SUBSET Tasks
    BY <2>1, RangeOfSeq
  <2>3. current \in Range(tasks) \cup {NULL}
    BY DEF CurrentInv, HeldInv
  <2>4. \A u \in Range(tasks) : id[u] # Unadded
    BY ListedAdded
  <2> QED BY <2>1, <2>2, <2>3, <2>4, TaskAssumption
<1>1. ASSUME NEW p \in Procs, NEW t \in Tasks, Add(p, t)
      PROVE  [Serial!Next]_(Serial!vars)
  <2>1. /\ Range(tasks') = Range(tasks) \cup {t}
        /\ id[t] = Unadded /\ id' = [id EXCEPT ![t] = idseed + 1]
        /\ priority' = priority /\ current' = current
    BY <1>1, AddKeepsTasks DEF Add
  <2>2. t \notin Range(tasks) /\ t # current
    BY <1>r, <2>1, TaskAssumption
  <2>3. {u \in Tasks : id'[u] # Unadded} = {u \in Tasks : id[u] # Unadded} \cup {t}
    BY <1>r, <2>1 DEF Unadded
  <2>4. Serial!Submit(t)
    BY <2>1, <2>2, <2>3 DEF Serial!Submit
  <2> QED BY <1>l, <2>4 DEF Serial!Next, Serial!Work, Serial!Unbroken
<1>2. ASSUME NEW w \in Threads, BlockOnAdd(w)
      PROVE  [Serial!Next]_(Serial!vars)
  BY <1>2, <1>f DEF BlockOnAdd
<1>3. ASSUME NEW t \in Tasks, NEW value \in Priorities, SetPriority(t, value)
      PROVE  [Serial!Next]_(Serial!vars)
  BY <1>3 DEF SetPriority, MayCallBounded, MayCall
<1>4. ASSUME NEW t \in Tasks, NEW runCallback \in BOOLEAN, RemoveTask(t, runCallback)
      PROVE  [Serial!Next]_(Serial!vars)
  BY <1>4, <1>f DEF RemoveTask
<1>5. ASSUME RemoveWithoutCurrent PROVE [Serial!Next]_(Serial!vars)
  BY <1>5, <1>f DEF RemoveWithoutCurrent
<1>6. ASSUME NEW t \in Tasks, RequestCancel(t)
      PROVE  [Serial!Next]_(Serial!vars)
  BY <1>6, <1>f DEF RequestCancel
<1>7. ASSUME Join PROVE [Serial!Next]_(Serial!vars)
  BY <1>7, <1>f DEF Join
<1>8. ASSUME Dispose PROVE [Serial!Next]_(Serial!vars)
  BY <1>8, <1>f DEF Dispose
<1>9. ASSUME NEW p \in Procs, NEW w \in Threads, CreateThread(p, w)
      PROVE  [Serial!Next]_(Serial!vars)
  BY <1>9, <1>f DEF CreateThread
<1>10. ASSUME NEW p \in Procs, StoreThread(p)
      PROVE  [Serial!Next]_(Serial!vars)
  BY <1>10, <1>f DEF StoreThread
<1>11. ASSUME SortTasks PROVE [Serial!Next]_(Serial!vars)
  BY <1>11 DEF SortTasks, CurrentInv
<1>12. ASSUME JoinTest PROVE [Serial!Next]_(Serial!vars)
  BY <1>12, <1>f DEF JoinTest
<1>13. ASSUME JoinRead PROVE [Serial!Next]_(Serial!vars)
  BY <1>13, <1>f DEF JoinRead
<1>14. ASSUME JoinWait PROVE [Serial!Next]_(Serial!vars)
  BY <1>14, <1>f DEF JoinWait
<1>15. ASSUME JoinReturn PROVE [Serial!Next]_(Serial!vars)
  <2>1. \A v \in Threads : ~Busy(v)
    BY <1>15, <1>i DEF JoinReturn, HandleInv, Working, Busy
  <2>2. current = NULL
    BY <2>1 DEF CurrentInv
  <2> QED BY <1>15, <1>f, <2>2 DEF JoinReturn
<1>16. ASSUME Dispatch PROVE [Serial!Next]_(Serial!vars)
  BY <1>16, <1>f DEF Dispatch
<1>17. ASSUME NEW w \in Threads, Pick(w)
      PROVE  [Serial!Next]_(Serial!vars)
  <2>1. CASE tasks = <<>>
    BY <1>17, <1>f, <2>1 DEF Pick
  <2>2. CASE tasks # <<>>
    <3> DEFINE t == Head(tasks)
    <3>1. /\ current' = t /\ tasks' = tasks /\ id' = id /\ priority' = priority
      BY <1>17, <2>2 DEF Pick
    <3>2. \A v \in Threads : ~Busy(v)
      BY <1>17, <1>i DEF Pick, OnlyWorker, Working, Busy
    <3>3. current = NULL
      BY <3>2 DEF CurrentInv
    <3>4. t \in Range(tasks)
      BY <2>2, HeadInRange
    <3>5. \A u \in Range(tasks) : priority[u] <= priority[t]
      <4>1. /\ Len(tasks) \in Nat /\ Len(tasks) # 0 /\ Head(tasks) = tasks[1]
            /\ Range(tasks) = {tasks[i] : i \in 1 .. Len(tasks)}
        BY <1>r, <2>2, LenProperties, EmptySeq, RangeEquality
      <4>2. \A i, j \in 1 .. Len(tasks) : i < j => priority[tasks[i]] >= priority[tasks[j]]
        BY DEF ListInv, ListOrdered, CurrentInv
      <4>3. \A u \in Range(tasks) : priority[u] \in Nat
        BY <1>r, PriorityAssumption DEF TypeInv, TypeOK
      <4> SUFFICES ASSUME NEW j \in 1 .. Len(tasks)
                   PROVE  priority[tasks[j]] <= priority[tasks[1]]
        BY <4>1
      <4>4. priority[tasks[j]] \in Nat /\ priority[tasks[1]] \in Nat
        BY <3>4, <4>1, <4>3
      <4>5. CASE j = 1
        BY <4>4, <4>5
      <4>6. CASE j > 1
        <5>1. 1 \in 1 .. Len(tasks)
          BY <4>1
        <5> QED BY <4>2, <4>4, <4>6, <5>1
      <4> QED BY <4>5, <4>6
    <3> HIDE DEF t
    <3>6. Serial!Begin(t)
      BY <1>r, <3>1, <3>3, <3>4, <3>5 DEF Serial!Begin
    <3> QED BY <1>l, <1>r, <3>4, <3>6 DEF Serial!Next, Serial!Work, Serial!Unbroken
  <2> QED BY <2>1, <2>2
<1>18. ASSUME NEW w \in Threads, StopEmpty(w)
      PROVE  [Serial!Next]_(Serial!vars)
  BY <1>18, <1>f DEF StopEmpty
<1>19. ASSUME NEW w \in Threads, StartFunc(w)
      PROVE  [Serial!Next]_(Serial!vars)
  BY <1>19, <1>f DEF StartFunc
<1>20. ASSUME NEW w \in Threads, SkipFunc(w)
      PROVE  [Serial!Next]_(Serial!vars)
  BY <1>20, <1>f DEF SkipFunc
<1>21. ASSUME NEW w \in Threads, FuncReturn(w)
      PROVE  [Serial!Next]_(Serial!vars)
  BY <1>21, <1>f DEF FuncReturn
<1>22. ASSUME NEW w \in Threads, NEW runCallback \in BOOLEAN, CancelPoint(w, runCallback)
      PROVE  [Serial!Next]_(Serial!vars)
  BY <1>22, <1>f DEF CancelPoint
<1>23. ASSUME NEW w \in Threads, CancelUnqueued(w)
      PROVE  [Serial!Next]_(Serial!vars)
  BY <1>23, <1>f DEF CancelUnqueued
<1>24. ASSUME NEW w \in Threads, EnterCallback(w)
      PROVE  [Serial!Next]_(Serial!vars)
  BY <1>24, <1>f DEF EnterCallback
<1>25. ASSUME NEW w \in Threads, SkipCallback(w)
      PROVE  [Serial!Next]_(Serial!vars)
  BY <1>25, <1>f DEF SkipCallback
<1>26. ASSUME NEW w \in Threads, CallbackReturn(w)
      PROVE  [Serial!Next]_(Serial!vars)
  BY <1>26, <1>f DEF CallbackReturn
<1>27. ASSUME NEW w \in Threads, Finish(w)
      PROVE  [Serial!Next]_(Serial!vars)
  <2>1. /\ work[w] \in Range(tasks) /\ Range(tasks') = Range(tasks) \ {work[w]}
        /\ current' = NULL /\ id' = id /\ priority' = priority
    BY <1>27, FinishTakesTask DEF Finish
  <2>2. work[w] = current
    BY <1>27 DEF Finish, HeldInv, Busy
  <2>3. Serial!End
    BY <1>r, <2>1, <2>2 DEF Serial!End
  <2> QED BY <1>l, <2>3 DEF Serial!Next, Serial!Work, Serial!Unbroken
<1>28. ASSUME NEW w \in Threads, FinishTwice(w)
      PROVE  [Serial!Next]_(Serial!vars)
  BY <1>28, <1>f DEF FinishTwice
<1>29. ASSUME NEW w \in Threads, Trail(w)
      PROVE  [Serial!Next]_(Serial!vars)
  BY <1>29, <1>f DEF Trail
<1>30. ASSUME NEW w \in Threads, TestFunc(w)
      PROVE  [Serial!Next]_(Serial!vars)
  BY <1>30, <1>f DEF TestFunc
<1>31. ASSUME NEW w \in Threads, TestCallback(w)
      PROVE  [Serial!Next]_(Serial!vars)
  BY <1>31, <1>f DEF TestCallback
<1>32. CASE UNCHANGED vars
  BY <1>32, <1>f DEF vars
<1> QED
  BY <1>1, <1>2, <1>3, <1>4, <1>5, <1>6, <1>7, <1>8, <1>9, <1>10, <1>11, <1>12,
     <1>13, <1>14, <1>15, <1>16, <1>17, <1>18, <1>19, <1>20, <1>21, <1>22,
     <1>23, <1>24, <1>25, <1>26, <1>27, <1>28, <1>29, <1>30, <1>31, <1>32
  DEF Next, Client, MainStep, Advance, Choice, Procs

\* The safety half of RefinesSerialQueue, for any number of tasks, threads and
\* priorities: as long as nobody cancels a task or changes the priority of one in
\* the list, and no store of the handle came too late, the threads, handles and locks
\* carry out a queue that has one task in hand at a time, begins the waiting one of
\* highest priority and ends each once.
THEOREM ImplementsSerialQueue ==
    ASSUME "cancel" \notin Ops, "priority" \notin Ops
    PROVE  Spec => Serial!Spec
<1> DEFINE QueueInv == late \/ (NoRestartInv /\ CurrentInv)
<1>1. ASSUME TypeInv, OneWorkerInv, QueueInv, [Next]_vars
      PROVE  QueueInv'
  <2> SUFFICES ASSUME ~late' PROVE NoRestartInv' /\ CurrentInv'
    OBVIOUS
  <2>1. NoRestartInv /\ CurrentInv
    BY <1>1, BeforeLate
  <2> QED BY <1>1, <2>1, NoRestartStep, CurrentStep
<1>2. ASSUME TypeInv, ListInv, OneWorkerInv, RunsInv, QueueInv, [Next]_vars
      PROVE  [Serial!Next]_(Serial!vars)
  <2>1. CASE late'
    BY <2>1 DEF Serial!Next, Serial!Break
  <2>2. CASE ~late'
    <3>1. HeldInv /\ CurrentInv
      BY <1>2, <2>2, BeforeLate DEF RunsInv
    <3> QED BY <1>2, <2>2, <3>1, SerialStep
  <2> QED BY <2>1, <2>2
<1>3. Init => QueueInv
  BY ServedInit, CurrentInit
<1> HIDE DEF QueueInv
<1>4. TypeInv /\ OneWorkerInv /\ QueueInv /\ [Next]_vars => QueueInv'
  BY <1>1
<1>5. TypeInv /\ ListInv /\ OneWorkerInv /\ RunsInv /\ QueueInv /\ [Next]_vars
          => [Serial!Next]_(Serial!vars)
  BY <1>2
<1> QED
  BY <1>3, <1>4, <1>5, TypeInit, TypeStep, ListInit, ListStep, OneWorkerInit,
     OneWorkerStep, RunsInit, RunsStep, SerialInit, PTL DEF Spec, Serial!Spec

=============================================================================
