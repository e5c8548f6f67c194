--------------------------- MODULE TaskCacheProofs --------------------------
(***************************************************************************)
(* Proofs about tasks and proxy, for any requests, POSTs and number of      *)
(* tasks: the types, that no freed results are in the table or in a         *)
(* callback of the worker, and what a POST leaves of older answers.         *)
(*                                                                         *)
(* None of it is inductive.  A reference count is right only because the    *)
(* results of a task enter the table once, under its own request            *)
(* (CacheInv), and because a task without results is known to nobody        *)
(* (ApartInv); the worker's own reference is then one more than the         *)
(* table's (CountInv).                                                      *)
(***************************************************************************)
EXTENDS TaskCache, SequenceTheorems, TLAPS

Made == 1 .. Len(made)

\* In gnome_app_task_push; with a task that has no results, or those of a file.
Active(p) == pc[p] \in PushLabels
Asking(p) == pc[p] \in PushLabels \ {"use"}
Loading(p) == pc[p] \in {"loaded", "add"}

\* The worker has stored an answer and is to save it; it has results of its own.
Saving == pc[Worker] = "save" \/ (Active(Worker) /\ cont = "save")
Holding == pc[Worker] \in {"proxyadd", "callback"} \/ Saving

Values == [version : Nat \cup {NULL}, from : {"net", "file"}]

WhereInv ==
    /\ waiting \subseteq Made
    /\ running \in Made \cup {NULL}
    /\ pc[Main] \in PushLabels \cup {"idle"}
    /\ pc[Worker] # "idle" => running # NULL
    /\ Active(Worker) => cont \in {"ref", "save"}
    /\ Active(Worker) \/ pc[Worker] \in {"ref", "save"} => Method(running) = "GET"
    /\ \A p \in Procs : Active(p) => pushed[p] \in Made
    /\ \A p \in Procs : Active(p) /\ pc[p] # "out" => Method(pushed[p]) = "GET"

AnswerInv ==
    /\ answer \in Made \cup {NULL}
    /\ pc[Worker] \in {"idle", "func", "call"} => answer = NULL
    /\ pc[Worker] = "proxyadd" \/ Saving => answer = running /\ value[running] \in Values

\* What the table has is of the request it is found by.
CacheInv ==
    \A r \in Requests : cache[r] # NULL =>
        cache[r] \in Made /\ Method(cache[r]) = "GET" /\ Request(cache[r]) = r

\* Nobody has results of the task.
Unknown(t) == answer # t /\ \A r \in Requests : cache[r] # t

ApartInv ==
    /\ \A t \in waiting : Unknown(t)
    /\ running \notin waiting
    /\ pc[Worker] \in {"func", "call", "proxyadd"} => \A r \in Requests : cache[r] # running
    /\ \A p \in Procs : Asking(p) => Unknown(pushed[p]) /\ pushed[p] \notin waiting \cup {running}
    /\ Asking(Main) /\ Asking(Worker) => pushed[Main] # pushed[Worker]

CountInv ==
    /\ \A r \in Requests : cache[r] # NULL => refs[cache[r]] >= 1
    /\ Holding /\ answer # NULL =>
          /\ refs[answer] >= 1
          /\ \A r \in Requests : cache[r] = answer => refs[answer] >= 2

ResultsInv == TypeOK /\ WhereInv /\ AnswerInv /\ CacheInv /\ ApartInv /\ CountInv

-----------------------------------------------------------------------------
(***************************************************************************)
(* Types, in parts, and what a new task changes.                            *)
(***************************************************************************)

MadeType == made \in Seq(Tasks) /\ Len(made) <= MaxTasks
QueueType ==
    waiting \subseteq TaskIds /\ running \in TaskIds \cup {NULL} /\ done \subseteq TaskIds
StoreType ==
    /\ cache \in [Requests -> TaskIds \cup {NULL}]
    /\ disk \in [Requests -> Nat \cup {NULL}]
    /\ saved \subseteq Requests
ResultType ==
    refs \in [TaskIds -> Nat] /\ value \in [TaskIds -> Values \cup {NULL}]
ServerType == server \in [Functions -> Nat] /\ floor \in [Functions -> Nat]
PlaceType ==
    /\ pc \in [Procs -> Labels] /\ pushed \in [Procs -> TaskIds \cup {NULL}]
    /\ held \in [Procs -> TaskIds \cup {NULL}]
    /\ answer \in TaskIds \cup {NULL} /\ cont \in {"idle", "ref", "save"}
EndType == calls \in [TaskIds -> Nat] /\ crashed \in BOOLEAN

LEMMA Parts ==
    TypeOK <=> /\ MadeType /\ QueueType /\ StoreType /\ ResultType /\ ServerType
               /\ PlaceType /\ EndType
  BY DEF TypeOK, MadeType, QueueType, StoreType, ResultType, ServerType, PlaceType, EndType,
     Values

LEMMA PartsAfter ==
    MadeType' /\ QueueType' /\ StoreType' /\ ResultType' /\ ServerType' /\ PlaceType' /\ EndType'
        => TypeOK'
  BY DEF TypeOK, MadeType, QueueType, StoreType, ResultType, ServerType, PlaceType, EndType,
     Values

LEMMA Counted == ASSUME MadeType PROVE Len(made) \in Nat /\ Made \subseteq TaskIds
  BY BoundAssumption, LenProperties DEF MadeType, Made, TaskIds

LEMMA TaskTyped ==
    ASSUME MadeType, NEW t \in Made
    PROVE  /\ made[t] \in Tasks /\ made[t].callback \in BOOLEAN
           /\ Method(t) \in {"GET", "POST"}
           /\ Method(t) = "GET" => Request(t) \in Requests
           /\ Method(t) = "POST" => Request(t) \in Posts
<1>1. made[t] \in Tasks
  BY LenProperties DEF MadeType, Made
<1> QED
  BY <1>1 DEF Tasks, Method, Request

\* A new task comes after the others and leaves them as they are.
LEMMA Grown ==
    ASSUME MadeType, Len(made) < MaxTasks, NEW task \in Tasks, made' = Append(made, task)
    PROVE  /\ MadeType' /\ Len(made') = Len(made) + 1
           /\ made'[Len(made) + 1] = task
           /\ \A t \in Made : made'[t] = made[t]
<1>1. /\ Append(made, task) \in Seq(Tasks)
      /\ Len(Append(made, task)) = Len(made) + 1
      /\ \A i \in 1 .. Len(made) : Append(made, task)[i] = made[i]
      /\ Append(made, task)[Len(made) + 1] = task
  BY AppendProperties DEF MadeType
<1> QED
  BY <1>1, Counted, BoundAssumption DEF MadeType, Made

\* The step of a thread that may have made the task it goes on with.
Grows(p) ==
    /\ MadeType' /\ Len(made) \in Nat /\ Len(made') = Len(made) + 1
    /\ Len(made) + 1 \in TaskIds /\ Len(made) + 1 \notin Made /\ Len(made) + 1 \in Made'
    /\ Made \subseteq Made' /\ \A t \in Made : made'[t] = made[t]
    /\ pushed' = [pushed EXCEPT ![p] = Len(made) + 1]

LEMMA PushGrows ==
    ASSUME MadeType, NEW task \in Tasks, Push(task)
    PROVE  /\ Grows(Main) /\ made'[Len(made) + 1] = task
           /\ pc[Main] = "idle"
           /\ pc' = [pc EXCEPT ![Main] = IF task.method = "GET" THEN "find" ELSE "out"]
<1>1. /\ MadeType' /\ Len(made') = Len(made) + 1
      /\ made'[Len(made) + 1] = task
      /\ \A t \in Made : made'[t] = made[t]
  BY Grown DEF Push
<1> QED
  BY <1>1, Counted, BoundAssumption DEF Push, Goto, Grows, Made, TaskIds

LEMMA PredictGrows ==
    ASSUME MadeType, NEW p \in Procs, NEW r \in Requests, Predict(p, r)
    PROVE  /\ Grows(p) /\ made'[Len(made) + 1].method = "GET"
           /\ pc' = [pc EXCEPT ![p] = "find"]
<1> DEFINE task == [method |-> "GET", request |-> NextPage(r), priority |-> PREDICT,
                    callback |-> FALSE]
<1>1. NextPage(r) \in Requests
  BY DEF Predict, NextPage
<1>2. task \in Tasks
  BY <1>1 DEF Tasks
<1>3. Len(made) < MaxTasks /\ made' = Append(made, task)
  BY DEF Predict
<1>4. task.method = "GET"
  OBVIOUS
<1> HIDE DEF task
<1>5. /\ MadeType' /\ Len(made') = Len(made) + 1
      /\ made'[Len(made) + 1] = task
      /\ \A t \in Made : made'[t] = made[t]
  BY <1>2, <1>3, Grown
<1> QED
  BY <1>3, <1>4, <1>5, Counted, BoundAssumption DEF Predict, Goto, Grows, Made, TaskIds

\* The thread goes on with a task it has made, or at label.
GoesOn(p, label) ==
    \/ /\ Grows(p) /\ made'[Len(made) + 1].method = "GET"
       /\ pc' = [pc EXCEPT ![p] = "find"]
    \/ UNCHANGED <<made, pushed>> /\ pc' = [pc EXCEPT ![p] = label]

\* The task asks for something, and none of its results is in the table.
Asks(t) ==
    t \in Made /\ t \in TaskIds /\ Request(t) \in Requests /\ Method(t) = "GET"
NotListed(t) == \A r \in Requests : cache[r] # t

\* Results that join the table: one reference more for them, one less for what
\* the table had.
Added(t) ==
    /\ cache' \in [Requests -> TaskIds \cup {NULL}]
    /\ cache'[Request(t)] = t
    /\ \A r \in Requests \ {Request(t)} : cache'[r] = cache[r]
    /\ refs' \in [TaskIds -> Nat]
    /\ refs'[t] = refs[t] + 1
    /\ \A u \in TaskIds \ {t} :
          refs'[u] = IF u = cache[Request(t)] THEN refs[u] - 1 ELSE refs[u]

LEMMA ProxyAdded ==
    ASSUME StoreType, ResultType, CacheInv, CountInv, NEW t \in TaskIds, Request(t) \in Requests,
           NotListed(t), ProxyAdd(t)
    PROVE  Added(t)
<1> USE BoundAssumption DEF ProxyAdd
<1>1. cache' \in [Requests -> TaskIds \cup {NULL}]
  BY DEF StoreType
<1>2. \A u \in TaskIds : refs'[u] = CASE u = t -> refs[u] + 1
                                      [] u = cache[Request(t)] -> refs[u] - 1
                                      [] OTHER -> refs[u]
  OBVIOUS
<1>3. \A u \in TaskIds : refs[u] \in Nat
  BY DEF ResultType
<1>4. \A u \in TaskIds : u = cache[Request(t)] => refs[u] >= 1
  BY DEF CountInv
<1>5. \A u \in TaskIds : refs'[u] \in Nat
  BY <1>2, <1>3, <1>4
<1>6. refs' \in [TaskIds -> Nat]
  BY <1>5
<1> QED
  BY <1>1, <1>2, <1>6 DEF StoreType, NotListed, Added

\* A callback is counted.
LEMMA CallsTyped ==
    ASSUME EndType, NEW t \in TaskIds, CallBack(t), UNCHANGED crashed
    PROVE  EndType'
  BY DEF EndType, CallBack

-----------------------------------------------------------------------------
(***************************************************************************)
(* One lemma for each action.                                               *)
(***************************************************************************)

LEMMA FindKeeps ==
    ASSUME ResultsInv, NEW p \in Procs, Find(p)
    PROVE  ResultsInv'
<1> USE ProcAssumption, BoundAssumption
    DEF queueVars, storeVars, resultVars, serverVars, localVars, Goto, Procs, Labels, PushLabels
<1>a. /\ MadeType /\ QueueType /\ StoreType /\ ResultType /\ ServerType /\ PlaceType /\ EndType
      /\ WhereInv /\ AnswerInv /\ CacheInv /\ ApartInv /\ CountInv
  BY Parts DEF ResultsInv
<1>b. Made \subseteq TaskIds
  BY <1>a, Counted
<1>c. Request(pushed[p]) \in Requests
  BY <1>a, TaskTyped DEF WhereInv, Active, Find
<1>1. TypeOK'
  <2>1. MadeType' /\ QueueType' /\ StoreType' /\ ResultType' /\ ServerType' /\ EndType'
    BY <1>a DEF MadeType, QueueType, StoreType, ResultType, ServerType, EndType, Find
  <2>2. PlaceType'
    <3>1. cache[Request(pushed[p])] \in TaskIds \cup {NULL}
      BY <1>a, <1>c DEF StoreType, Find
    <3> QED
      BY <1>a, <3>1 DEF PlaceType, Find
  <2> QED
    BY <2>1, <2>2, PartsAfter
<1>2. WhereInv'
  BY <1>a, <1>b DEF MadeType, QueueType, PlaceType, WhereInv, Active, Made, Method, Request, Find
<1>3. AnswerInv'
  BY <1>a, <1>b DEF MadeType, QueueType, PlaceType, StoreType, ResultType, WhereInv, AnswerInv,
     CacheInv, Saving, Active, Made, Method, Request, Find
<1>4. CacheInv'
  BY <1>a, <1>b DEF MadeType, QueueType, PlaceType, StoreType, WhereInv, CacheInv, Active, Made,
     Method, Request, Find
<1>5. ApartInv'
  BY <1>a, <1>b DEF MadeType, QueueType, PlaceType, StoreType, WhereInv, AnswerInv, CacheInv,
     ApartInv, Unknown, Active, Asking, Made, Method, Request, Find
<1>6. CountInv'
  BY <1>a, <1>b DEF MadeType, QueueType, PlaceType, StoreType, ResultType, WhereInv, AnswerInv,
     CacheInv, ApartInv, CountInv, Unknown, Active, Asking, Saving, Holding, Made, Method,
     Request, Find
<1> QED
  BY <1>1, <1>2, <1>3, <1>4, <1>5, <1>6 DEF ResultsInv

LEMMA UseHitKeeps ==
    ASSUME ResultsInv, NEW p \in Procs, UseHit(p)
    PROVE  ResultsInv'
<1> USE ProcAssumption, BoundAssumption
    DEF queueVars, storeVars, resultVars, serverVars, localVars, Goto, Procs, Labels, PushLabels
<1>a. /\ MadeType /\ QueueType /\ StoreType /\ ResultType /\ ServerType /\ PlaceType /\ EndType
      /\ WhereInv /\ AnswerInv /\ CacheInv /\ ApartInv /\ CountInv
  BY Parts DEF ResultsInv
<1>b. Made \subseteq TaskIds
  BY <1>a, Counted
<1>1. TypeOK'
  <2>1. MadeType' /\ QueueType' /\ StoreType' /\ ResultType' /\ ServerType'
    BY <1>a DEF MadeType, QueueType, StoreType, ResultType, ServerType, UseHit
  <2>2. PlaceType'
    BY <1>a, <1>b DEF PlaceType, WhereInv, Active, UseHit, AfterHit, PushReturns, CallBack
  <2>3. EndType'
    BY <1>a, <1>b, CallsTyped DEF WhereInv, Active, UseHit
  <2> QED
    BY <2>1, <2>2, <2>3, PartsAfter
<1>2. WhereInv'
  BY <1>a, <1>b DEF MadeType, QueueType, PlaceType, WhereInv, Active, Made, Method, Request,
     UseHit, AfterHit, PushReturns, CallBack
<1>3. AnswerInv'
  BY <1>a, <1>b DEF MadeType, QueueType, PlaceType, StoreType, ResultType, WhereInv, AnswerInv,
     CacheInv, Saving, Active, Made, Method, Request, UseHit, AfterHit, PushReturns, CallBack
<1>4. CacheInv'
  BY <1>a, <1>b DEF MadeType, QueueType, PlaceType, StoreType, WhereInv, CacheInv, Active, Made,
     Method, Request, UseHit, AfterHit, PushReturns, CallBack
<1>5. ApartInv'
  BY <1>a, <1>b DEF MadeType, QueueType, PlaceType, StoreType, WhereInv, AnswerInv, CacheInv,
     ApartInv, Unknown, Active, Asking, Made, Method, Request, UseHit, AfterHit, PushReturns,
     CallBack
<1>6. CountInv'
  BY <1>a, <1>b DEF MadeType, QueueType, PlaceType, StoreType, ResultType, WhereInv, AnswerInv,
     CacheInv, ApartInv, CountInv, Unknown, Active, Asking, Saving, Holding, Made, Method,
     Request, UseHit, AfterHit, PushReturns, CallBack
<1> QED
  BY <1>1, <1>2, <1>3, <1>4, <1>5, <1>6 DEF ResultsInv

LEMMA UseFreedKeeps ==
    ASSUME ResultsInv, NEW p \in Procs, UseFreed(p)
    PROVE  ResultsInv'
<1> USE ProcAssumption, BoundAssumption
    DEF queueVars, storeVars, resultVars, serverVars, localVars, Goto, Procs, Labels, PushLabels
<1>a. /\ MadeType /\ QueueType /\ StoreType /\ ResultType /\ ServerType /\ PlaceType /\ EndType
      /\ WhereInv /\ AnswerInv /\ CacheInv /\ ApartInv /\ CountInv
  BY Parts DEF ResultsInv
<1>b. Made \subseteq TaskIds
  BY <1>a, Counted
<1>1. TypeOK'
  <2>1. MadeType' /\ QueueType' /\ StoreType' /\ ResultType' /\ ServerType' /\ PlaceType'
    BY <1>a DEF MadeType, QueueType, StoreType, ResultType, ServerType, PlaceType, UseFreed
  <2>2. EndType'
    BY <1>a, <1>b DEF EndType, WhereInv, Active, UseFreed, Crash
  <2> QED
    BY <2>1, <2>2, PartsAfter
<1>2. WhereInv'
  BY <1>a, <1>b DEF MadeType, QueueType, PlaceType, WhereInv, Active, Made, Method, Request,
     UseFreed, Crash
<1>3. AnswerInv'
  BY <1>a, <1>b DEF MadeType, QueueType, PlaceType, StoreType, ResultType, WhereInv, AnswerInv,
     CacheInv, Saving, Active, Made, Method, Request, UseFreed, Crash
<1>4. CacheInv'
  BY <1>a, <1>b DEF MadeType, QueueType, PlaceType, StoreType, WhereInv, CacheInv, Active, Made,
     Method, Request, UseFreed, Crash
<1>5. ApartInv'
  BY <1>a, <1>b DEF MadeType, QueueType, PlaceType, StoreType, WhereInv, AnswerInv, CacheInv,
     ApartInv, Unknown, Active, Asking, Made, Method, Request, UseFreed, Crash
<1>6. CountInv'
  BY <1>a, <1>b DEF MadeType, QueueType, PlaceType, StoreType, ResultType, WhereInv, AnswerInv,
     CacheInv, ApartInv, CountInv, Unknown, Active, Asking, Saving, Holding, Made, Method,
     Request, UseFreed, Crash
<1> QED
  BY <1>1, <1>2, <1>3, <1>4, <1>5, <1>6 DEF ResultsInv

LEMMA ReadDiskKeeps ==
    ASSUME ResultsInv, NEW p \in Procs, ReadDisk(p)
    PROVE  ResultsInv'
<1> USE ProcAssumption, BoundAssumption
    DEF queueVars, storeVars, resultVars, serverVars, localVars, Goto, Procs, Labels, PushLabels
<1>a. /\ MadeType /\ QueueType /\ StoreType /\ ResultType /\ ServerType /\ PlaceType /\ EndType
      /\ WhereInv /\ AnswerInv /\ CacheInv /\ ApartInv /\ CountInv
  BY Parts DEF ResultsInv
<1>b. Made \subseteq TaskIds
  BY <1>a, Counted
<1>c. Request(pushed[p]) \in Requests
  BY <1>a, TaskTyped DEF WhereInv, Active, ReadDisk
<1>1. TypeOK'
  <2>1. MadeType' /\ QueueType' /\ StoreType' /\ ServerType' /\ EndType'
    BY <1>a DEF MadeType, QueueType, StoreType, ServerType, EndType, ReadDisk
  <2>2. ResultType'
    <3>1. disk[Request(pushed[p])] \in Nat \cup {NULL}
      BY <1>a, <1>c DEF StoreType, ReadDisk
    <3>2. [version |-> disk[Request(pushed[p])], from |-> "file"] \in Values
      BY <3>1 DEF Values
    <3>3. \/ UNCHANGED resultVars
          \/ /\ refs' = [refs EXCEPT ![pushed[p]] = 1]
             /\ \E v \in Values : value' = [value EXCEPT ![pushed[p]] = v]
      BY <3>2 DEF ReadDisk
    <3> QED
      BY <1>a, <3>3 DEF ResultType
  <2>3. PlaceType'
    BY <1>a, <1>b DEF PlaceType, WhereInv, Active, ReadDisk
  <2> QED
    BY <2>1, <2>2, <2>3, PartsAfter
<1>2. WhereInv'
  BY <1>a, <1>b DEF MadeType, QueueType, PlaceType, WhereInv, Active, Made, Method, Request,
     ReadDisk
<1>3. AnswerInv'
  <2>1. pc[Worker] = "proxyadd" \/ Saving => value'[running] = value[running]
    <3>1. pushed[p] # running
      BY <1>a DEF ApartInv, Asking, ReadDisk
    <3> QED
      BY <1>a, <1>b, <3>1 DEF ResultType, WhereInv, Saving, Active, ReadDisk
  <2> QED
    BY <1>a, <1>b, <2>1
    DEF PlaceType, WhereInv, AnswerInv, Saving, Active, Made, ReadDisk
<1>4. CacheInv'
  BY <1>a, <1>b DEF MadeType, QueueType, PlaceType, StoreType, WhereInv, CacheInv, Active, Made,
     Method, Request, ReadDisk
<1>5. ApartInv'
  BY <1>a, <1>b DEF MadeType, QueueType, PlaceType, StoreType, WhereInv, AnswerInv, CacheInv,
     ApartInv, Unknown, Active, Asking, Made, Method, Request, ReadDisk
<1>6. CountInv'
  BY <1>a, <1>b DEF MadeType, QueueType, PlaceType, StoreType, ResultType, WhereInv, AnswerInv,
     CacheInv, ApartInv, CountInv, Unknown, Active, Asking, Saving, Holding, Made, Method,
     Request, ReadDisk
<1> QED
  BY <1>1, <1>2, <1>3, <1>4, <1>5, <1>6 DEF ResultsInv

LEMMA UseLoadedKeeps ==
    ASSUME ResultsInv, NEW p \in Procs, UseLoaded(p)
    PROVE  ResultsInv'
<1> USE ProcAssumption, BoundAssumption
    DEF queueVars, storeVars, resultVars, serverVars, localVars, Goto, Procs, Labels, PushLabels
<1>a. /\ MadeType /\ QueueType /\ StoreType /\ ResultType /\ ServerType /\ PlaceType /\ EndType
      /\ WhereInv /\ AnswerInv /\ CacheInv /\ ApartInv /\ CountInv
  BY Parts DEF ResultsInv
<1>b. Made \subseteq TaskIds
  BY <1>a, Counted
<1>1. TypeOK'
  <2>1. MadeType' /\ QueueType' /\ StoreType' /\ ResultType' /\ ServerType'
    BY <1>a DEF MadeType, QueueType, StoreType, ResultType, ServerType, UseLoaded
  <2>2. PlaceType'
    BY <1>a, <1>b DEF PlaceType, WhereInv, Active, UseLoaded, CallBack
  <2>3. EndType'
    BY <1>a, <1>b, CallsTyped DEF WhereInv, Active, UseLoaded
  <2> QED
    BY <2>1, <2>2, <2>3, PartsAfter
<1>2. WhereInv'
  BY <1>a, <1>b DEF MadeType, QueueType, PlaceType, WhereInv, Active, Made, Method, Request,
     UseLoaded, CallBack
<1>3. AnswerInv'
  BY <1>a, <1>b DEF MadeType, QueueType, PlaceType, StoreType, ResultType, WhereInv, AnswerInv,
     CacheInv, Saving, Active, Made, Method, Request, UseLoaded, CallBack
<1>4. CacheInv'
  BY <1>a, <1>b DEF MadeType, QueueType, PlaceType, StoreType, WhereInv, CacheInv, Active, Made,
     Method, Request, UseLoaded, CallBack
<1>5. ApartInv'
  BY <1>a, <1>b DEF MadeType, QueueType, PlaceType, StoreType, WhereInv, AnswerInv, CacheInv,
     ApartInv, Unknown, Active, Asking, Made, Method, Request, UseLoaded, CallBack
<1>6. CountInv'
  BY <1>a, <1>b DEF MadeType, QueueType, PlaceType, StoreType, ResultType, WhereInv, AnswerInv,
     CacheInv, ApartInv, CountInv, Unknown, Active, Asking, Saving, Holding, Made, Method,
     Request, UseLoaded, CallBack
<1> QED
  BY <1>1, <1>2, <1>3, <1>4, <1>5, <1>6 DEF ResultsInv

LEMMA PushOutKeeps ==
    ASSUME ResultsInv, NEW p \in Procs, PushOut(p)
    PROVE  ResultsInv'
<1> USE ProcAssumption, BoundAssumption
    DEF queueVars, storeVars, resultVars, serverVars, localVars, Goto, Procs, Labels, PushLabels
<1>a. /\ MadeType /\ QueueType /\ StoreType /\ ResultType /\ ServerType /\ PlaceType /\ EndType
      /\ WhereInv /\ AnswerInv /\ CacheInv /\ ApartInv /\ CountInv
  BY Parts DEF ResultsInv
<1>b. Made \subseteq TaskIds
  BY <1>a, Counted
<1>1. TypeOK'
  <2>1. MadeType' /\ StoreType' /\ ResultType' /\ ServerType' /\ EndType'
    BY <1>a DEF MadeType, StoreType, ResultType, ServerType, EndType, PushOut, Queue!Submit
  <2>2. QueueType'
    BY <1>a, <1>b DEF QueueType, WhereInv, Active, PushOut, PushReturns, Queue!Submit
  <2>3. PlaceType'
    BY <1>a, <1>b DEF PlaceType, WhereInv, Active, PushOut, PushReturns, Queue!Submit
  <2> QED
    BY <2>1, <2>2, <2>3, PartsAfter
<1>2. WhereInv'
  BY <1>a, <1>b DEF MadeType, QueueType, PlaceType, WhereInv, Active, Made, Method, Request,
     PushOut, PushReturns, Queue!Submit
<1>3. AnswerInv'
  BY <1>a, <1>b DEF MadeType, QueueType, PlaceType, StoreType, ResultType, WhereInv, AnswerInv,
     CacheInv, Saving, Active, Made, Method, Request, PushOut, PushReturns, Queue!Submit
<1>4. CacheInv'
  BY <1>a, <1>b DEF MadeType, QueueType, PlaceType, StoreType, WhereInv, CacheInv, Active, Made,
     Method, Request, PushOut, PushReturns, Queue!Submit
<1>5. ApartInv'
  BY <1>a, <1>b DEF MadeType, QueueType, PlaceType, StoreType, WhereInv, AnswerInv, CacheInv,
     ApartInv, Unknown, Active, Asking, Made, Method, Request, PushOut, PushReturns,
     Queue!Submit
<1>6. CountInv'
  BY <1>a, <1>b DEF MadeType, QueueType, PlaceType, StoreType, ResultType, WhereInv, AnswerInv,
     CacheInv, ApartInv, CountInv, Unknown, Active, Asking, Saving, Holding, Made, Method,
     Request, PushOut, PushReturns, Queue!Submit
<1> QED
  BY <1>1, <1>2, <1>3, <1>4, <1>5, <1>6 DEF ResultsInv

LEMMA TakeKeeps ==
    ASSUME ResultsInv, Take
    PROVE  ResultsInv'
<1> USE ProcAssumption, BoundAssumption
    DEF queueVars, storeVars, resultVars, serverVars, localVars, Goto, Procs, Labels, PushLabels
<1>a. /\ MadeType /\ QueueType /\ StoreType /\ ResultType /\ ServerType /\ PlaceType /\ EndType
      /\ WhereInv /\ AnswerInv /\ CacheInv /\ ApartInv /\ CountInv
  BY Parts DEF ResultsInv
<1>b. Made \subseteq TaskIds
  BY <1>a, Counted
<1>1. TypeOK'
  <2>1. MadeType' /\ StoreType' /\ ResultType' /\ ServerType' /\ EndType'
    BY <1>a DEF MadeType, StoreType, ResultType, ServerType, EndType, Take, Queue!Begin
  <2>2. QueueType'
    BY <1>a, <1>b DEF QueueType, WhereInv, Active, Take, Queue!Begin
  <2>3. PlaceType'
    BY <1>a, <1>b DEF PlaceType, WhereInv, Active, Take, Queue!Begin
  <2> QED
    BY <2>1, <2>2, <2>3, PartsAfter
<1>2. WhereInv'
  BY <1>a, <1>b DEF MadeType, QueueType, PlaceType, WhereInv, Active, Made, Method, Request,
     Take, Queue!Begin
<1>3. AnswerInv'
  BY <1>a, <1>b DEF MadeType, QueueType, PlaceType, StoreType, ResultType, WhereInv, AnswerInv,
     CacheInv, Saving, Active, Made, Method, Request, Take, Queue!Begin
<1>4. CacheInv'
  BY <1>a, <1>b DEF MadeType, QueueType, PlaceType, StoreType, WhereInv, CacheInv, Active, Made,
     Method, Request, Take, Queue!Begin
<1>5. ApartInv'
  BY <1>a, <1>b DEF MadeType, QueueType, PlaceType, StoreType, WhereInv, AnswerInv, CacheInv,
     ApartInv, Unknown, Active, Asking, Made, Method, Request, Take, Queue!Begin
<1>6. CountInv'
  BY <1>a, <1>b DEF MadeType, QueueType, PlaceType, StoreType, ResultType, WhereInv, AnswerInv,
     CacheInv, ApartInv, CountInv, Unknown, Active, Asking, Saving, Holding, Made, Method,
     Request, Take, Queue!Begin
<1> QED
  BY <1>1, <1>2, <1>3, <1>4, <1>5, <1>6 DEF ResultsInv

LEMMA FuncMissesKeeps ==
    ASSUME ResultsInv, FuncMisses
    PROVE  ResultsInv'
<1> USE ProcAssumption, BoundAssumption
    DEF queueVars, storeVars, resultVars, serverVars, localVars, Goto, Procs, Labels, PushLabels
<1>a. /\ MadeType /\ QueueType /\ StoreType /\ ResultType /\ ServerType /\ PlaceType /\ EndType
      /\ WhereInv /\ AnswerInv /\ CacheInv /\ ApartInv /\ CountInv
  BY Parts DEF ResultsInv
<1>b. Made \subseteq TaskIds
  BY <1>a, Counted
<1>1. TypeOK'
  <2>1. MadeType' /\ QueueType' /\ StoreType' /\ ResultType' /\ ServerType' /\ EndType'
    BY <1>a DEF MadeType, QueueType, StoreType, ResultType, ServerType, EndType, FuncMisses
  <2>2. PlaceType'
    BY <1>a, <1>b DEF PlaceType, WhereInv, Active, FuncMisses
  <2> QED
    BY <2>1, <2>2, PartsAfter
<1>2. WhereInv'
  BY <1>a, <1>b DEF MadeType, QueueType, PlaceType, WhereInv, Active, Made, Method, Request,
     FuncMisses
<1>3. AnswerInv'
  BY <1>a, <1>b DEF MadeType, QueueType, PlaceType, StoreType, ResultType, WhereInv, AnswerInv,
     CacheInv, Saving, Active, Made, Method, Request, FuncMisses
<1>4. CacheInv'
  BY <1>a, <1>b DEF MadeType, QueueType, PlaceType, StoreType, WhereInv, CacheInv, Active, Made,
     Method, Request, FuncMisses
<1>5. ApartInv'
  BY <1>a, <1>b DEF MadeType, QueueType, PlaceType, StoreType, WhereInv, AnswerInv, CacheInv,
     ApartInv, Unknown, Active, Asking, Made, Method, Request, FuncMisses
<1>6. CountInv'
  BY <1>a, <1>b DEF MadeType, QueueType, PlaceType, StoreType, ResultType, WhereInv, AnswerInv,
     CacheInv, ApartInv, CountInv, Unknown, Active, Asking, Saving, Holding, Made, Method,
     Request, FuncMisses
<1> QED
  BY <1>1, <1>2, <1>3, <1>4, <1>5, <1>6 DEF ResultsInv

LEMMA RefKeeps ==
    ASSUME ResultsInv, Ref
    PROVE  ResultsInv'
<1> USE ProcAssumption, BoundAssumption
    DEF queueVars, storeVars, resultVars, serverVars, localVars, Goto, Procs, Labels, PushLabels
<1>a. /\ MadeType /\ QueueType /\ StoreType /\ ResultType /\ ServerType /\ PlaceType /\ EndType
      /\ WhereInv /\ AnswerInv /\ CacheInv /\ ApartInv /\ CountInv
  BY Parts DEF ResultsInv
<1>b. Made \subseteq TaskIds
  BY <1>a, Counted
<1>1. TypeOK'
  <2>1. MadeType' /\ QueueType' /\ StoreType' /\ ServerType' /\ EndType'
    BY <1>a DEF MadeType, QueueType, StoreType, ServerType, EndType, Ref
  <2>2. ResultType'
    <3>1. CASE answer \in TaskIds
      <4>1. refs' = [refs EXCEPT ![answer] = refs[answer] + 1] /\ UNCHANGED value
        BY DEF Ref, HitReference
      <4>2. refs[answer] + 1 \in Nat
        BY <1>a, <3>1 DEF ResultType
      <4> QED
        BY <1>a, <4>1, <4>2 DEF ResultType
    <3>2. CASE answer \notin TaskIds
      <4>1. refs' = refs /\ UNCHANGED value
        BY <1>a, <3>2 DEF Ref, HitReference, ResultType
      <4> QED
        BY <1>a, <4>1 DEF ResultType
    <3> QED
      BY <3>1, <3>2
  <2>3. PlaceType'
    BY <1>a, <1>b DEF PlaceType, WhereInv, Active, Ref, HitReference
  <2> QED
    BY <2>1, <2>2, <2>3, PartsAfter
<1>2. WhereInv'
  BY <1>a, <1>b DEF MadeType, QueueType, PlaceType, WhereInv, Active, Made, Method, Request,
     Ref, HitReference
<1>3. AnswerInv'
  BY <1>a, <1>b DEF MadeType, QueueType, PlaceType, StoreType, ResultType, WhereInv, AnswerInv,
     CacheInv, Saving, Active, Made, Method, Request, Ref, HitReference
<1>4. CacheInv'
  BY <1>a, <1>b DEF MadeType, QueueType, PlaceType, StoreType, WhereInv, CacheInv, Active, Made,
     Method, Request, Ref, HitReference
<1>5. ApartInv'
  BY <1>a, <1>b DEF MadeType, QueueType, PlaceType, StoreType, WhereInv, AnswerInv, CacheInv,
     ApartInv, Unknown, Active, Asking, Made, Method, Request, Ref, HitReference
<1>6. CountInv'
  BY <1>a, <1>b DEF MadeType, QueueType, PlaceType, StoreType, ResultType, WhereInv, AnswerInv,
     CacheInv, ApartInv, CountInv, Unknown, Active, Asking, Saving, Holding, Made, Method,
     Request, Ref, HitReference
<1> QED
  BY <1>1, <1>2, <1>3, <1>4, <1>5, <1>6 DEF ResultsInv

LEMMA RefFreedKeeps ==
    ASSUME ResultsInv, RefFreed
    PROVE  ResultsInv'
<1> USE ProcAssumption, BoundAssumption
    DEF queueVars, storeVars, resultVars, serverVars, localVars, Goto, Procs, Labels, PushLabels
<1>a. /\ MadeType /\ QueueType /\ StoreType /\ ResultType /\ ServerType /\ PlaceType /\ EndType
      /\ WhereInv /\ AnswerInv /\ CacheInv /\ ApartInv /\ CountInv
  BY Parts DEF ResultsInv
<1>b. Made \subseteq TaskIds
  BY <1>a, Counted
<1>1. TypeOK'
  <2>1. MadeType' /\ QueueType' /\ StoreType' /\ ResultType' /\ ServerType' /\ PlaceType'
    BY <1>a DEF MadeType, QueueType, StoreType, ResultType, ServerType, PlaceType, RefFreed
  <2>2. EndType'
    BY <1>a, <1>b DEF EndType, WhereInv, Active, RefFreed, Crash
  <2> QED
    BY <2>1, <2>2, PartsAfter
<1>2. WhereInv'
  BY <1>a, <1>b DEF MadeType, QueueType, PlaceType, WhereInv, Active, Made, Method, Request,
     RefFreed, Crash
<1>3. AnswerInv'
  BY <1>a, <1>b DEF MadeType, QueueType, PlaceType, StoreType, ResultType, WhereInv, AnswerInv,
     CacheInv, Saving, Active, Made, Method, Request, RefFreed, Crash
<1>4. CacheInv'
  BY <1>a, <1>b DEF MadeType, QueueType, PlaceType, StoreType, WhereInv, CacheInv, Active, Made,
     Method, Request, RefFreed, Crash
<1>5. ApartInv'
  BY <1>a, <1>b DEF MadeType, QueueType, PlaceType, StoreType, WhereInv, AnswerInv, CacheInv,
     ApartInv, Unknown, Active, Asking, Made, Method, Request, RefFreed, Crash
<1>6. CountInv'
  BY <1>a, <1>b DEF MadeType, QueueType, PlaceType, StoreType, ResultType, WhereInv, AnswerInv,
     CacheInv, ApartInv, CountInv, Unknown, Active, Asking, Saving, Holding, Made, Method,
     Request, RefFreed, Crash
<1> QED
  BY <1>1, <1>2, <1>3, <1>4, <1>5, <1>6 DEF ResultsInv

LEMMA CallFailsKeeps ==
    ASSUME ResultsInv, CallFails
    PROVE  ResultsInv'
<1> USE ProcAssumption, BoundAssumption
    DEF queueVars, storeVars, resultVars, serverVars, localVars, Goto, Procs, Labels, PushLabels
<1>a. /\ MadeType /\ QueueType /\ StoreType /\ ResultType /\ ServerType /\ PlaceType /\ EndType
      /\ WhereInv /\ AnswerInv /\ CacheInv /\ ApartInv /\ CountInv
  BY Parts DEF ResultsInv
<1>b. Made \subseteq TaskIds
  BY <1>a, Counted
<1>1. TypeOK'
  <2>1. MadeType' /\ QueueType' /\ StoreType' /\ ResultType' /\ EndType'
    BY <1>a DEF MadeType, QueueType, StoreType, ResultType, EndType, CallFails
  <2>2. ServerType'
    BY <1>a, <1>b DEF ServerType, WhereInv, Active, CallFails, Applied
  <2>3. PlaceType'
    BY <1>a, <1>b DEF PlaceType, WhereInv, Active, CallFails, Applied
  <2> QED
    BY <2>1, <2>2, <2>3, PartsAfter
<1>2. WhereInv'
  BY <1>a, <1>b DEF MadeType, QueueType, PlaceType, WhereInv, Active, Made, Method, Request,
     CallFails, Applied
<1>3. AnswerInv'
  BY <1>a, <1>b DEF MadeType, QueueType, PlaceType, StoreType, ResultType, WhereInv, AnswerInv,
     CacheInv, Saving, Active, Made, Method, Request, CallFails, Applied
<1>4. CacheInv'
  BY <1>a, <1>b DEF MadeType, QueueType, PlaceType, StoreType, WhereInv, CacheInv, Active, Made,
     Method, Request, CallFails, Applied
<1>5. ApartInv'
  BY <1>a, <1>b DEF MadeType, QueueType, PlaceType, StoreType, WhereInv, AnswerInv, CacheInv,
     ApartInv, Unknown, Active, Asking, Made, Method, Request, CallFails, Applied
<1>6. CountInv'
  BY <1>a, <1>b DEF MadeType, QueueType, PlaceType, StoreType, ResultType, WhereInv, AnswerInv,
     CacheInv, ApartInv, CountInv, Unknown, Active, Asking, Saving, Holding, Made, Method,
     Request, CallFails, Applied
<1> QED
  BY <1>1, <1>2, <1>3, <1>4, <1>5, <1>6 DEF ResultsInv

LEMMA CallRefusedKeeps ==
    ASSUME ResultsInv, CallRefused
    PROVE  ResultsInv'
<1> USE ProcAssumption, BoundAssumption
    DEF queueVars, storeVars, resultVars, serverVars, localVars, Goto, Procs, Labels, PushLabels
<1>a. /\ MadeType /\ QueueType /\ StoreType /\ ResultType /\ ServerType /\ PlaceType /\ EndType
      /\ WhereInv /\ AnswerInv /\ CacheInv /\ ApartInv /\ CountInv
  BY Parts DEF ResultsInv
<1>b. Made \subseteq TaskIds
  BY <1>a, Counted
<1>1. TypeOK'
  <2>1. MadeType' /\ QueueType' /\ StoreType' /\ ServerType' /\ EndType'
    BY <1>a DEF MadeType, QueueType, StoreType, ServerType, EndType, CallRefused
  <2>2. ResultType'
    <3>1. \E v \in Values : value' = [value EXCEPT ![running] = v]
      <4>1. ASSUME NEW n \in Nat \cup {NULL} PROVE [version |-> n, from |-> "net"] \in Values
        BY DEF Values
      <4> QED
        BY <4>1 DEF CallRefused, NewResults
    <3>2. refs' = [refs EXCEPT ![running] = 1]
      BY DEF CallRefused, NewResults
    <3> QED
      BY <1>a, <3>1, <3>2 DEF ResultType
  <2>3. PlaceType'
    BY <1>a, <1>b DEF PlaceType, WhereInv, Active, CallRefused, NewResults
  <2> QED
    BY <2>1, <2>2, <2>3, PartsAfter
<1>2. WhereInv'
  BY <1>a, <1>b DEF MadeType, QueueType, PlaceType, WhereInv, Active, Made, Method, Request,
     CallRefused, NewResults
<1>3. AnswerInv'
  BY <1>a, <1>b DEF MadeType, QueueType, PlaceType, StoreType, ResultType, WhereInv, AnswerInv,
     CacheInv, Saving, Active, Made, Method, Request, CallRefused, NewResults
<1>4. CacheInv'
  BY <1>a, <1>b DEF MadeType, QueueType, PlaceType, StoreType, WhereInv, CacheInv, Active, Made,
     Method, Request, CallRefused, NewResults
<1>5. ApartInv'
  BY <1>a, <1>b DEF MadeType, QueueType, PlaceType, StoreType, WhereInv, AnswerInv, CacheInv,
     ApartInv, Unknown, Active, Asking, Made, Method, Request, CallRefused, NewResults
<1>6. CountInv'
  BY <1>a, <1>b DEF MadeType, QueueType, PlaceType, StoreType, ResultType, WhereInv, AnswerInv,
     CacheInv, ApartInv, CountInv, Unknown, Active, Asking, Saving, Holding, Made, Method,
     Request, CallRefused, NewResults
<1> QED
  BY <1>1, <1>2, <1>3, <1>4, <1>5, <1>6 DEF ResultsInv

LEMMA CallAnsweredKeeps ==
    ASSUME ResultsInv, CallAnswered
    PROVE  ResultsInv'
<1> USE ProcAssumption, BoundAssumption
    DEF queueVars, storeVars, resultVars, serverVars, localVars, Goto, Procs, Labels, PushLabels
<1>a. /\ MadeType /\ QueueType /\ StoreType /\ ResultType /\ ServerType /\ PlaceType /\ EndType
      /\ WhereInv /\ AnswerInv /\ CacheInv /\ ApartInv /\ CountInv
  BY Parts DEF ResultsInv
<1>b. Made \subseteq TaskIds
  BY <1>a, Counted
<1>1. TypeOK'
  <2>1. MadeType' /\ QueueType' /\ StoreType' /\ EndType'
    BY <1>a DEF MadeType, QueueType, StoreType, EndType, CallAnswered
  <2>2. ServerType'
    BY <1>a, <1>b DEF ServerType, WhereInv, Active, CallAnswered, NewResults, Applied
  <2>3. ResultType'
    <3>1. \E v \in Values : value' = [value EXCEPT ![running] = v]
      <4>1. ASSUME NEW n \in Nat \cup {NULL} PROVE [version |-> n, from |-> "net"] \in Values
        BY DEF Values
      <4> QED
        BY <4>1, <1>a, <1>b, TaskTyped DEF WhereInv, Functions, ServerType, CallAnswered,
           NewResults
    <3>2. refs' = [refs EXCEPT ![running] = 1]
      BY DEF CallAnswered, NewResults
    <3> QED
      BY <1>a, <3>1, <3>2 DEF ResultType
  <2>4. PlaceType'
    BY <1>a, <1>b DEF PlaceType, WhereInv, Active, CallAnswered, NewResults, Applied
  <2> QED
    BY <2>1, <2>2, <2>3, <2>4, PartsAfter
<1>2. WhereInv'
  BY <1>a, <1>b DEF MadeType, QueueType, PlaceType, WhereInv, Active, Made, Method, Request,
     CallAnswered, NewResults, Applied
<1>3. AnswerInv'
  <2>1. value'[running] \in Values
    <3>1. Method(running) = "GET" => server[Function(Request(running))] \in Nat
      BY <1>a, TaskTyped DEF WhereInv, Functions, ServerType, CallAnswered
    <3>2. running \in TaskIds
      BY <1>a, <1>b DEF WhereInv, CallAnswered
    <3>3. PICK n \in Nat \cup {NULL} :
              value' = [value EXCEPT ![running] = [version |-> n, from |-> "net"]]
      BY <3>1 DEF CallAnswered, NewResults
    <3> QED
      BY <1>a, <3>2, <3>3 DEF ResultType, Values
  <2> QED
    BY <1>a, <1>b, <2>1
    DEF PlaceType, WhereInv, AnswerInv, Saving, Active, Made, CallAnswered, NewResults
<1>4. CacheInv'
  BY <1>a, <1>b DEF MadeType, QueueType, PlaceType, StoreType, WhereInv, CacheInv, Active, Made,
     Method, Request, CallAnswered, NewResults, Applied
<1>5. ApartInv'
  BY <1>a, <1>b DEF MadeType, QueueType, PlaceType, StoreType, WhereInv, AnswerInv, CacheInv,
     ApartInv, Unknown, Active, Asking, Made, Method, Request, CallAnswered, NewResults, Applied
<1>6. CountInv'
  BY <1>a, <1>b DEF MadeType, QueueType, PlaceType, StoreType, ResultType, WhereInv, AnswerInv,
     CacheInv, ApartInv, CountInv, Unknown, Active, Asking, Saving, Holding, Made, Method,
     Request, CallAnswered, NewResults, Applied
<1> QED
  BY <1>1, <1>2, <1>3, <1>4, <1>5, <1>6 DEF ResultsInv

LEMMA RefreshKeeps ==
    ASSUME ResultsInv, Refresh
    PROVE  ResultsInv'
<1> USE ProcAssumption, BoundAssumption
    DEF queueVars, storeVars, resultVars, serverVars, localVars, Goto, Procs, Labels, PushLabels
<1>a. /\ MadeType /\ QueueType /\ StoreType /\ ResultType /\ ServerType /\ PlaceType /\ EndType
      /\ WhereInv /\ AnswerInv /\ CacheInv /\ ApartInv /\ CountInv
  BY Parts DEF ResultsInv
<1>b. Made \subseteq TaskIds
  BY <1>a, Counted
<1>c. /\ cache' = [r \in Requests |-> IF r \in Refreshed(Request(running)) THEN NULL ELSE cache[r]]
      /\ refs' = [t \in TaskIds |->
                    IF \E r \in Refreshed(Request(running)) : cache[r] = t
                    THEN refs[t] - 1 ELSE refs[t]]
      /\ Refreshed(Request(running)) \subseteq {r \in Requests : cache[r] # NULL}
      /\ pc[Worker] = "proxyadd" /\ Method(running) = "POST"
      /\ pc' = [pc EXCEPT ![Worker] = "callback"]
      /\ UNCHANGED <<made, answer, cont, running>>
  BY DEF Refresh, Refreshed
<1>d. /\ refs' \in [TaskIds -> Nat]
      /\ \A r \in Requests : cache'[r] # NULL =>
            cache'[r] = cache[r] /\ refs'[cache[r]] = refs[cache[r]]
      /\ answer # NULL => refs'[answer] = refs[answer] /\ \A r \in Requests : cache'[r] # answer
  <2>1. \A t \in TaskIds : (\E r \in Refreshed(Request(running)) : cache[r] = t) => refs[t] >= 1
    BY <1>a, <1>c DEF CountInv
  <2>2. refs' \in [TaskIds -> Nat]
    BY <1>a, <1>c, <2>1 DEF ResultType
  <2>3. ASSUME NEW r \in Requests, cache'[r] # NULL
        PROVE  cache'[r] = cache[r] /\ refs'[cache[r]] = refs[cache[r]]
    <3>1. cache'[r] = cache[r] /\ r \notin Refreshed(Request(running))
      BY <1>c, <2>3
    <3>2. cache[r] \in TaskIds /\ Request(cache[r]) = r
      BY <1>a, <1>b, <2>3, <3>1 DEF CacheInv
    <3>3. ~ \E q \in Refreshed(Request(running)) : cache[q] = cache[r]
      BY <1>a, <1>c, <3>1, <3>2 DEF CacheInv
    <3> QED
      BY <1>c, <3>1, <3>2, <3>3
  <2>4. \A r \in Requests : cache[r] # running
    BY <1>a, <1>c DEF ApartInv
  <2>5. answer = running /\ running \in TaskIds
    BY <1>a, <1>b, <1>c DEF AnswerInv, WhereInv
  <2>6. ~ \E q \in Refreshed(Request(running)) : cache[q] = answer
    BY <1>c, <2>4, <2>5
  <2> QED
    BY <1>c, <2>2, <2>3, <2>4, <2>5, <2>6
<1>1. TypeOK'
  <2>1. MadeType' /\ QueueType' /\ EndType'
    BY <1>a DEF MadeType, QueueType, EndType, Refresh
  <2>2. StoreType'
    BY <1>a, <1>b DEF StoreType, WhereInv, Active, Refresh, Refreshed, Unlinked
  <2>3. ResultType'
    BY <1>a, <1>d DEF ResultType, Refresh
  <2>4. ServerType'
    BY <1>a, <1>b DEF ServerType, WhereInv, Active, Refresh, Refreshed, Unlinked
  <2>5. PlaceType'
    BY <1>a, <1>b DEF PlaceType, WhereInv, Active, Refresh, Refreshed, Unlinked
  <2> QED
    BY <2>1, <2>2, <2>3, <2>4, <2>5, PartsAfter
<1>2. WhereInv'
  BY <1>a, <1>b DEF MadeType, QueueType, PlaceType, WhereInv, Active, Made, Method, Request,
     Refresh, Refreshed, Unlinked
<1>3. AnswerInv'
  BY <1>a, <1>b DEF MadeType, QueueType, PlaceType, StoreType, ResultType, WhereInv, AnswerInv,
     CacheInv, Saving, Active, Made, Method, Request, Refresh, Refreshed, Unlinked
<1>4. CacheInv'
  BY <1>a, <1>b DEF MadeType, QueueType, PlaceType, StoreType, WhereInv, CacheInv, Active, Made,
     Method, Request, Refresh, Refreshed, Unlinked
<1>5. ApartInv'
  BY <1>a, <1>b DEF MadeType, QueueType, PlaceType, StoreType, WhereInv, AnswerInv, CacheInv,
     ApartInv, Unknown, Active, Asking, Made, Method, Request, Refresh, Refreshed, Unlinked
<1>6. CountInv'
  BY <1>a, <1>b, <1>c, <1>d DEF CountInv, CacheInv, AnswerInv, StoreType, Made, Holding, Saving,
     Active
<1> QED
  BY <1>1, <1>2, <1>3, <1>4, <1>5, <1>6 DEF ResultsInv

LEMMA RefreshUnknownKeeps ==
    ASSUME ResultsInv, RefreshUnknown
    PROVE  ResultsInv'
<1> USE ProcAssumption, BoundAssumption
    DEF queueVars, storeVars, resultVars, serverVars, localVars, Goto, Procs, Labels, PushLabels
<1>a. /\ MadeType /\ QueueType /\ StoreType /\ ResultType /\ ServerType /\ PlaceType /\ EndType
      /\ WhereInv /\ AnswerInv /\ CacheInv /\ ApartInv /\ CountInv
  BY Parts DEF ResultsInv
<1>b. Made \subseteq TaskIds
  BY <1>a, Counted
<1>1. TypeOK'
  <2>1. MadeType' /\ QueueType' /\ StoreType' /\ ResultType' /\ ServerType'
    BY <1>a DEF MadeType, QueueType, StoreType, ResultType, ServerType, RefreshUnknown
  <2>2. PlaceType'
    BY <1>a, <1>b DEF PlaceType, WhereInv, Active, RefreshUnknown, Crash
  <2>3. EndType'
    BY <1>a, <1>b DEF EndType, WhereInv, Active, RefreshUnknown, Crash
  <2> QED
    BY <2>1, <2>2, <2>3, PartsAfter
<1>2. WhereInv'
  BY <1>a, <1>b DEF MadeType, QueueType, PlaceType, WhereInv, Active, Made, Method, Request,
     RefreshUnknown, Crash
<1>3. AnswerInv'
  BY <1>a, <1>b DEF MadeType, QueueType, PlaceType, StoreType, ResultType, WhereInv, AnswerInv,
     CacheInv, Saving, Active, Made, Method, Request, RefreshUnknown, Crash
<1>4. CacheInv'
  BY <1>a, <1>b DEF MadeType, QueueType, PlaceType, StoreType, WhereInv, CacheInv, Active, Made,
     Method, Request, RefreshUnknown, Crash
<1>5. ApartInv'
  BY <1>a, <1>b DEF MadeType, QueueType, PlaceType, StoreType, WhereInv, AnswerInv, CacheInv,
     ApartInv, Unknown, Active, Asking, Made, Method, Request, RefreshUnknown, Crash
<1>6. CountInv'
  BY <1>a, <1>b DEF MadeType, QueueType, PlaceType, StoreType, ResultType, WhereInv, AnswerInv,
     CacheInv, ApartInv, CountInv, Unknown, Active, Asking, Saving, Holding, Made, Method,
     Request, RefreshUnknown, Crash
<1> QED
  BY <1>1, <1>2, <1>3, <1>4, <1>5, <1>6 DEF ResultsInv

LEMMA SaveKeeps ==
    ASSUME ResultsInv, Save
    PROVE  ResultsInv'
<1> USE ProcAssumption, BoundAssumption
    DEF queueVars, storeVars, resultVars, serverVars, localVars, Goto, Procs, Labels, PushLabels
<1>a. /\ MadeType /\ QueueType /\ StoreType /\ ResultType /\ ServerType /\ PlaceType /\ EndType
      /\ WhereInv /\ AnswerInv /\ CacheInv /\ ApartInv /\ CountInv
  BY Parts DEF ResultsInv
<1>b. Made \subseteq TaskIds
  BY <1>a, Counted
<1>1. TypeOK'
  <2>1. MadeType' /\ QueueType' /\ ResultType' /\ ServerType' /\ EndType'
    BY <1>a DEF MadeType, QueueType, ResultType, ServerType, EndType, Save
  <2>2. StoreType'
    <3>1. value[running].version \in Nat \cup {NULL}
      BY <1>a, <1>b DEF WhereInv, AnswerInv, Saving, ResultType, Values, Save
    <3> QED
      BY <1>a, <1>b, <3>1, TaskTyped DEF StoreType, WhereInv, Save
  <2>3. PlaceType'
    BY <1>a, <1>b DEF PlaceType, WhereInv, Active, Save
  <2> QED
    BY <2>1, <2>2, <2>3, PartsAfter
<1>2. WhereInv'
  BY <1>a, <1>b DEF MadeType, QueueType, PlaceType, WhereInv, Active, Made, Method, Request, Save
<1>3. AnswerInv'
  BY <1>a, <1>b DEF MadeType, QueueType, PlaceType, StoreType, ResultType, WhereInv, AnswerInv,
     CacheInv, Saving, Active, Made, Method, Request, Save
<1>4. CacheInv'
  BY <1>a, <1>b DEF MadeType, QueueType, PlaceType, StoreType, WhereInv, CacheInv, Active, Made,
     Method, Request, Save
<1>5. ApartInv'
  BY <1>a, <1>b DEF MadeType, QueueType, PlaceType, StoreType, WhereInv, AnswerInv, CacheInv,
     ApartInv, Unknown, Active, Asking, Made, Method, Request, Save
<1>6. CountInv'
  BY <1>a, <1>b DEF MadeType, QueueType, PlaceType, StoreType, ResultType, WhereInv, AnswerInv,
     CacheInv, ApartInv, CountInv, Unknown, Active, Asking, Saving, Holding, Made, Method,
     Request, Save
<1> QED
  BY <1>1, <1>2, <1>3, <1>4, <1>5, <1>6 DEF ResultsInv

LEMMA TaskCallbackKeeps ==
    ASSUME ResultsInv, TaskCallback
    PROVE  ResultsInv'
<1> USE ProcAssumption, BoundAssumption
    DEF queueVars, storeVars, resultVars, serverVars, localVars, Goto, Procs, Labels, PushLabels
<1>a. /\ MadeType /\ QueueType /\ StoreType /\ ResultType /\ ServerType /\ PlaceType /\ EndType
      /\ WhereInv /\ AnswerInv /\ CacheInv /\ ApartInv /\ CountInv
  BY Parts DEF ResultsInv
<1>b. Made \subseteq TaskIds
  BY <1>a, Counted
<1>1. TypeOK'
  <2>1. MadeType' /\ StoreType' /\ ServerType'
    BY <1>a DEF MadeType, StoreType, ServerType, TaskCallback, Queue!End
  <2>2. QueueType'
    BY <1>a, <1>b DEF QueueType, WhereInv, Active, TaskCallback, Report, CallBack, Queue!End
  <2>3. ResultType'
    <3>1. answer # NULL => answer \in TaskIds /\ refs[answer] - 1 \in Nat
      BY <1>a, <1>b DEF AnswerInv, CountInv, Holding, ResultType, TaskCallback
    <3>2. \/ UNCHANGED refs
          \/ answer # NULL /\ refs' = [refs EXCEPT ![answer] = refs[answer] - 1]
      BY DEF TaskCallback
    <3> QED
      BY <1>a, <3>1, <3>2 DEF ResultType, TaskCallback
  <2>4. PlaceType'
    BY <1>a, <1>b DEF PlaceType, WhereInv, Active, TaskCallback, Report, CallBack, Queue!End
  <2>5. EndType'
    BY <1>a, <1>b, CallsTyped DEF WhereInv, Active, TaskCallback, Report
  <2> QED
    BY <2>1, <2>2, <2>3, <2>4, <2>5, PartsAfter
<1>2. WhereInv'
  BY <1>a, <1>b DEF MadeType, QueueType, PlaceType, WhereInv, Active, Made, Method, Request,
     TaskCallback, Report, CallBack, Queue!End
<1>3. AnswerInv'
  BY <1>a, <1>b DEF MadeType, QueueType, PlaceType, StoreType, ResultType, WhereInv, AnswerInv,
     CacheInv, Saving, Active, Made, Method, Request, TaskCallback, Report, CallBack, Queue!End
<1>4. CacheInv'
  BY <1>a, <1>b DEF MadeType, QueueType, PlaceType, StoreType, WhereInv, CacheInv, Active, Made,
     Method, Request, TaskCallback, Report, CallBack, Queue!End
<1>5. ApartInv'
  <2>1. /\ waiting' = waiting /\ running' = NULL /\ answer' = NULL /\ pushed' = pushed
        /\ cache' = cache /\ pc' = [pc EXCEPT ![Worker] = "idle"]
    BY DEF TaskCallback, Queue!End
  <2>2. NULL \notin waiting /\ \A p \in Procs : Active(p) => pushed[p] # NULL
    BY <1>a, <1>b DEF WhereInv
  <2>3. \A p \in Procs : Asking(p)' => Asking(p)
    BY <1>a, <2>1 DEF PlaceType, Asking
  <2>4. \A p \in Procs : Asking(p) => Active(p)
    BY DEF Asking, Active
  <2>5. pc'[Worker] = "idle" /\ ~Asking(Worker)'
    BY <1>a, <2>1 DEF PlaceType, Asking
  <2> QED
    BY <1>a, <2>1, <2>2, <2>3, <2>4, <2>5 DEF ApartInv, Unknown
<1>6. CountInv'
  BY <1>a, <1>b DEF MadeType, QueueType, PlaceType, StoreType, ResultType, WhereInv, AnswerInv,
     CacheInv, ApartInv, CountInv, Unknown, Active, Asking, Saving, Holding, Made, Method,
     Request, TaskCallback, Report, CallBack, Queue!End
<1> QED
  BY <1>1, <1>2, <1>3, <1>4, <1>5, <1>6 DEF ResultsInv

LEMMA PushKeeps ==
    ASSUME ResultsInv, NEW task \in Tasks, Push(task)
    PROVE  ResultsInv'
<1> USE ProcAssumption, BoundAssumption DEF Procs, Labels, PushLabels
<1>a. /\ MadeType /\ QueueType /\ StoreType /\ ResultType /\ ServerType /\ PlaceType /\ EndType
      /\ WhereInv /\ AnswerInv /\ CacheInv /\ ApartInv /\ CountInv
  BY Parts DEF ResultsInv
<1>b. Made \subseteq TaskIds
  BY <1>a, Counted
<1>c. /\ Grows(Main) /\ made'[Len(made) + 1] = task /\ pc[Main] = "idle"
      /\ pc' = [pc EXCEPT ![Main] = IF task.method = "GET" THEN "find" ELSE "out"]
  BY <1>a, PushGrows
<1>d. UNCHANGED <<queueVars, storeVars, resultVars, serverVars, held, answer, cont, calls, crashed>>
  BY DEF Push
<1> USE DEF Grows, queueVars, storeVars, resultVars, serverVars
<1>1. TypeOK'
  <2>1. MadeType' /\ QueueType' /\ ServerType' /\ EndType'
    BY <1>a, <1>c, <1>d DEF QueueType, ServerType, EndType
  <2>2. StoreType' /\ ResultType'
    BY <1>a, <1>d DEF StoreType, ResultType
  <2>3. PlaceType'
    BY <1>a, <1>b, <1>c, <1>d DEF PlaceType, WhereInv, Active, CacheInv
  <2> QED
    BY <2>1, <2>2, <2>3, PartsAfter
<1>2. WhereInv'
  BY <1>a, <1>b, <1>c, <1>d DEF QueueType, PlaceType, WhereInv, Active, Method
<1>3. AnswerInv'
  BY <1>a, <1>b, <1>c, <1>d
  DEF QueueType, PlaceType, StoreType, ResultType, WhereInv, AnswerInv, CacheInv, Saving, Active
<1>4. CacheInv'
  BY <1>a, <1>b, <1>c, <1>d DEF PlaceType, StoreType, WhereInv, CacheInv, Active, Method, Request
<1>5. ApartInv'
  BY <1>a, <1>b, <1>c, <1>d
  DEF QueueType, PlaceType, StoreType, WhereInv, AnswerInv, CacheInv, ApartInv, Unknown, Active,
     Asking
<1>6. CountInv'
  BY <1>a, <1>b, <1>c, <1>d
  DEF QueueType, PlaceType, StoreType, ResultType, WhereInv, AnswerInv, CacheInv, ApartInv,
     CountInv,
      Unknown, Active, Asking, Saving, Holding
<1> QED
  BY <1>1, <1>2, <1>3, <1>4, <1>5, <1>6 DEF ResultsInv

LEMMA AddLoadedDoes ==
    ASSUME ResultsInv, NEW p \in Procs, AddLoaded(p)
    PROVE  /\ Asks(pushed[p]) /\ NotListed(pushed[p])
           /\ pc[p] = "add" /\ GoesOn(p, IF p = Main THEN "idle" ELSE cont)
           /\ cont' = cont
           /\ UNCHANGED <<queueVars, disk, saved, value, serverVars, held, answer, calls, crashed>>
           /\ Added(pushed[p])
<1> USE ProcAssumption, BoundAssumption DEF Procs, Labels, PushLabels
<1>a. /\ MadeType /\ QueueType /\ StoreType /\ ResultType /\ ServerType /\ PlaceType /\ EndType
      /\ WhereInv /\ AnswerInv /\ CacheInv /\ ApartInv /\ CountInv
  BY Parts DEF ResultsInv
<1>b. Made \subseteq TaskIds
  BY <1>a, Counted
<1>r. Asks(pushed[p]) /\ NotListed(pushed[p])
  BY <1>a, <1>b, TaskTyped
  DEF WhereInv, ApartInv, Unknown, Asking, Active, AddLoaded, Asks, NotListed
<1>c. pc[p] = "add" /\ GoesOn(p, IF p = Main THEN "idle" ELSE cont)
  BY <1>a, <1>r, PredictGrows DEF AddLoaded, PredictOrNot, Goto, GoesOn, Asks
<1>d. cont' = cont
  BY DEF AddLoaded
<1>u. UNCHANGED <<queueVars, disk, saved, value, serverVars, held, answer, calls, crashed>>
  BY DEF AddLoaded
<1>e. Added(pushed[p])
  BY <1>a, <1>r, ProxyAdded DEF AddLoaded, Asks
<1> QED
  BY <1>r, <1>c, <1>d, <1>u, <1>e

LEMMA AddLoadedKeeps ==
    ASSUME ResultsInv, NEW p \in Procs, AddLoaded(p)
    PROVE  ResultsInv'
<1> USE ProcAssumption, BoundAssumption DEF Procs, Labels, PushLabels
<1>a. /\ MadeType /\ QueueType /\ StoreType /\ ResultType /\ ServerType /\ PlaceType /\ EndType
      /\ WhereInv /\ AnswerInv /\ CacheInv /\ ApartInv /\ CountInv
  BY Parts DEF ResultsInv
<1>b. Made \subseteq TaskIds
  BY <1>a, Counted
<1>r. Asks(pushed[p]) /\ NotListed(pushed[p])
  BY AddLoadedDoes
<1>c. pc[p] = "add" /\ GoesOn(p, IF p = Main THEN "idle" ELSE cont)
  BY AddLoadedDoes
<1>d. /\ cont' = cont
      /\ UNCHANGED <<queueVars, disk, saved, value, serverVars, held, answer, calls, crashed>>
  BY AddLoadedDoes
<1>e. Added(pushed[p])
  BY AddLoadedDoes
<1>f. Made \subseteq Made' /\ \A u \in Made : made'[u] = made[u]
  BY <1>c DEF GoesOn, Grows, Made
<1> USE DEF queueVars, serverVars, GoesOn, Asks, NotListed, Added
<1>1. TypeOK'
  <2>1. MadeType' /\ QueueType' /\ ServerType' /\ EndType'
    BY <1>a, <1>c, <1>d DEF Grows, MadeType, QueueType, ServerType, EndType
  <2>2. StoreType' /\ ResultType'
    BY <1>a, <1>e, <1>d DEF StoreType, ResultType
  <2>3. PlaceType'
    BY <1>a, <1>b, <1>r, <1>c, <1>d, <1>e DEF Grows, PlaceType, WhereInv, Active, CacheInv
  <2> QED
    BY <2>1, <2>2, <2>3, PartsAfter
<1>2. WhereInv'
  <2>1. CASE p = Main
    BY SMTT(30), <1>a, <1>b, <1>r, <1>c, <1>d, <1>e, <1>f, <2>1
      DEF Grows, QueueType, PlaceType, WhereInv,
       Active, Method, Made
  <2>2. CASE p = Worker
    BY SMTT(30), <1>a, <1>b, <1>r, <1>c, <1>d, <1>e, <1>f, <2>2
      DEF Grows, QueueType, PlaceType, WhereInv,
       Active, Method, Made
  <2> QED
    BY <2>1, <2>2
<1>3. AnswerInv'
  <2>1. CASE p = Main
    BY SMTT(30), <1>a, <1>b, <1>r, <1>c, <1>d, <1>e, <1>f, <2>1
      DEF Grows, QueueType, PlaceType,
       StoreType, ResultType, WhereInv, AnswerInv, CacheInv, Saving, Active, Made
  <2>2. CASE p = Worker
    BY <1>a, <1>b, <1>r, <1>c, <1>d, <1>e, <1>f, <2>2 DEF Grows, QueueType, PlaceType,
       StoreType, ResultType, WhereInv, AnswerInv, CacheInv, Saving, Active, Made
  <2> QED
    BY <2>1, <2>2
<1>4. CacheInv'
  BY <1>a, <1>r, <1>e, <1>f DEF CacheInv, Method, Request
<1>5. ApartInv'
  <2> DEFINE After(t) == answer' # t /\ \A r \in Requests : cache'[r] # t
  <2>1. \A u \in TaskIds \ {pushed[p]} : Unknown(u) => After(u)
    BY <1>d, <1>e, <1>r DEF Unknown
  <2>2. Len(made) + 1 \in TaskIds /\ Len(made) + 1 \notin Made => After(Len(made) + 1)
    BY <1>a, <1>d, <1>e, <1>r DEF Unknown, CacheInv, AnswerInv
  <2>3. \A u \in waiting : u \in TaskIds /\ u # pushed[p] /\ Unknown(u)
    BY <1>a, <1>c DEF ApartInv, Asking, QueueType
  <2>4. running # pushed[p]
    BY <1>a, <1>c DEF ApartInv, Asking
  <2>5. \A q \in Procs \ {p} : Asking(q) =>
            /\ pushed[q] \in TaskIds /\ pushed[q] \in Made /\ pushed[q] # pushed[p]
            /\ Unknown(pushed[q]) /\ pushed[q] \notin waiting \cup {running}
    BY <1>a, <1>b, <1>c DEF ApartInv, Asking, Active, WhereInv
  <2>6. \A q \in Procs \ {p} : pc'[q] = pc[q] /\ pushed'[q] = pushed[q]
    BY <1>a, <1>c DEF PlaceType, Grows
  <2>7. \A t \in waiting' : After(t)
    BY <1>d, <2>1, <2>3
  <2>8. pc'[Worker] \in {"func", "call", "proxyadd"} => \A r \in Requests : cache'[r] # running'
    <3>1. pc'[Worker] \in {"func", "call", "proxyadd"} => p # Worker /\ pc[Worker] = pc'[Worker]
      BY <1>a, <1>c DEF PlaceType, WhereInv, Active
    <3> QED
      BY <1>a, <1>d, <1>e, <1>r, <2>4, <3>1 DEF ApartInv
  <2>9. \A q \in Procs \ {p} : Asking(q)' => Asking(q) /\ After(pushed'[q])
                                             /\ pushed'[q] \notin waiting' \cup {running'}
    BY <1>d, <2>1, <2>5, <2>6 DEF Asking
  <2>10. Asking(p)' => /\ pushed'[p] = Len(made) + 1 /\ After(pushed'[p])
                       /\ pushed'[p] \notin waiting' \cup {running'} /\ pushed'[p] \notin Made
    <3>1. CASE /\ UNCHANGED <<made, pushed>>
               /\ pc' = [pc EXCEPT ![p] = IF p = Main THEN "idle" ELSE cont]
      BY <1>a, <1>c, <3>1 DEF PlaceType, WhereInv, Active, Asking
    <3>2. CASE Grows(p) /\ pc' = [pc EXCEPT ![p] = "find"]
      BY <1>a, <1>d, <2>2, <3>2 DEF PlaceType, Grows, WhereInv, Made
    <3> QED
      BY <1>c, <3>1, <3>2
  <2>11. running' \notin waiting'
    BY <1>a, <1>d DEF ApartInv
  <2>12. \A q \in Procs \ {p} : Asking(q)' /\ Asking(p)' => pushed'[q] # pushed'[p]
    BY <2>5, <2>6, <2>9, <2>10
  <2> QED
    BY <2>7, <2>8, <2>9, <2>10, <2>11, <2>12 DEF ApartInv, Unknown
<1>6. CountInv'
  <2>1. ASSUME NEW r \in Requests, cache'[r] # NULL PROVE refs'[cache'[r]] >= 1
    <3>1. CASE r = Request(pushed[p])
      <4>1. refs[pushed[p]] \in Nat
        BY <1>a, <1>r DEF ResultType
      <4> QED
        BY <1>e, <3>1, <4>1
    <3>2. CASE r # Request(pushed[p])
      <4>1. cache'[r] = cache[r] /\ cache[r] \in TaskIds /\ Request(cache[r]) = r
        BY <1>a, <1>b, <1>e, <2>1, <3>2 DEF CacheInv
      <4>2. cache[r] # pushed[p] /\ cache[r] # cache[Request(pushed[p])]
        BY <1>a, <1>r, <3>2, <4>1 DEF CacheInv
      <4> QED
        BY <1>a, <1>e, <2>1, <4>1, <4>2 DEF CountInv
    <3> QED
      BY <3>1, <3>2
  <2>2. ASSUME Holding', answer' # NULL
        PROVE  refs'[answer'] >= 1 /\ \A r \in Requests : cache'[r] = answer' => refs'[answer'] >= 2
    <3>1. Holding /\ answer \in TaskIds /\ answer # pushed[p]
      BY <1>a, <1>b, <1>c, <1>d, <2>2
      DEF AnswerInv, ApartInv, Unknown, Asking, Holding, Saving, Active, PlaceType, WhereInv
    <3>2. refs[answer] \in Nat /\ refs[answer] >= 1
      BY <1>a, <2>2, <3>1, <1>d DEF CountInv, ResultType
    <3>3. CASE answer = cache[Request(pushed[p])]
      <4>1. refs[answer] >= 2 /\ refs'[answer] = refs[answer] - 1
        BY <1>a, <1>d, <1>e, <1>r, <2>2, <3>1, <3>3 DEF CountInv
      <4>2. \A r \in Requests : cache'[r] # answer
        BY <1>a, <1>e, <1>r, <3>1, <3>3 DEF CacheInv
      <4> QED
        BY <1>d, <3>2, <4>1, <4>2
    <3>4. CASE answer # cache[Request(pushed[p])]
      <4>1. refs'[answer] = refs[answer]
        BY <1>e, <3>1, <3>4
      <4>2. \A r \in Requests : cache'[r] = answer => cache[r] = answer
        BY <1>e, <1>r, <3>1
      <4> QED
        BY <1>a, <1>d, <2>2, <3>1, <3>2, <4>1, <4>2 DEF CountInv
    <3> QED
      BY <3>3, <3>4
  <2> QED
    BY <2>1, <2>2 DEF CountInv
<1> QED
  BY <1>1, <1>2, <1>3, <1>4, <1>5, <1>6 DEF ResultsInv

LEMMA FuncFindsDoes ==
    ASSUME ResultsInv, FuncFinds
    PROVE  /\ Asks(running) /\ cache[Request(running)] \in Made
           /\ pc[Worker] = "func" /\ GoesOn(Worker, "ref")
           /\ answer' = cache[Request(running)] /\ answer' # NULL /\ cont' = "ref"
           /\ UNCHANGED <<queueVars, storeVars, resultVars, serverVars, held, calls, crashed>>
<1> USE ProcAssumption, BoundAssumption DEF Procs, Labels, PushLabels
<1>a. /\ MadeType /\ QueueType /\ StoreType /\ ResultType /\ ServerType /\ PlaceType /\ EndType
      /\ WhereInv /\ AnswerInv /\ CacheInv /\ ApartInv /\ CountInv
  BY Parts DEF ResultsInv
<1>b. Made \subseteq TaskIds
  BY <1>a, Counted
<1>r. Asks(running) /\ cache[Request(running)] \in Made
  BY <1>a, <1>b, TaskTyped DEF WhereInv, CacheInv, FuncFinds, Asks
<1>c. pc[Worker] = "func" /\ GoesOn(Worker, "ref")
  BY <1>a, <1>r, PredictGrows DEF FuncFinds, PredictsNothing, Goto, GoesOn, Asks
<1>d. answer' = cache[Request(running)] /\ answer' # NULL /\ cont' = "ref"
  BY DEF FuncFinds
<1>u. UNCHANGED <<queueVars, storeVars, resultVars, serverVars, held, calls, crashed>>
  BY DEF FuncFinds
<1> QED
  BY <1>r, <1>c, <1>d, <1>u

LEMMA FuncFindsKeeps ==
    ASSUME ResultsInv, FuncFinds
    PROVE  ResultsInv'
<1> USE ProcAssumption, BoundAssumption DEF Procs, Labels, PushLabels
<1>a. /\ MadeType /\ QueueType /\ StoreType /\ ResultType /\ ServerType /\ PlaceType /\ EndType
      /\ WhereInv /\ AnswerInv /\ CacheInv /\ ApartInv /\ CountInv
  BY Parts DEF ResultsInv
<1>b. Made \subseteq TaskIds
  BY <1>a, Counted
<1>r. Asks(running) /\ cache[Request(running)] \in Made
  BY FuncFindsDoes
<1>c. pc[Worker] = "func" /\ GoesOn(Worker, "ref")
  BY FuncFindsDoes
<1>d. /\ answer' = cache[Request(running)] /\ answer' # NULL /\ cont' = "ref"
      /\ UNCHANGED <<queueVars, storeVars, resultVars, serverVars, held, calls, crashed>>
  BY FuncFindsDoes
<1> USE DEF Grows, queueVars, storeVars, resultVars, serverVars, GoesOn, Asks
<1>1. TypeOK'
  <2>1. MadeType' /\ QueueType' /\ ServerType' /\ EndType'
    BY <1>a, <1>c, <1>d DEF MadeType, QueueType, ServerType, EndType
  <2>2. StoreType' /\ ResultType'
    BY <1>a, <1>d DEF StoreType, ResultType
  <2>3. PlaceType'
    BY <1>a, <1>b, <1>r, <1>c, <1>d DEF PlaceType, WhereInv, Active, CacheInv
  <2> QED
    BY <2>1, <2>2, <2>3, PartsAfter
<1>2. WhereInv'
  BY <1>a, <1>b, <1>r, <1>c, <1>d DEF QueueType, PlaceType, WhereInv, Active, Method, Made
<1>3. AnswerInv'
  BY <1>a, <1>b, <1>r, <1>c, <1>d
  DEF QueueType, PlaceType, StoreType, ResultType, WhereInv, AnswerInv, CacheInv, Saving,
     Active, Made
<1>4. CacheInv'
  BY <1>a, <1>b, <1>r, <1>c, <1>d DEF PlaceType, StoreType, WhereInv, CacheInv, Active, Method,
     Request, Made
<1>5. ApartInv'
  BY <1>a, <1>b, <1>r, <1>c, <1>d
  DEF QueueType, PlaceType, StoreType, WhereInv, AnswerInv, CacheInv, ApartInv, Unknown, Active,
     Asking
<1>6. CountInv'
  BY <1>a, <1>b, <1>r, <1>c, <1>d
  DEF QueueType, PlaceType, StoreType, ResultType, WhereInv, AnswerInv, CacheInv, ApartInv,
     CountInv,
      Unknown, Active, Asking, Saving, Holding
<1> QED
  BY <1>1, <1>2, <1>3, <1>4, <1>5, <1>6 DEF ResultsInv

LEMMA AddAnswerDoes ==
    ASSUME ResultsInv, AddAnswer
    PROVE  /\ Asks(running) /\ NotListed(running)
           /\ pc[Worker] = "proxyadd" /\ GoesOn(Worker, "save")
           /\ cont' = "save"
           /\ UNCHANGED <<queueVars, disk, saved, value, serverVars, held, answer, calls, crashed>>
           /\ Added(running)
<1> USE ProcAssumption, BoundAssumption DEF Procs, Labels, PushLabels
<1>a. /\ MadeType /\ QueueType /\ StoreType /\ ResultType /\ ServerType /\ PlaceType /\ EndType
      /\ WhereInv /\ AnswerInv /\ CacheInv /\ ApartInv /\ CountInv
  BY Parts DEF ResultsInv
<1>b. Made \subseteq TaskIds
  BY <1>a, Counted
<1>r. Asks(running) /\ NotListed(running)
  BY <1>a, <1>b, TaskTyped
  DEF WhereInv, ApartInv, Unknown, Asking, Active, AddAnswer, Asks, NotListed
<1>c. pc[Worker] = "proxyadd" /\ GoesOn(Worker, "save")
  BY <1>a, <1>r, PredictGrows DEF AddAnswer, PredictOrNot, Goto, GoesOn, Asks
<1>d. cont' = "save"
  BY DEF AddAnswer
<1>u. UNCHANGED <<queueVars, disk, saved, value, serverVars, held, answer, calls, crashed>>
  BY DEF AddAnswer
<1>e. Added(running)
  BY <1>a, <1>r, ProxyAdded DEF AddAnswer, Asks
<1> QED
  BY <1>r, <1>c, <1>d, <1>u, <1>e

LEMMA AddAnswerKeeps ==
    ASSUME ResultsInv, AddAnswer
    PROVE  ResultsInv'
<1> USE ProcAssumption, BoundAssumption DEF Procs, Labels, PushLabels
<1>a. /\ MadeType /\ QueueType /\ StoreType /\ ResultType /\ ServerType /\ PlaceType /\ EndType
      /\ WhereInv /\ AnswerInv /\ CacheInv /\ ApartInv /\ CountInv
  BY Parts DEF ResultsInv
<1>b. Made \subseteq TaskIds
  BY <1>a, Counted
<1>r. Asks(running) /\ NotListed(running)
  BY AddAnswerDoes
<1>c. pc[Worker] = "proxyadd" /\ GoesOn(Worker, "save")
  BY AddAnswerDoes
<1>d. /\ cont' = "save"
      /\ UNCHANGED <<queueVars, disk, saved, value, serverVars, held, answer, calls, crashed>>
  BY AddAnswerDoes
<1>e. Added(running)
  BY AddAnswerDoes
<1>f. Made \subseteq Made' /\ \A u \in Made : made'[u] = made[u]
  BY <1>c DEF GoesOn, Grows, Made
<1> USE DEF queueVars, serverVars, GoesOn, Asks, NotListed, Added
<1>1. TypeOK'
  <2>1. MadeType' /\ QueueType' /\ ServerType' /\ EndType'
    BY <1>a, <1>c, <1>d DEF Grows, MadeType, QueueType, ServerType, EndType
  <2>2. StoreType' /\ ResultType'
    BY <1>a, <1>e, <1>d DEF StoreType, ResultType
  <2>3. PlaceType'
    BY <1>a, <1>b, <1>r, <1>c, <1>d, <1>e DEF Grows, PlaceType, WhereInv, Active, CacheInv
  <2> QED
    BY <2>1, <2>2, <2>3, PartsAfter
<1>2. WhereInv'
  BY <1>a, <1>b, <1>r, <1>c, <1>d, <1>e, <1>f DEF Grows, QueueType, PlaceType, WhereInv, Active,
     Method, Made
<1>3. AnswerInv'
  BY <1>a, <1>b, <1>r, <1>c, <1>d, <1>e, <1>f DEF Grows, QueueType, PlaceType, StoreType,
     ResultType, WhereInv, AnswerInv, CacheInv, Saving, Active, Made
<1>4. CacheInv'
  BY <1>a, <1>r, <1>e, <1>f DEF CacheInv, Method, Request
<1>5. ApartInv'
  <2>1. CASE UNCHANGED <<made, pushed>>
    BY <1>a, <1>b, <1>r, <1>c, <1>d, <1>e, <1>f, <2>1 DEF Grows, QueueType, PlaceType, WhereInv,
       AnswerInv, CacheInv, ApartInv, Unknown, Active, Asking, Made
  <2>2. CASE Grows(Worker) /\ pc' = [pc EXCEPT ![Worker] = "find"]
    <3> DEFINE n == Len(made) + 1
               NotKnown(t) == answer' # t /\ \A r \in Requests : cache'[r] # t
    <3>1. /\ n \notin Made /\ pushed'[Worker] = n /\ pushed'[Main] = pushed[Main]
          /\ pc'[Worker] = "find" /\ pc'[Main] = pc[Main]
      BY <1>a, <2>2 DEF Grows, PlaceType
    <3>2. /\ answer' = running /\ running' = running /\ waiting' = waiting
          /\ \A r \in Requests : cache'[r] \in {cache[r], running}
      BY <1>a, <1>c, <1>d, <1>e DEF AnswerInv
    <3>3. ASSUME NEW t, Unknown(t), t # running
          PROVE  NotKnown(t)
      BY <3>2, <3>3 DEF Unknown
    <3>4. \A t \in waiting : NotKnown(t) /\ t # n
      BY <1>a, <3>1, <3>3 DEF ApartInv, WhereInv
    <3>5. Asking(Main) => /\ NotKnown(pushed[Main])
                          /\ pushed[Main] \notin waiting \cup {running} /\ pushed[Main] # n
      BY <1>a, <3>1, <3>3 DEF ApartInv, WhereInv, Active, Asking
    <3>6. NotKnown(n) /\ n \notin waiting \cup {running}
      <4>1. Unknown(n) /\ n # running
        BY <1>a, <1>r, <3>1 DEF Unknown, AnswerInv, CacheInv
      <4> QED
        BY <3>3, <3>4, <4>1
    <3>7. Asking(Main)' = Asking(Main)
      BY <3>1 DEF Asking
    <3> QED
      BY <1>a, <3>1, <3>2, <3>4, <3>5, <3>6, <3>7 DEF ApartInv, Unknown, Asking
  <2> QED
    BY <1>c, <2>1, <2>2
<1>6. CountInv'
  <2>1. ASSUME NEW r \in Requests, cache'[r] # NULL PROVE refs'[cache'[r]] >= 1
    <3>1. CASE r = Request(running)
      <4>1. refs[running] \in Nat
        BY <1>a, <1>r DEF ResultType
      <4> QED
        BY <1>e, <3>1, <4>1
    <3>2. CASE r # Request(running)
      <4>1. cache'[r] = cache[r] /\ cache[r] \in TaskIds /\ Request(cache[r]) = r
        BY <1>a, <1>b, <1>e, <2>1, <3>2 DEF CacheInv
      <4>2. cache[r] # running /\ cache[r] # cache[Request(running)]
        BY <1>a, <1>r, <3>2, <4>1 DEF CacheInv
      <4> QED
        BY <1>a, <1>e, <2>1, <4>1, <4>2 DEF CountInv
    <3> QED
      BY <3>1, <3>2
  <2>2. ASSUME Holding', answer' # NULL
        PROVE  refs'[answer'] >= 1 /\ \A r \in Requests : cache'[r] = answer' => refs'[answer'] >= 2
    <3>1. answer' = running /\ Holding
      BY <1>a, <1>c, <1>d DEF AnswerInv, Holding
    <3>2. refs[running] >= 1 /\ refs[running] \in Nat
      BY <1>a, <1>c, <1>r, <3>1, <1>d DEF CountInv, AnswerInv, ResultType
    <3> QED
      BY <1>e, <3>1, <3>2
  <2> QED
    BY <2>1, <2>2 DEF CountInv
<1> QED
  BY <1>1, <1>2, <1>3, <1>4, <1>5, <1>6 DEF ResultsInv

-----------------------------------------------------------------------------
(***************************************************************************)
(* What the table and the files tell after a POST.                          *)
(***************************************************************************)

FloorInv == \A f \in Functions : floor[f] <= server[f]

\* An answer on its way to the table or to its file is as fresh as the server's,
\* which no other thread changes.
AnsweredInv ==
    (pc[Worker] = "proxyadd" \/ Saving) /\ Method(running) = "GET" =>
        /\ value[running].from = "net" /\ value[running].version \in Nat
        /\ value[running].version >= floor[Function(Request(running))]

LoadInv ==
    \A p \in Procs : /\ pc[p] = "disk" => DevelMode
                     /\ Loading(p) => DevelMode /\ value[pushed[p]].from = "file"

SavedInv == (Saving => cache[Request(running)] # NULL) /\ SavedIsFresh

\* Without files, whatever is in the table was fetched.
PlainInv ==
    ~DevelMode =>
        /\ saved = {}
        /\ \A r \in Requests : cache[r] # NULL => value[cache[r]].from = "net"

FreshInv ==
    FloorInv /\ FetchedIsFresh /\ AnsweredInv /\ LoadInv /\ SavedInv /\ PlainInv

\* A refresh leaves no entry of a function whose answer the POST has changed.
LEMMA RefreshedAffected ==
    ASSUME NEW r \in Requests, NEW post \in Posts, post.type # "OTHER", cache[r] # NULL,
           Function(r) \in Affected(post)
    PROVE  r \in Refreshed(post)
<1>1. post.type \in {"FAN_ADD", "FAN_REMOVE", "COMMENTS_ADD"}
  BY PostAssumption DEF PostTypes
<1>2. Function(r).type = r.type /\ Function(r).content = r.content
  BY DEF Function
<1>3. CASE post.type \in {"FAN_ADD", "FAN_REMOVE"}
  <2>1. /\ r.content = post.content
        /\ r.type \in {"CONTENT_GET", "FAN_GET", "FAN_IS_FAN"}
    BY <1>2, <1>3 DEF Affected
  <2> QED
    BY <1>3, <2>1 DEF Refreshed, refresh_array
<1>4. CASE post.type = "COMMENTS_ADD"
  <2>1. r.content = post.content /\ r.type \in {"CONTENT_GET", "COMMENTS_GET"}
    BY <1>2, <1>4 DEF Affected
  <2> QED
    BY <1>4, <2>1 DEF Refreshed, refresh_array
<1> QED
  BY <1>1, <1>3, <1>4

LEMMA FindFresh ==
    ASSUME ResultsInv, FreshInv, NEW p \in Procs, Find(p)
    PROVE  FreshInv'
<1> USE ProcAssumption, BoundAssumption
    DEF queueVars, storeVars, resultVars, serverVars, localVars, Goto, Procs, Labels, PushLabels
<1>a. /\ MadeType /\ QueueType /\ StoreType /\ ResultType /\ ServerType /\ PlaceType /\ EndType
      /\ WhereInv /\ AnswerInv /\ CacheInv /\ ApartInv /\ CountInv
      /\ FloorInv /\ FetchedIsFresh /\ AnsweredInv /\ LoadInv /\ SavedInv /\ PlainInv
  BY Parts DEF ResultsInv, FreshInv
<1>b. Made \subseteq TaskIds /\ \A r \in Requests : Function(r) \in Functions
  BY <1>a, Counted DEF Functions
<1>1. FloorInv'
  BY <1>a, <1>b DEF FloorInv, ServerType, Find
<1>2. FetchedIsFresh'
  BY <1>a, <1>b DEF FetchedIsFresh, CacheInv, ApartInv, Unknown, Asking, StoreType, ResultType,
     AnsweredInv, LoadInv, Loading, PlaceType, QueueType, WhereInv, Active, Saving, Find
<1>3. AnsweredInv'
  BY <1>a, <1>b DEF AnsweredInv, ResultType, ApartInv, Asking, Made, Method, Request, MadeType,
     PlaceType, QueueType, WhereInv, Active, Saving, Find
<1>4. LoadInv'
  BY <1>a, <1>b DEF LoadInv, Loading, ResultType, ApartInv, Asking, PlaceType, QueueType,
     WhereInv, Active, Saving, Find
<1>5. SavedInv'
  BY <1>a, <1>b DEF SavedInv, SavedIsFresh, StoreType, ApartInv, AnswerInv, Made, Method,
     Request, MadeType, PlaceType, QueueType, WhereInv, Active, Saving, Find
<1>6. PlainInv'
  BY <1>a, <1>b DEF PlainInv, StoreType, ResultType, CacheInv, ApartInv, Unknown, Asking,
     AnsweredInv, LoadInv, Loading, PlaceType, QueueType, WhereInv, Active, Saving, Find
<1> QED
  BY <1>1, <1>2, <1>3, <1>4, <1>5, <1>6 DEF FreshInv

LEMMA UseHitFresh ==
    ASSUME ResultsInv, FreshInv, NEW p \in Procs, UseHit(p)
    PROVE  FreshInv'
<1> USE ProcAssumption, BoundAssumption
    DEF queueVars, storeVars, resultVars, serverVars, localVars, Goto, Procs, Labels, PushLabels
<1>a. /\ MadeType /\ QueueType /\ StoreType /\ ResultType /\ ServerType /\ PlaceType /\ EndType
      /\ WhereInv /\ AnswerInv /\ CacheInv /\ ApartInv /\ CountInv
      /\ FloorInv /\ FetchedIsFresh /\ AnsweredInv /\ LoadInv /\ SavedInv /\ PlainInv
  BY Parts DEF ResultsInv, FreshInv
<1>b. Made \subseteq TaskIds /\ \A r \in Requests : Function(r) \in Functions
  BY <1>a, Counted DEF Functions
<1>1. FloorInv'
  BY <1>a, <1>b DEF FloorInv, ServerType, UseHit, AfterHit, PushReturns
<1>2. FetchedIsFresh'
  BY <1>a, <1>b DEF FetchedIsFresh, CacheInv, ApartInv, Unknown, Asking, StoreType, ResultType,
     AnsweredInv, LoadInv, Loading, PlaceType, QueueType, WhereInv, Active, Saving, UseHit,
     AfterHit, PushReturns
<1>3. AnsweredInv'
  BY <1>a, <1>b DEF AnsweredInv, ResultType, ApartInv, Asking, Made, Method, Request, MadeType,
     PlaceType, QueueType, WhereInv, Active, Saving, UseHit, AfterHit, PushReturns
<1>4. LoadInv'
  BY <1>a, <1>b DEF LoadInv, Loading, ResultType, ApartInv, Asking, PlaceType, QueueType,
     WhereInv, Active, Saving, UseHit, AfterHit, PushReturns
<1>5. SavedInv'
  BY <1>a, <1>b DEF SavedInv, SavedIsFresh, StoreType, ApartInv, AnswerInv, Made, Method,
     Request, MadeType, PlaceType, QueueType, WhereInv, Active, Saving, UseHit, AfterHit,
     PushReturns
<1>6. PlainInv'
  BY <1>a, <1>b DEF PlainInv, StoreType, ResultType, CacheInv, ApartInv, Unknown, Asking,
     AnsweredInv, LoadInv, Loading, PlaceType, QueueType, WhereInv, Active, Saving, UseHit,
     AfterHit, PushReturns
<1> QED
  BY <1>1, <1>2, <1>3, <1>4, <1>5, <1>6 DEF FreshInv

LEMMA UseFreedFresh ==
    ASSUME ResultsInv, FreshInv, NEW p \in Procs, UseFreed(p)
    PROVE  FreshInv'
<1> USE ProcAssumption, BoundAssumption
    DEF queueVars, storeVars, resultVars, serverVars, localVars, Goto, Procs, Labels, PushLabels
<1>a. /\ MadeType /\ QueueType /\ StoreType /\ ResultType /\ ServerType /\ PlaceType /\ EndType
      /\ WhereInv /\ AnswerInv /\ CacheInv /\ ApartInv /\ CountInv
      /\ FloorInv /\ FetchedIsFresh /\ AnsweredInv /\ LoadInv /\ SavedInv /\ PlainInv
  BY Parts DEF ResultsInv, FreshInv
<1>b. Made \subseteq TaskIds /\ \A r \in Requests : Function(r) \in Functions
  BY <1>a, Counted DEF Functions
<1>1. FloorInv'
  BY <1>a, <1>b DEF FloorInv, ServerType, UseFreed
<1>2. FetchedIsFresh'
  BY <1>a, <1>b DEF FetchedIsFresh, CacheInv, ApartInv, Unknown, Asking, StoreType, ResultType,
     AnsweredInv, LoadInv, Loading, PlaceType, QueueType, WhereInv, Active, Saving, UseFreed
<1>3. AnsweredInv'
  BY <1>a, <1>b DEF AnsweredInv, ResultType, ApartInv, Asking, Made, Method, Request, MadeType,
     PlaceType, QueueType, WhereInv, Active, Saving, UseFreed
<1>4. LoadInv'
  BY <1>a, <1>b DEF LoadInv, Loading, ResultType, ApartInv, Asking, PlaceType, QueueType,
     WhereInv, Active, Saving, UseFreed
<1>5. SavedInv'
  BY <1>a, <1>b DEF SavedInv, SavedIsFresh, StoreType, ApartInv, AnswerInv, Made, Method,
     Request, MadeType, PlaceType, QueueType, WhereInv, Active, Saving, UseFreed
<1>6. PlainInv'
  BY <1>a, <1>b DEF PlainInv, StoreType, ResultType, CacheInv, ApartInv, Unknown, Asking,
     AnsweredInv, LoadInv, Loading, PlaceType, QueueType, WhereInv, Active, Saving, UseFreed
<1> QED
  BY <1>1, <1>2, <1>3, <1>4, <1>5, <1>6 DEF FreshInv

LEMMA ReadDiskFresh ==
    ASSUME ResultsInv, FreshInv, NEW p \in Procs, ReadDisk(p)
    PROVE  FreshInv'
<1> USE ProcAssumption, BoundAssumption
    DEF queueVars, storeVars, resultVars, serverVars, localVars, Goto, Procs, Labels, PushLabels
<1>a. /\ MadeType /\ QueueType /\ StoreType /\ ResultType /\ ServerType /\ PlaceType /\ EndType
      /\ WhereInv /\ AnswerInv /\ CacheInv /\ ApartInv /\ CountInv
      /\ FloorInv /\ FetchedIsFresh /\ AnsweredInv /\ LoadInv /\ SavedInv /\ PlainInv
  BY Parts DEF ResultsInv, FreshInv
<1>b. Made \subseteq TaskIds /\ \A r \in Requests : Function(r) \in Functions
  BY <1>a, Counted DEF Functions
<1>1. FloorInv'
  BY <1>a, <1>b DEF FloorInv, ServerType, ReadDisk
<1>2. FetchedIsFresh'
  BY <1>a, <1>b DEF FetchedIsFresh, CacheInv, ApartInv, Unknown, Asking, StoreType, ResultType,
     AnsweredInv, LoadInv, Loading, PlaceType, QueueType, WhereInv, Active, Saving, ReadDisk
<1>3. AnsweredInv'
  BY <1>a, <1>b DEF AnsweredInv, ResultType, ApartInv, Asking, Made, Method, Request, MadeType,
     PlaceType, QueueType, WhereInv, Active, Saving, ReadDisk
<1>4. LoadInv'
  BY <1>a, <1>b DEF LoadInv, Loading, ResultType, ApartInv, Asking, PlaceType, QueueType,
     WhereInv, Active, Saving, ReadDisk
<1>5. SavedInv'
  BY <1>a, <1>b DEF SavedInv, SavedIsFresh, StoreType, ApartInv, AnswerInv, Made, Method,
     Request, MadeType, PlaceType, QueueType, WhereInv, Active, Saving, ReadDisk
<1>6. PlainInv'
  BY <1>a, <1>b DEF PlainInv, StoreType, ResultType, CacheInv, ApartInv, Unknown, Asking,
     AnsweredInv, LoadInv, Loading, PlaceType, QueueType, WhereInv, Active, Saving, ReadDisk
<1> QED
  BY <1>1, <1>2, <1>3, <1>4, <1>5, <1>6 DEF FreshInv

LEMMA UseLoadedFresh ==
    ASSUME ResultsInv, FreshInv, NEW p \in Procs, UseLoaded(p)
    PROVE  FreshInv'
<1> USE ProcAssumption, BoundAssumption
    DEF queueVars, storeVars, resultVars, serverVars, localVars, Goto, Procs, Labels, PushLabels
<1>a. /\ MadeType /\ QueueType /\ StoreType /\ ResultType /\ ServerType /\ PlaceType /\ EndType
      /\ WhereInv /\ AnswerInv /\ CacheInv /\ ApartInv /\ CountInv
      /\ FloorInv /\ FetchedIsFresh /\ AnsweredInv /\ LoadInv /\ SavedInv /\ PlainInv
  BY Parts DEF ResultsInv, FreshInv
<1>b. Made \subseteq TaskIds /\ \A r \in Requests : Function(r) \in Functions
  BY <1>a, Counted DEF Functions
<1>1. FloorInv'
  BY <1>a, <1>b DEF FloorInv, ServerType, UseLoaded
<1>2. FetchedIsFresh'
  BY <1>a, <1>b DEF FetchedIsFresh, CacheInv, ApartInv, Unknown, Asking, StoreType, ResultType,
     AnsweredInv, LoadInv, Loading, PlaceType, QueueType, WhereInv, Active, Saving, UseLoaded
<1>3. AnsweredInv'
  BY <1>a, <1>b DEF AnsweredInv, ResultType, ApartInv, Asking, Made, Method, Request, MadeType,
     PlaceType, QueueType, WhereInv, Active, Saving, UseLoaded
<1>4. LoadInv'
  BY <1>a, <1>b DEF LoadInv, Loading, ResultType, ApartInv, Asking, PlaceType, QueueType,
     WhereInv, Active, Saving, UseLoaded
<1>5. SavedInv'
  BY <1>a, <1>b DEF SavedInv, SavedIsFresh, StoreType, ApartInv, AnswerInv, Made, Method,
     Request, MadeType, PlaceType, QueueType, WhereInv, Active, Saving, UseLoaded
<1>6. PlainInv'
  BY <1>a, <1>b DEF PlainInv, StoreType, ResultType, CacheInv, ApartInv, Unknown, Asking,
     AnsweredInv, LoadInv, Loading, PlaceType, QueueType, WhereInv, Active, Saving, UseLoaded
<1> QED
  BY <1>1, <1>2, <1>3, <1>4, <1>5, <1>6 DEF FreshInv

LEMMA PushOutFresh ==
    ASSUME ResultsInv, FreshInv, NEW p \in Procs, PushOut(p)
    PROVE  FreshInv'
<1> USE ProcAssumption, BoundAssumption
    DEF queueVars, storeVars, resultVars, serverVars, localVars, Goto, Procs, Labels, PushLabels
<1>a. /\ MadeType /\ QueueType /\ StoreType /\ ResultType /\ ServerType /\ PlaceType /\ EndType
      /\ WhereInv /\ AnswerInv /\ CacheInv /\ ApartInv /\ CountInv
      /\ FloorInv /\ FetchedIsFresh /\ AnsweredInv /\ LoadInv /\ SavedInv /\ PlainInv
  BY Parts DEF ResultsInv, FreshInv
<1>b. Made \subseteq TaskIds /\ \A r \in Requests : Function(r) \in Functions
  BY <1>a, Counted DEF Functions
<1>1. FloorInv'
  BY <1>a, <1>b DEF FloorInv, ServerType, PushOut, PushReturns, Queue!Submit
<1>2. FetchedIsFresh'
  BY <1>a, <1>b DEF FetchedIsFresh, CacheInv, ApartInv, Unknown, Asking, StoreType, ResultType,
     AnsweredInv, LoadInv, Loading, PlaceType, QueueType, WhereInv, Active, Saving, PushOut,
     PushReturns, Queue!Submit
<1>3. AnsweredInv'
  BY <1>a, <1>b DEF AnsweredInv, ResultType, ApartInv, Asking, Made, Method, Request, MadeType,
     PlaceType, QueueType, WhereInv, Active, Saving, PushOut, PushReturns, Queue!Submit
<1>4. LoadInv'
  BY <1>a, <1>b DEF LoadInv, Loading, ResultType, ApartInv, Asking, PlaceType, QueueType,
     WhereInv, Active, Saving, PushOut, PushReturns, Queue!Submit
<1>5. SavedInv'
  BY <1>a, <1>b DEF SavedInv, SavedIsFresh, StoreType, ApartInv, AnswerInv, Made, Method,
     Request, MadeType, PlaceType, QueueType, WhereInv, Active, Saving, PushOut, PushReturns,
     Queue!Submit
<1>6. PlainInv'
  BY <1>a, <1>b DEF PlainInv, StoreType, ResultType, CacheInv, ApartInv, Unknown, Asking,
     AnsweredInv, LoadInv, Loading, PlaceType, QueueType, WhereInv, Active, Saving, PushOut,
     PushReturns, Queue!Submit
<1> QED
  BY <1>1, <1>2, <1>3, <1>4, <1>5, <1>6 DEF FreshInv

LEMMA TakeFresh ==
    ASSUME ResultsInv, FreshInv, Take
    PROVE  FreshInv'
<1> USE ProcAssumption, BoundAssumption
    DEF queueVars, storeVars, resultVars, serverVars, localVars, Goto, Procs, Labels, PushLabels
<1>a. /\ MadeType /\ QueueType /\ StoreType /\ ResultType /\ ServerType /\ PlaceType /\ EndType
      /\ WhereInv /\ AnswerInv /\ CacheInv /\ ApartInv /\ CountInv
      /\ FloorInv /\ FetchedIsFresh /\ AnsweredInv /\ LoadInv /\ SavedInv /\ PlainInv
  BY Parts DEF ResultsInv, FreshInv
<1>b. Made \subseteq TaskIds /\ \A r \in Requests : Function(r) \in Functions
  BY <1>a, Counted DEF Functions
<1>1. FloorInv'
  BY <1>a, <1>b DEF FloorInv, ServerType, Take, Queue!Begin
<1>2. FetchedIsFresh'
  BY <1>a, <1>b DEF FetchedIsFresh, CacheInv, ApartInv, Unknown, Asking, StoreType, ResultType,
     AnsweredInv, LoadInv, Loading, PlaceType, QueueType, WhereInv, Active, Saving, Take,
     Queue!Begin
<1>3. AnsweredInv'
  BY <1>a, <1>b DEF AnsweredInv, ResultType, ApartInv, Asking, Made, Method, Request, MadeType,
     PlaceType, QueueType, WhereInv, Active, Saving, Take, Queue!Begin
<1>4. LoadInv'
  BY <1>a, <1>b DEF LoadInv, Loading, ResultType, ApartInv, Asking, PlaceType, QueueType,
     WhereInv, Active, Saving, Take, Queue!Begin
<1>5. SavedInv'
  BY <1>a, <1>b DEF SavedInv, SavedIsFresh, StoreType, ApartInv, AnswerInv, Made, Method,
     Request, MadeType, PlaceType, QueueType, WhereInv, Active, Saving, Take, Queue!Begin
<1>6. PlainInv'
  BY <1>a, <1>b DEF PlainInv, StoreType, ResultType, CacheInv, ApartInv, Unknown, Asking,
     AnsweredInv, LoadInv, Loading, PlaceType, QueueType, WhereInv, Active, Saving, Take,
     Queue!Begin
<1> QED
  BY <1>1, <1>2, <1>3, <1>4, <1>5, <1>6 DEF FreshInv

LEMMA FuncMissesFresh ==
    ASSUME ResultsInv, FreshInv, FuncMisses
    PROVE  FreshInv'
<1> USE ProcAssumption, BoundAssumption
    DEF queueVars, storeVars, resultVars, serverVars, localVars, Goto, Procs, Labels, PushLabels
<1>a. /\ MadeType /\ QueueType /\ StoreType /\ ResultType /\ ServerType /\ PlaceType /\ EndType
      /\ WhereInv /\ AnswerInv /\ CacheInv /\ ApartInv /\ CountInv
      /\ FloorInv /\ FetchedIsFresh /\ AnsweredInv /\ LoadInv /\ SavedInv /\ PlainInv
  BY Parts DEF ResultsInv, FreshInv
<1>b. Made \subseteq TaskIds /\ \A r \in Requests : Function(r) \in Functions
  BY <1>a, Counted DEF Functions
<1>1. FloorInv'
  BY <1>a, <1>b DEF FloorInv, ServerType, FuncMisses
<1>2. FetchedIsFresh'
  BY <1>a, <1>b DEF FetchedIsFresh, CacheInv, ApartInv, Unknown, Asking, StoreType, ResultType,
     AnsweredInv, LoadInv, Loading, PlaceType, QueueType, WhereInv, Active, Saving, FuncMisses
<1>3. AnsweredInv'
  BY <1>a, <1>b DEF AnsweredInv, ResultType, ApartInv, Asking, Made, Method, Request, MadeType,
     PlaceType, QueueType, WhereInv, Active, Saving, FuncMisses
<1>4. LoadInv'
  BY <1>a, <1>b DEF LoadInv, Loading, ResultType, ApartInv, Asking, PlaceType, QueueType,
     WhereInv, Active, Saving, FuncMisses
<1>5. SavedInv'
  BY <1>a, <1>b DEF SavedInv, SavedIsFresh, StoreType, ApartInv, AnswerInv, Made, Method,
     Request, MadeType, PlaceType, QueueType, WhereInv, Active, Saving, FuncMisses
<1>6. PlainInv'
  BY <1>a, <1>b DEF PlainInv, StoreType, ResultType, CacheInv, ApartInv, Unknown, Asking,
     AnsweredInv, LoadInv, Loading, PlaceType, QueueType, WhereInv, Active, Saving, FuncMisses
<1> QED
  BY <1>1, <1>2, <1>3, <1>4, <1>5, <1>6 DEF FreshInv

LEMMA RefFresh ==
    ASSUME ResultsInv, FreshInv, Ref
    PROVE  FreshInv'
<1> USE ProcAssumption, BoundAssumption
    DEF queueVars, storeVars, resultVars, serverVars, localVars, Goto, Procs, Labels, PushLabels
<1>a. /\ MadeType /\ QueueType /\ StoreType /\ ResultType /\ ServerType /\ PlaceType /\ EndType
      /\ WhereInv /\ AnswerInv /\ CacheInv /\ ApartInv /\ CountInv
      /\ FloorInv /\ FetchedIsFresh /\ AnsweredInv /\ LoadInv /\ SavedInv /\ PlainInv
  BY Parts DEF ResultsInv, FreshInv
<1>b. Made \subseteq TaskIds /\ \A r \in Requests : Function(r) \in Functions
  BY <1>a, Counted DEF Functions
<1>1. FloorInv'
  BY <1>a, <1>b DEF FloorInv, ServerType, Ref
<1>2. FetchedIsFresh'
  BY <1>a, <1>b DEF FetchedIsFresh, CacheInv, ApartInv, Unknown, Asking, StoreType, ResultType,
     AnsweredInv, LoadInv, Loading, PlaceType, QueueType, WhereInv, Active, Saving, Ref
<1>3. AnsweredInv'
  BY <1>a, <1>b DEF AnsweredInv, ResultType, ApartInv, Asking, Made, Method, Request, MadeType,
     PlaceType, QueueType, WhereInv, Active, Saving, Ref
<1>4. LoadInv'
  BY <1>a, <1>b DEF LoadInv, Loading, ResultType, ApartInv, Asking, PlaceType, QueueType,
     WhereInv, Active, Saving, Ref
<1>5. SavedInv'
  BY <1>a, <1>b DEF SavedInv, SavedIsFresh, StoreType, ApartInv, AnswerInv, Made, Method,
     Request, MadeType, PlaceType, QueueType, WhereInv, Active, Saving, Ref
<1>6. PlainInv'
  BY <1>a, <1>b DEF PlainInv, StoreType, ResultType, CacheInv, ApartInv, Unknown, Asking,
     AnsweredInv, LoadInv, Loading, PlaceType, QueueType, WhereInv, Active, Saving, Ref
<1> QED
  BY <1>1, <1>2, <1>3, <1>4, <1>5, <1>6 DEF FreshInv

LEMMA RefFreedFresh ==
    ASSUME ResultsInv, FreshInv, RefFreed
    PROVE  FreshInv'
<1> USE ProcAssumption, BoundAssumption
    DEF queueVars, storeVars, resultVars, serverVars, localVars, Goto, Procs, Labels, PushLabels
<1>a. /\ MadeType /\ QueueType /\ StoreType /\ ResultType /\ ServerType /\ PlaceType /\ EndType
      /\ WhereInv /\ AnswerInv /\ CacheInv /\ ApartInv /\ CountInv
      /\ FloorInv /\ FetchedIsFresh /\ AnsweredInv /\ LoadInv /\ SavedInv /\ PlainInv
  BY Parts DEF ResultsInv, FreshInv
<1>b. Made \subseteq TaskIds /\ \A r \in Requests : Function(r) \in Functions
  BY <1>a, Counted DEF Functions
<1>1. FloorInv'
  BY <1>a, <1>b DEF FloorInv, ServerType, RefFreed
<1>2. FetchedIsFresh'
  BY <1>a, <1>b DEF FetchedIsFresh, CacheInv, ApartInv, Unknown, Asking, StoreType, ResultType,
     AnsweredInv, LoadInv, Loading, PlaceType, QueueType, WhereInv, Active, Saving, RefFreed
<1>3. AnsweredInv'
  BY <1>a, <1>b DEF AnsweredInv, ResultType, ApartInv, Asking, Made, Method, Request, MadeType,
     PlaceType, QueueType, WhereInv, Active, Saving, RefFreed
<1>4. LoadInv'
  BY <1>a, <1>b DEF LoadInv, Loading, ResultType, ApartInv, Asking, PlaceType, QueueType,
     WhereInv, Active, Saving, RefFreed
<1>5. SavedInv'
  BY <1>a, <1>b DEF SavedInv, SavedIsFresh, StoreType, ApartInv, AnswerInv, Made, Method,
     Request, MadeType, PlaceType, QueueType, WhereInv, Active, Saving, RefFreed
<1>6. PlainInv'
  BY <1>a, <1>b DEF PlainInv, StoreType, ResultType, CacheInv, ApartInv, Unknown, Asking,
     AnsweredInv, LoadInv, Loading, PlaceType, QueueType, WhereInv, Active, Saving, RefFreed
<1> QED
  BY <1>1, <1>2, <1>3, <1>4, <1>5, <1>6 DEF FreshInv

LEMMA CallFailsFresh ==
    ASSUME ResultsInv, FreshInv, CallFails
    PROVE  FreshInv'
<1> USE ProcAssumption, BoundAssumption
    DEF queueVars, storeVars, resultVars, serverVars, localVars, Goto, Procs, Labels, PushLabels
<1>a. /\ MadeType /\ QueueType /\ StoreType /\ ResultType /\ ServerType /\ PlaceType /\ EndType
      /\ WhereInv /\ AnswerInv /\ CacheInv /\ ApartInv /\ CountInv
      /\ FloorInv /\ FetchedIsFresh /\ AnsweredInv /\ LoadInv /\ SavedInv /\ PlainInv
  BY Parts DEF ResultsInv, FreshInv
<1>b. Made \subseteq TaskIds /\ \A r \in Requests : Function(r) \in Functions
  BY <1>a, Counted DEF Functions
<1>1. FloorInv'
  BY <1>a, <1>b DEF FloorInv, ServerType, CallFails, Applied
<1>2. FetchedIsFresh'
  BY <1>a, <1>b DEF FetchedIsFresh, CacheInv, ApartInv, Unknown, Asking, StoreType, ResultType,
     AnsweredInv, LoadInv, Loading, PlaceType, QueueType, WhereInv, Active, Saving, CallFails,
     Applied
<1>3. AnsweredInv'
  BY <1>a, <1>b DEF AnsweredInv, ResultType, ApartInv, Asking, Made, Method, Request, MadeType,
     PlaceType, QueueType, WhereInv, Active, Saving, CallFails, Applied
<1>4. LoadInv'
  BY <1>a, <1>b DEF LoadInv, Loading, ResultType, ApartInv, Asking, PlaceType, QueueType,
     WhereInv, Active, Saving, CallFails, Applied
<1>5. SavedInv'
  BY <1>a, <1>b DEF SavedInv, SavedIsFresh, StoreType, ApartInv, AnswerInv, Made, Method,
     Request, MadeType, PlaceType, QueueType, WhereInv, Active, Saving, CallFails, Applied
<1>6. PlainInv'
  BY <1>a, <1>b DEF PlainInv, StoreType, ResultType, CacheInv, ApartInv, Unknown, Asking,
     AnsweredInv, LoadInv, Loading, PlaceType, QueueType, WhereInv, Active, Saving, CallFails,
     Applied
<1> QED
  BY <1>1, <1>2, <1>3, <1>4, <1>5, <1>6 DEF FreshInv

LEMMA CallRefusedFresh ==
    ASSUME ResultsInv, FreshInv, CallRefused
    PROVE  FreshInv'
<1> USE ProcAssumption, BoundAssumption
    DEF queueVars, storeVars, resultVars, serverVars, localVars, Goto, Procs, Labels, PushLabels
<1>a. /\ MadeType /\ QueueType /\ StoreType /\ ResultType /\ ServerType /\ PlaceType /\ EndType
      /\ WhereInv /\ AnswerInv /\ CacheInv /\ ApartInv /\ CountInv
      /\ FloorInv /\ FetchedIsFresh /\ AnsweredInv /\ LoadInv /\ SavedInv /\ PlainInv
  BY Parts DEF ResultsInv, FreshInv
<1>b. Made \subseteq TaskIds /\ \A r \in Requests : Function(r) \in Functions
  BY <1>a, Counted DEF Functions
<1>1. FloorInv'
  BY <1>a, <1>b DEF FloorInv, ServerType, CallRefused, NewResults
<1>2. FetchedIsFresh'
  BY <1>a, <1>b DEF FetchedIsFresh, CacheInv, ApartInv, Unknown, Asking, StoreType, ResultType,
     AnsweredInv, LoadInv, Loading, PlaceType, QueueType, WhereInv, Active, Saving, CallRefused,
     NewResults
<1>3. AnsweredInv'
  BY <1>a, <1>b DEF AnsweredInv, ResultType, ApartInv, Asking, Made, Method, Request, MadeType,
     PlaceType, QueueType, WhereInv, Active, Saving, CallRefused, NewResults
<1>4. LoadInv'
  BY <1>a, <1>b DEF LoadInv, Loading, ResultType, ApartInv, Asking, PlaceType, QueueType,
     WhereInv, Active, Saving, CallRefused, NewResults
<1>5. SavedInv'
  BY <1>a, <1>b DEF SavedInv, SavedIsFresh, StoreType, ApartInv, AnswerInv, Made, Method,
     Request, MadeType, PlaceType, QueueType, WhereInv, Active, Saving, CallRefused, NewResults
<1>6. PlainInv'
  BY <1>a, <1>b DEF PlainInv, StoreType, ResultType, CacheInv, ApartInv, Unknown, Asking,
     AnsweredInv, LoadInv, Loading, PlaceType, QueueType, WhereInv, Active, Saving, CallRefused,
     NewResults
<1> QED
  BY <1>1, <1>2, <1>3, <1>4, <1>5, <1>6 DEF FreshInv

LEMMA CallAnsweredFresh ==
    ASSUME ResultsInv, FreshInv, CallAnswered
    PROVE  FreshInv'
<1> USE ProcAssumption, BoundAssumption
    DEF queueVars, storeVars, resultVars, serverVars, localVars, Goto, Procs, Labels, PushLabels
<1>a. /\ MadeType /\ QueueType /\ StoreType /\ ResultType /\ ServerType /\ PlaceType /\ EndType
      /\ WhereInv /\ AnswerInv /\ CacheInv /\ ApartInv /\ CountInv
      /\ FloorInv /\ FetchedIsFresh /\ AnsweredInv /\ LoadInv /\ SavedInv /\ PlainInv
  BY Parts DEF ResultsInv, FreshInv
<1>b. Made \subseteq TaskIds /\ \A r \in Requests : Function(r) \in Functions
  BY <1>a, Counted DEF Functions
<1>1. FloorInv'
  BY <1>a, <1>b DEF FloorInv, ServerType, CallAnswered, NewResults, Applied
<1>2. FetchedIsFresh'
  BY <1>a, <1>b DEF FetchedIsFresh, CacheInv, ApartInv, Unknown, Asking, StoreType, ResultType,
     AnsweredInv, LoadInv, Loading, PlaceType, QueueType, WhereInv, Active, Saving,
     CallAnswered, NewResults, Applied
<1>3. AnsweredInv'
  <2>1. SUFFICES ASSUME Method(running) = "GET"
                 PROVE  AnsweredInv'
    BY <1>a DEF AnsweredInv, CallAnswered, NewResults, Method
  <2>2. running \in Made /\ running \in TaskIds
    BY <1>a, <1>b DEF WhereInv, CallAnswered
  <2>3. Function(Request(running)) \in Functions
    BY <1>a, <1>b, <2>1, <2>2, TaskTyped
  <2>4. value'[running] = [version |-> server[Function(Request(running))], from |-> "net"]
    BY <1>a, <2>1, <2>2 DEF ResultType, CallAnswered, NewResults
  <2>5. /\ server[Function(Request(running))] \in Nat
        /\ server[Function(Request(running))] >= floor[Function(Request(running))]
    BY <1>a, <2>3 DEF ServerType, FloorInv
  <2>6. running' = running /\ Request(running)' = Request(running) /\ floor' = floor
    BY DEF CallAnswered, NewResults, Request
  <2> QED
    BY <2>4, <2>5, <2>6 DEF AnsweredInv
<1>4. LoadInv'
  BY <1>a, <1>b DEF LoadInv, Loading, ResultType, ApartInv, Asking, PlaceType, QueueType,
     WhereInv, Active, Saving, CallAnswered, NewResults, Applied
<1>5. SavedInv'
  BY <1>a, <1>b DEF SavedInv, SavedIsFresh, StoreType, ApartInv, AnswerInv, Made, Method,
     Request, MadeType, PlaceType, QueueType, WhereInv, Active, Saving, CallAnswered,
     NewResults, Applied
<1>6. PlainInv'
  BY <1>a, <1>b DEF PlainInv, StoreType, ResultType, CacheInv, ApartInv, Unknown, Asking,
     AnsweredInv, LoadInv, Loading, PlaceType, QueueType, WhereInv, Active, Saving,
     CallAnswered, NewResults, Applied
<1> QED
  BY <1>1, <1>2, <1>3, <1>4, <1>5, <1>6 DEF FreshInv

LEMMA RefreshFresh ==
    ASSUME ResultsInv, FreshInv, Refresh
    PROVE  FreshInv'
<1> USE ProcAssumption, BoundAssumption
    DEF queueVars, storeVars, resultVars, serverVars, localVars, Goto, Procs, Labels, PushLabels
<1>a. /\ MadeType /\ QueueType /\ StoreType /\ ResultType /\ ServerType /\ PlaceType /\ EndType
      /\ WhereInv /\ AnswerInv /\ CacheInv /\ ApartInv /\ CountInv
      /\ FloorInv /\ FetchedIsFresh /\ AnsweredInv /\ LoadInv /\ SavedInv /\ PlainInv
  BY Parts DEF ResultsInv, FreshInv
<1>b. Made \subseteq TaskIds /\ \A r \in Requests : Function(r) \in Functions
  BY <1>a, Counted DEF Functions
<1>c. /\ Request(running) \in Posts /\ Request(running).type # "OTHER"
      /\ value' = value
      /\ \A r \in Requests : cache'[r] # NULL =>
            cache'[r] = cache[r] /\ r \notin Refreshed(Request(running))
  BY <1>a, TaskTyped DEF WhereInv, Refresh
<1>d. \A r \in Requests : cache[r] # NULL /\ r \notin Refreshed(Request(running)) =>
        floor'[Function(r)] = floor[Function(r)]
  BY <1>b, <1>c, RefreshedAffected DEF Refresh
<1>e. \A r \in Requests : cache'[r] # NULL => floor'[Function(r)] = floor[Function(r)]
  BY <1>c, <1>d
<1>1. FloorInv'
  BY <1>a, <1>b DEF FloorInv, ServerType, Refresh, Refreshed, Unlinked
<1>2. FetchedIsFresh'
  BY <1>a, <1>c, <1>d, <1>e DEF FetchedIsFresh, Refresh
<1>3. AnsweredInv'
  BY <1>a, <1>b DEF AnsweredInv, ResultType, ApartInv, Asking, Made, Method, Request, MadeType,
     PlaceType, QueueType, WhereInv, Active, Saving, Refresh, Refreshed, Unlinked
<1>4. LoadInv'
  BY <1>a, <1>b DEF LoadInv, Loading, ResultType, ApartInv, Asking, PlaceType, QueueType,
     WhereInv, Active, Saving, Refresh, Refreshed, Unlinked
<1>5. SavedInv'
  <2>1. ~Saving'
    BY <1>a DEF PlaceType, Saving, Active, Refresh
  <2>2. CASE ~DevelMode
    BY <1>a, <2>1, <2>2 DEF PlainInv, SavedInv, SavedIsFresh, Refresh
  <2>3. CASE DevelMode
    <3>1. ASSUME NEW r \in saved'
          PROVE  r \in saved /\ r \in Requests /\ r \notin Refreshed(Request(running))
      BY <1>a, <2>3 DEF StoreType, Refresh, Unlinked
    <3>2. ASSUME NEW r \in saved'
          PROVE  cache'[r] # NULL /\ disk'[r] # NULL /\ disk'[r] >= floor'[Function(r)]
      <4>1. cache[r] # NULL /\ disk[r] # NULL /\ disk[r] >= floor[Function(r)]
        BY <1>a, <3>1 DEF SavedInv, SavedIsFresh
      <4>2. cache'[r] = cache[r] /\ disk'[r] = disk[r]
        BY <2>3, <3>1 DEF Refresh, Unlinked
      <4> QED
        BY <1>d, <3>1, <4>1, <4>2
    <3> QED
      BY <2>1, <3>2 DEF SavedInv, SavedIsFresh
  <2> QED
    BY <2>2, <2>3
<1>6. PlainInv'
  BY <1>a, <1>b DEF PlainInv, StoreType, ResultType, CacheInv, ApartInv, Unknown, Asking,
     AnsweredInv, LoadInv, Loading, PlaceType, QueueType, WhereInv, Active, Saving, Refresh,
     Refreshed, Unlinked
<1> QED
  BY <1>1, <1>2, <1>3, <1>4, <1>5, <1>6 DEF FreshInv

LEMMA RefreshUnknownFresh ==
    ASSUME ResultsInv, FreshInv, RefreshUnknown
    PROVE  FreshInv'
<1> USE ProcAssumption, BoundAssumption
    DEF queueVars, storeVars, resultVars, serverVars, localVars, Goto, Procs, Labels, PushLabels
<1>a. /\ MadeType /\ QueueType /\ StoreType /\ ResultType /\ ServerType /\ PlaceType /\ EndType
      /\ WhereInv /\ AnswerInv /\ CacheInv /\ ApartInv /\ CountInv
      /\ FloorInv /\ FetchedIsFresh /\ AnsweredInv /\ LoadInv /\ SavedInv /\ PlainInv
  BY Parts DEF ResultsInv, FreshInv
<1>b. Made \subseteq TaskIds /\ \A r \in Requests : Function(r) \in Functions
  BY <1>a, Counted DEF Functions
<1>1. FloorInv'
  BY <1>a, <1>b DEF FloorInv, ServerType, RefreshUnknown
<1>2. FetchedIsFresh'
  BY <1>a, <1>b DEF FetchedIsFresh, CacheInv, ApartInv, Unknown, Asking, StoreType, ResultType,
     AnsweredInv, LoadInv, Loading, PlaceType, QueueType, WhereInv, Active, Saving,
     RefreshUnknown
<1>3. AnsweredInv'
  BY <1>a, <1>b DEF AnsweredInv, ResultType, ApartInv, Asking, Made, Method, Request, MadeType,
     PlaceType, QueueType, WhereInv, Active, Saving, RefreshUnknown
<1>4. LoadInv'
  BY <1>a, <1>b DEF LoadInv, Loading, ResultType, ApartInv, Asking, PlaceType, QueueType,
     WhereInv, Active, Saving, RefreshUnknown
<1>5. SavedInv'
  BY <1>a, <1>b DEF SavedInv, SavedIsFresh, StoreType, ApartInv, AnswerInv, Made, Method,
     Request, MadeType, PlaceType, QueueType, WhereInv, Active, Saving, RefreshUnknown
<1>6. PlainInv'
  BY <1>a, <1>b DEF PlainInv, StoreType, ResultType, CacheInv, ApartInv, Unknown, Asking,
     AnsweredInv, LoadInv, Loading, PlaceType, QueueType, WhereInv, Active, Saving,
     RefreshUnknown
<1> QED
  BY <1>1, <1>2, <1>3, <1>4, <1>5, <1>6 DEF FreshInv

LEMMA SaveFresh ==
    ASSUME ResultsInv, FreshInv, Save
    PROVE  FreshInv'
<1> USE ProcAssumption, BoundAssumption
    DEF queueVars, storeVars, resultVars, serverVars, localVars, Goto, Procs, Labels, PushLabels
<1>a. /\ MadeType /\ QueueType /\ StoreType /\ ResultType /\ ServerType /\ PlaceType /\ EndType
      /\ WhereInv /\ AnswerInv /\ CacheInv /\ ApartInv /\ CountInv
      /\ FloorInv /\ FetchedIsFresh /\ AnsweredInv /\ LoadInv /\ SavedInv /\ PlainInv
  BY Parts DEF ResultsInv, FreshInv
<1>b. Made \subseteq TaskIds /\ \A r \in Requests : Function(r) \in Functions
  BY <1>a, Counted DEF Functions
<1>1. FloorInv'
  BY <1>a, <1>b DEF FloorInv, ServerType, Save
<1>2. FetchedIsFresh'
  BY <1>a, <1>b DEF FetchedIsFresh, CacheInv, ApartInv, Unknown, Asking, StoreType, ResultType,
     AnsweredInv, LoadInv, Loading, PlaceType, QueueType, WhereInv, Active, Saving, Save
<1>3. AnsweredInv'
  BY <1>a, <1>b DEF AnsweredInv, ResultType, ApartInv, Asking, Made, Method, Request, MadeType,
     PlaceType, QueueType, WhereInv, Active, Saving, Save
<1>4. LoadInv'
  BY <1>a, <1>b DEF LoadInv, Loading, ResultType, ApartInv, Asking, PlaceType, QueueType,
     WhereInv, Active, Saving, Save
<1>5. SavedInv'
  <2> DEFINE q == Request(running)
  <2>1. running \in Made /\ q \in Requests /\ Method(running) = "GET" /\ Saving
    BY <1>a, TaskTyped DEF WhereInv, Saving, Save
  <2>2. /\ cache[q] # NULL
        /\ value[running].version \in Nat /\ value[running].version >= floor[Function(q)]
    BY <1>a, <2>1 DEF SavedInv, AnsweredInv
  <2>3. ~Saving' /\ cache' = cache /\ floor' = floor
    BY <1>a DEF PlaceType, Saving, Active, Save
  <2>4. ASSUME NEW r \in saved'
        PROVE  cache[r] # NULL /\ disk'[r] # NULL /\ disk'[r] >= floor[Function(r)]
    <3>1. CASE r = q /\ DevelMode /\ ~IsFan(q)
      BY <1>a, <2>1, <2>2, <3>1 DEF StoreType, Save
    <3>2. CASE r # q \/ ~(DevelMode /\ ~IsFan(q))
      <4>1. r \in saved /\ disk'[r] = disk[r]
        BY <1>a, <2>1, <2>4, <3>2 DEF StoreType, Save
      <4> QED
        BY <1>a, <4>1 DEF SavedInv, SavedIsFresh
    <3> QED
      BY <3>1, <3>2
  <2> QED
    BY <2>3, <2>4 DEF SavedInv, SavedIsFresh
<1>6. PlainInv'
  BY <1>a, <1>b DEF PlainInv, StoreType, ResultType, CacheInv, ApartInv, Unknown, Asking,
     AnsweredInv, LoadInv, Loading, PlaceType, QueueType, WhereInv, Active, Saving, Save
<1> QED
  BY <1>1, <1>2, <1>3, <1>4, <1>5, <1>6 DEF FreshInv

LEMMA TaskCallbackFresh ==
    ASSUME ResultsInv, FreshInv, TaskCallback
    PROVE  FreshInv'
<1> USE ProcAssumption, BoundAssumption
    DEF queueVars, storeVars, resultVars, serverVars, localVars, Goto, Procs, Labels, PushLabels
<1>a. /\ MadeType /\ QueueType /\ StoreType /\ ResultType /\ ServerType /\ PlaceType /\ EndType
      /\ WhereInv /\ AnswerInv /\ CacheInv /\ ApartInv /\ CountInv
      /\ FloorInv /\ FetchedIsFresh /\ AnsweredInv /\ LoadInv /\ SavedInv /\ PlainInv
  BY Parts DEF ResultsInv, FreshInv
<1>b. Made \subseteq TaskIds /\ \A r \in Requests : Function(r) \in Functions
  BY <1>a, Counted DEF Functions
<1>1. FloorInv'
  BY <1>a, <1>b DEF FloorInv, ServerType, TaskCallback, Queue!End
<1>2. FetchedIsFresh'
  BY <1>a, <1>b DEF FetchedIsFresh, CacheInv, ApartInv, Unknown, Asking, StoreType, ResultType,
     AnsweredInv, LoadInv, Loading, PlaceType, QueueType, WhereInv, Active, Saving,
     TaskCallback, Queue!End
<1>3. AnsweredInv'
  BY <1>a, <1>b DEF AnsweredInv, ResultType, ApartInv, Asking, Made, Method, Request, MadeType,
     PlaceType, QueueType, WhereInv, Active, Saving, TaskCallback, Queue!End
<1>4. LoadInv'
  BY <1>a, <1>b DEF LoadInv, Loading, ResultType, ApartInv, Asking, PlaceType, QueueType,
     WhereInv, Active, Saving, TaskCallback, Queue!End
<1>5. SavedInv'
  BY <1>a, <1>b DEF SavedInv, SavedIsFresh, StoreType, ApartInv, AnswerInv, Made, Method,
     Request, MadeType, PlaceType, QueueType, WhereInv, Active, Saving, TaskCallback, Queue!End
<1>6. PlainInv'
  BY <1>a, <1>b DEF PlainInv, StoreType, ResultType, CacheInv, ApartInv, Unknown, Asking,
     AnsweredInv, LoadInv, Loading, PlaceType, QueueType, WhereInv, Active, Saving,
     TaskCallback, Queue!End
<1> QED
  BY <1>1, <1>2, <1>3, <1>4, <1>5, <1>6 DEF FreshInv

LEMMA PushFresh ==
    ASSUME ResultsInv, FreshInv, NEW task \in Tasks, Push(task)
    PROVE  FreshInv'
<1> USE ProcAssumption, BoundAssumption
    DEF queueVars, storeVars, resultVars, serverVars, localVars, Goto, Procs, Labels, PushLabels
<1>a. /\ MadeType /\ QueueType /\ StoreType /\ ResultType /\ ServerType /\ PlaceType /\ EndType
      /\ WhereInv /\ AnswerInv /\ CacheInv /\ ApartInv /\ CountInv
      /\ FloorInv /\ FetchedIsFresh /\ AnsweredInv /\ LoadInv /\ SavedInv /\ PlainInv
  BY Parts DEF ResultsInv, FreshInv
<1>b. Made \subseteq TaskIds /\ \A r \in Requests : Function(r) \in Functions
  BY <1>a, Counted DEF Functions
<1>1. FloorInv'
  BY <1>a, <1>b DEF FloorInv, ServerType, Push
<1>2. FetchedIsFresh'
  BY <1>a, <1>b DEF FetchedIsFresh, CacheInv, ApartInv, Unknown, Asking, StoreType, ResultType,
     AnsweredInv, LoadInv, Loading, PlaceType, QueueType, WhereInv, Active, Saving, Push
<1>3. AnsweredInv'
  BY <1>a, <1>b DEF AnsweredInv, ResultType, ApartInv, Asking, Made, Method, Request, MadeType,
     PlaceType, QueueType, WhereInv, Active, Saving, Push
<1>4. LoadInv'
  BY <1>a, <1>b DEF LoadInv, Loading, ResultType, ApartInv, Asking, PlaceType, QueueType,
     WhereInv, Active, Saving, Push
<1>5. SavedInv'
  BY <1>a, <1>b DEF SavedInv, SavedIsFresh, StoreType, ApartInv, AnswerInv, Made, Method,
     Request, MadeType, PlaceType, QueueType, WhereInv, Active, Saving, Push
<1>6. PlainInv'
  BY <1>a, <1>b DEF PlainInv, StoreType, ResultType, CacheInv, ApartInv, Unknown, Asking,
     AnsweredInv, LoadInv, Loading, PlaceType, QueueType, WhereInv, Active, Saving, Push
<1> QED
  BY <1>1, <1>2, <1>3, <1>4, <1>5, <1>6 DEF FreshInv

LEMMA AddLoadedFresh ==
    ASSUME ResultsInv, FreshInv, NEW p \in Procs, AddLoaded(p)
    PROVE  FreshInv'
<1> USE ProcAssumption, BoundAssumption
    DEF queueVars, storeVars, resultVars, serverVars, localVars, Goto, Procs, Labels, PushLabels
<1>a. /\ MadeType /\ QueueType /\ StoreType /\ ResultType /\ ServerType /\ PlaceType /\ EndType
      /\ WhereInv /\ AnswerInv /\ CacheInv /\ ApartInv /\ CountInv
      /\ FloorInv /\ FetchedIsFresh /\ AnsweredInv /\ LoadInv /\ SavedInv /\ PlainInv
  BY Parts DEF ResultsInv, FreshInv
<1>b. Made \subseteq TaskIds /\ \A r \in Requests : Function(r) \in Functions
  BY <1>a, Counted DEF Functions
<1>c. /\ Asks(pushed[p]) /\ Added(pushed[p])
      /\ pc[p] = "add" /\ GoesOn(p, IF p = Main THEN "idle" ELSE cont)
  BY AddLoadedDoes
<1>d. cont' = cont /\ UNCHANGED <<queueVars, disk, saved, value, serverVars>>
  BY AddLoadedDoes
<1>1. FloorInv'
  BY <1>a, <1>b, <1>c, <1>d DEF FloorInv, ServerType, GoesOn, Grows, Added, Asks
<1>2. FetchedIsFresh'
  <2>1. value' = value /\ floor' = floor
    BY <1>d
  <2>2. value[pushed[p]].from = "file"
    BY <1>a, <1>c DEF LoadInv, Loading
  <2> SUFFICES ASSUME NEW r \in Requests, cache'[r] # NULL, value[cache'[r]].from = "net"
               PROVE  value[cache'[r]].version >= floor[Function(r)]
    BY <2>1 DEF FetchedIsFresh
  <2>3. cache'[r] = cache[r]
    BY <1>c, <2>2 DEF Added
  <2> QED
    BY <1>a, <2>3 DEF FetchedIsFresh
<1>3. AnsweredInv'
  BY SMTT(30), <1>a, <1>b, <1>c, <1>d
    DEF AnsweredInv, ResultType, ApartInv, Asking, Made, Method,
     Request, MadeType, PlaceType, QueueType, WhereInv, Active, Saving, GoesOn, Grows, Added,
     Asks
<1>4. LoadInv'
  BY SMTT(30), <1>a, <1>b, <1>c, <1>d
    DEF LoadInv, Loading, ResultType, ApartInv, Asking, PlaceType,
     QueueType, WhereInv, Active, Saving, GoesOn, Grows, Added, Asks
<1>5. SavedInv'
  <2>1. \A r \in Requests : cache[r] # NULL => cache'[r] # NULL
    BY <1>c DEF Added, Asks
  <2>2. SavedIsFresh'
    BY <1>a, <1>d, <2>1 DEF SavedInv, SavedIsFresh, StoreType
  <2>3. ASSUME Saving'
        PROVE  Saving
    <3>1. CASE p = Main
      BY <1>a, <1>c, <1>d, <2>3, <3>1 DEF PlaceType, Saving, Active, GoesOn
    <3>2. CASE p = Worker
      BY <1>a, <1>c, <1>d, <2>3, <3>2 DEF PlaceType, WhereInv, Saving, Active, GoesOn
    <3> QED
      BY <3>1, <3>2
  <2>4. ASSUME Saving
        PROVE  cache'[Request(running)'] # NULL
    <3>1. running \in Made /\ Request(running) \in Requests
      BY <1>a, <2>4, TaskTyped DEF WhereInv, Saving, Active
    <3>2. Request(running)' = Request(running)
      BY <1>c, <1>d, <3>1 DEF GoesOn, Grows, Request
    <3> QED
      BY <1>a, <2>1, <2>4, <3>1, <3>2 DEF SavedInv
  <2> QED
    BY <2>2, <2>3, <2>4 DEF SavedInv
<1>6. PlainInv'
  BY <1>a, <1>b, <1>c, <1>d DEF PlainInv, StoreType, ResultType, CacheInv, ApartInv, Unknown,
     Asking, AnsweredInv, LoadInv, Loading, PlaceType, QueueType, WhereInv, Active, Saving,
     GoesOn, Grows, Added, Asks
<1> QED
  BY <1>1, <1>2, <1>3, <1>4, <1>5, <1>6 DEF FreshInv

LEMMA FuncFindsFresh ==
    ASSUME ResultsInv, FreshInv, FuncFinds
    PROVE  FreshInv'
<1> USE ProcAssumption, BoundAssumption
    DEF queueVars, storeVars, resultVars, serverVars, localVars, Goto, Procs, Labels, PushLabels
<1>a. /\ MadeType /\ QueueType /\ StoreType /\ ResultType /\ ServerType /\ PlaceType /\ EndType
      /\ WhereInv /\ AnswerInv /\ CacheInv /\ ApartInv /\ CountInv
      /\ FloorInv /\ FetchedIsFresh /\ AnsweredInv /\ LoadInv /\ SavedInv /\ PlainInv
  BY Parts DEF ResultsInv, FreshInv
<1>b. Made \subseteq TaskIds /\ \A r \in Requests : Function(r) \in Functions
  BY <1>a, Counted DEF Functions
<1>c. pc[Worker] = "func" /\ GoesOn(Worker, "ref") /\ cont' = "ref"
  BY FuncFindsDoes
<1>d. UNCHANGED <<queueVars, storeVars, resultVars, serverVars>>
  BY FuncFindsDoes
<1>1. FloorInv'
  BY <1>a, <1>b, <1>c, <1>d DEF FloorInv, ServerType, GoesOn, Grows, Asks
<1>2. FetchedIsFresh'
  BY <1>a, <1>b, <1>c, <1>d DEF FetchedIsFresh, CacheInv, ApartInv, Unknown, Asking, StoreType,
     ResultType, AnsweredInv, LoadInv, Loading, PlaceType, QueueType, WhereInv, Active, Saving,
     GoesOn, Grows, Asks
<1>3. AnsweredInv'
  BY <1>a, <1>b, <1>c, <1>d DEF AnsweredInv, ResultType, ApartInv, Asking, Made, Method,
     Request, MadeType, PlaceType, QueueType, WhereInv, Active, Saving, GoesOn, Grows, Asks
<1>4. LoadInv'
  BY <1>a, <1>b, <1>c, <1>d DEF LoadInv, Loading, ResultType, ApartInv, Asking, PlaceType,
     QueueType, WhereInv, Active, Saving, GoesOn, Grows, Asks
<1>5. SavedInv'
  BY <1>a, <1>b, <1>c, <1>d DEF SavedInv, SavedIsFresh, StoreType, ApartInv, AnswerInv, Made,
     Method, Request, MadeType, PlaceType, QueueType, WhereInv, Active, Saving, GoesOn, Grows,
     Asks
<1>6. PlainInv'
  BY <1>a, <1>b, <1>c, <1>d DEF PlainInv, StoreType, ResultType, CacheInv, ApartInv, Unknown,
     Asking, AnsweredInv, LoadInv, Loading, PlaceType, QueueType, WhereInv, Active, Saving,
     GoesOn, Grows, Asks
<1> QED
  BY <1>1, <1>2, <1>3, <1>4, <1>5, <1>6 DEF FreshInv

LEMMA AddAnswerFresh ==
    ASSUME ResultsInv, FreshInv, AddAnswer
    PROVE  FreshInv'
<1> USE ProcAssumption, BoundAssumption
    DEF queueVars, storeVars, resultVars, serverVars, localVars, Goto, Procs, Labels, PushLabels
<1>a. /\ MadeType /\ QueueType /\ StoreType /\ ResultType /\ ServerType /\ PlaceType /\ EndType
      /\ WhereInv /\ AnswerInv /\ CacheInv /\ ApartInv /\ CountInv
      /\ FloorInv /\ FetchedIsFresh /\ AnsweredInv /\ LoadInv /\ SavedInv /\ PlainInv
  BY Parts DEF ResultsInv, FreshInv
<1>b. Made \subseteq TaskIds /\ \A r \in Requests : Function(r) \in Functions
  BY <1>a, Counted DEF Functions
<1>c. Asks(running) /\ Added(running) /\ pc[Worker] = "proxyadd" /\ GoesOn(Worker, "save")
  BY AddAnswerDoes
<1>d. cont' = "save" /\ UNCHANGED <<queueVars, disk, saved, value, serverVars>>
  BY AddAnswerDoes
<1>1. FloorInv'
  BY <1>a, <1>b, <1>c, <1>d DEF FloorInv, ServerType, GoesOn, Grows, Added, Asks
<1>2. FetchedIsFresh'
  BY <1>a, <1>b, <1>c, <1>d DEF FetchedIsFresh, CacheInv, ApartInv, Unknown, Asking, StoreType,
     ResultType, AnsweredInv, LoadInv, Loading, PlaceType, QueueType, WhereInv, Active, Saving,
     GoesOn, Grows, Added, Asks
<1>3. AnsweredInv'
  BY <1>a, <1>b, <1>c, <1>d DEF AnsweredInv, ResultType, ApartInv, Asking, Made, Method,
     Request, MadeType, PlaceType, QueueType, WhereInv, Active, Saving, GoesOn, Grows, Added,
     Asks
<1>4. LoadInv'
  BY SMTT(30), <1>a, <1>b, <1>c, <1>d
    DEF LoadInv, Loading, ResultType, ApartInv, Asking, PlaceType,
     QueueType, WhereInv, Active, Saving, GoesOn, Grows, Added, Asks
<1>5. SavedInv'
  BY <1>a, <1>b, <1>c, <1>d DEF SavedInv, SavedIsFresh, StoreType, ApartInv, AnswerInv, Made,
     Method, Request, MadeType, PlaceType, QueueType, WhereInv, Active, Saving, GoesOn, Grows,
     Added, Asks
<1>6. PlainInv'
  BY <1>a, <1>b, <1>c, <1>d DEF PlainInv, StoreType, ResultType, CacheInv, ApartInv, Unknown,
     Asking, AnsweredInv, LoadInv, Loading, PlaceType, QueueType, WhereInv, Active, Saving,
     GoesOn, Grows, Added, Asks
<1> QED
  BY <1>1, <1>2, <1>3, <1>4, <1>5, <1>6 DEF FreshInv

-----------------------------------------------------------------------------
(***************************************************************************)
(* Every reachable state.                                                  *)
(***************************************************************************)

LEMMA InitHolds ==
    ASSUME Init
    PROVE  ResultsInv /\ FreshInv
<1> USE ProcAssumption, BoundAssumption DEF Init, Procs, Labels, PushLabels
<1>1. TypeOK
  <2>1. MadeType
    BY EmptySeq DEF MadeType
  <2>2. QueueType /\ ResultType /\ ServerType /\ PlaceType /\ EndType
    BY DEF QueueType, ResultType, ServerType, PlaceType, EndType
  <2>3. StoreType
    BY DEF StoreType
  <2> QED
    BY <2>1, <2>2, <2>3, Parts
<1>2. WhereInv /\ AnswerInv /\ CacheInv
  BY DEF WhereInv, AnswerInv, CacheInv, Active, Saving
<1>3. ApartInv
  BY DEF ApartInv, Unknown, Asking
<1>4. CountInv
  BY DEF CountInv, Holding, Saving, Active
<1>5. FloorInv /\ FetchedIsFresh /\ SavedInv /\ PlainInv
  BY DEF FloorInv, FetchedIsFresh, SavedInv, SavedIsFresh, PlainInv, Saving, Active
<1>6. AnsweredInv /\ LoadInv
  BY DEF AnsweredInv, LoadInv, Loading, Saving, Active
<1> QED
  BY <1>1, <1>2, <1>3, <1>4, <1>5, <1>6 DEF ResultsInv, FreshInv

LEMMA StepKeeps ==
    ASSUME ResultsInv, FreshInv, Next
    PROVE  ResultsInv' /\ FreshInv'
<1>1. CASE Client
  <2>1. PICK task \in Tasks : Push(task)
    <3>1. CASE \E r \in Requests : Get(r)
      <4>1. PICK r \in Requests : Get(r)
        BY <3>1
      <4>2. [method |-> "GET", request |-> r, priority |-> NORMAL, callback |-> TRUE] \in Tasks
        BY DEF Tasks
      <4> QED
        BY <4>1, <4>2 DEF Get
    <3>2. CASE \E r \in Requests : Preload(r)
      <4>1. PICK r \in Requests : Preload(r)
        BY <3>2
      <4>2. [method |-> "GET", request |-> r, priority |-> PRELOAD, callback |-> FALSE]
              \in Tasks
        BY DEF Tasks
      <4> QED
        BY <4>1, <4>2 DEF Preload
    <3>3. CASE \E q \in Posts : Post(q)
      <4>1. PICK q \in Posts : Post(q)
        BY <3>3
      <4>2. [method |-> "POST", request |-> q, priority |-> NORMAL, callback |-> TRUE] \in Tasks
        BY DEF Tasks
      <4> QED
        BY <4>1, <4>2 DEF Post
    <3> QED
      BY <1>1, <3>1, <3>2, <3>3 DEF Client
  <2> QED
    BY <2>1, PushKeeps, PushFresh
<1>2. ASSUME NEW p \in Procs, PushStep(p)
      PROVE  ResultsInv' /\ FreshInv'
  <2>1. CASE Find(p) \/ UseHit(p) \/ UseFreed(p)
    BY <2>1, FindKeeps, FindFresh, UseHitKeeps, UseHitFresh, UseFreedKeeps, UseFreedFresh
  <2>2. CASE ReadDisk(p) \/ UseLoaded(p)
    BY <2>2, ReadDiskKeeps, ReadDiskFresh, UseLoadedKeeps, UseLoadedFresh
  <2>3. CASE AddLoaded(p) \/ PushOut(p)
    BY <2>3, AddLoadedKeeps, AddLoadedFresh, PushOutKeeps, PushOutFresh
  <2> QED
    BY <1>2, <2>1, <2>2, <2>3 DEF PushStep
<1>3. CASE WorkerStep
  <2>1. CASE Take \/ FuncFinds \/ FuncMisses
    BY <2>1, TakeKeeps, TakeFresh, FuncFindsKeeps, FuncFindsFresh, FuncMissesKeeps,
       FuncMissesFresh
  <2>2. CASE Ref \/ RefFreed
    BY <2>2, RefKeeps, RefFresh, RefFreedKeeps, RefFreedFresh
  <2>3. CASE CallFails \/ CallRefused \/ CallAnswered
    BY <2>3, CallFailsKeeps, CallFailsFresh, CallRefusedKeeps, CallRefusedFresh,
       CallAnsweredKeeps, CallAnsweredFresh
  <2>4. CASE AddAnswer \/ Save
    BY <2>4, AddAnswerKeeps, AddAnswerFresh, SaveKeeps, SaveFresh
  <2>5. CASE Refresh \/ RefreshUnknown
    BY <2>5, RefreshKeeps, RefreshFresh, RefreshUnknownKeeps, RefreshUnknownFresh
  <2>6. CASE TaskCallback
    BY <2>6, TaskCallbackKeeps, TaskCallbackFresh
  <2> QED
    BY <1>3, <2>1, <2>2, <2>3, <2>4, <2>5, <2>6 DEF WorkerStep
<1> QED
  BY <1>1, <1>2, <1>3 DEF Next, Procs

LEMMA StutterKeeps ==
    ASSUME ResultsInv, FreshInv, UNCHANGED vars
    PROVE  ResultsInv' /\ FreshInv'
<1> USE DEF vars, queueVars, storeVars, resultVars, serverVars, localVars
<1>1. TypeOK'
  BY DEF ResultsInv, TypeOK
<1>2. WhereInv' /\ AnswerInv' /\ CacheInv'
  BY DEF ResultsInv, WhereInv, AnswerInv, CacheInv, Active, Saving, Made, Method, Request
<1>3. ApartInv' /\ CountInv'
  BY DEF ResultsInv, ApartInv, CountInv, Unknown, Asking, Holding, Saving, Active
<1>4. FloorInv' /\ FetchedIsFresh' /\ AnsweredInv'
  BY DEF FreshInv, FloorInv, FetchedIsFresh, AnsweredInv, Saving, Active, Method, Request
<1>5. LoadInv' /\ SavedInv' /\ PlainInv'
  BY DEF FreshInv, LoadInv, SavedInv, SavedIsFresh, PlainInv, Loading, Saving, Active, Request
<1> QED
  BY <1>1, <1>2, <1>3, <1>4, <1>5 DEF ResultsInv, FreshInv

LEMMA Always == Spec => [](ResultsInv /\ FreshInv)
<1>1. Init => ResultsInv /\ FreshInv
  BY InitHolds
<1>2. ResultsInv /\ FreshInv /\ [Next]_vars => ResultsInv' /\ FreshInv'
  BY StepKeeps, StutterKeeps
<1> QED
  BY <1>1, <1>2, PTL DEF Spec

\* Every variable keeps its type.
THEOREM TypeCorrect == Spec => []TypeOK
<1>1. ResultsInv => TypeOK
  BY DEF ResultsInv
<1> QED
  BY <1>1, Always, PTL

\* The table has no freed results (proxy_data_new's reference), and the results
\* the worker stores, saves and calls back with are referenced (async_func's),
\* whatever gnome_app_task_push replaces in the table meanwhile.
THEOREM NothingDangles == Spec => []NoDangling
<1>1. ResultsInv => NoDangling
  <2> SUFFICES ASSUME ResultsInv
               PROVE  NoDangling
    OBVIOUS
  <2>1. PlaceType /\ ResultType /\ StoreType /\ CountInv
    BY Parts DEF ResultsInv
  <2>2. ASSUME NEW r \in Requests, cache[r] # NULL
        PROVE  refs[cache[r]] > 0
    <3>1. cache[r] \in TaskIds /\ refs[cache[r]] \in Nat /\ refs[cache[r]] >= 1
      BY <2>1, <2>2 DEF StoreType, ResultType, CountInv
    <3> QED
      BY <3>1
  <2>3. ASSUME pc[Worker] \in {"proxyadd", "save", "callback"}, answer # NULL
        PROVE  refs[answer] > 0
    <3>1. answer \in TaskIds /\ refs[answer] \in Nat /\ refs[answer] >= 1
      BY <2>1, <2>3 DEF PlaceType, ResultType, CountInv, Holding, Saving
    <3> QED
      BY <3>1
  <2> QED
    BY <2>2, <2>3 DEF NoDangling
<1> QED
  BY <1>1, Always, PTL

\* After a POST no answer fetched before it is given out again: refresh_by_function
\* has removed the entries, and the worker stores no answer it got before.
THEOREM FetchedFresh == Spec => []FetchedIsFresh
<1>1. FreshInv => FetchedIsFresh
  BY DEF FreshInv
<1> QED
  BY <1>1, Always, PTL

\* The files written by this process are those of the table's entries, so that
\* the refresh which goes through the table misses none of them.
THEOREM SavedFresh == Spec => []SavedIsFresh
<1>1. FreshInv => SavedIsFresh
  BY DEF FreshInv, SavedInv
<1> QED
  BY <1>1, Always, PTL

\* "If we POST, refresh the relevant cached data" (gnome-app-proxy.c:249) holds of
\* a build without DEVEL_MODE.
THEOREM ReleaseRefreshes == ASSUME ~DevelMode PROVE Spec => []PostRefreshesCache
<1>1. FreshInv => PostRefreshesCache
  BY DEF FreshInv, FetchedIsFresh, PlainInv, PostRefreshesCache
<1> QED
  BY <1>1, Always, PTL

=============================================================================
