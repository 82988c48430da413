-------------------------- MODULE MessageLoopProofs -------------------------
(***************************************************************************)
(* Theorems about the message loops on top of the table of task queues,    *)
(* for any number of threads, clients, observers, tasks and times: a task  *)
(* runs on a thread that its runner knows, no removed observer is called,  *)
(* and two threads serve one queue only while it is being merged.          *)
(***************************************************************************)
EXTENDS MessageLoop, TaskQueueProofs

\* The provers of a leaf that names none, in the order they are tried.
USE SMT, Zenon, Z3T(30), SMTT(60)

-----------------------------------------------------------------------------
(* The loops work on the table through its methods.                        *)

Invocation == [queue : QueueId, task : Task]

\* The types of the variables that the invariants of the loops depend on.
LoopTypeOK ==
    /\ pc \in [QueueId -> LoopState]
    /\ now \in Time /\ flush_now \in [QueueId -> Time]
    /\ running \cup terminated \cup leaving \cup joining \subseteq QueueId
    /\ invocation \in [QueueId -> Invocation \cup {NoTask}]
    /\ to_notify \in [QueueId -> SUBSET (QueueId \X ObserverKey)]
    /\ merged_by \in [QueueId -> Nat \cup {-1}]
    /\ \A t \in QueueId :
          /\ pc[t] \in {"invoking", "observing"} => invocation[t] # NoTask
          /\ invocation[t] # NoTask => pc[t] \in {"flushing", "invoking", "observing"}

\* Terminate wakes its own loop, at once; no other call by-passes the table.
WakeNow ==
    /\ \E t \in QueueId : wake' = [wake EXCEPT ![t] = now]
    /\ UNCHANGED <<entryVars, mergeVars, countVars, source, fired>>

\* Every step of the loops, their tasks and their clients is a step of the table.
LEMMA TableStep ==
    ASSUME TypeOK, LoopTypeOK, [LoopNext]_vars
    PROVE  [Next]_queueVars \/ WakeNow
<1>1. ASSUME NEW t \in QueueId, LoopThread(t) \/ DestroyLoop(t) PROVE Next \/ UNCHANGED queueVars \/ WakeNow
  <2>1. flush_now[t] \in Time
    BY DEF LoopTypeOK
  <2>2. CASE ConstructQueue(t) \/ ConstructWakeable(t) \/ OnEventFired(t) \/ DropPending(t) \/ DestroyLoop(t)
    BY <2>2 DEF ConstructQueue, ConstructWakeable, OnEventFired, DropPending, DestroyLoop, Next
  <2>3. CASE FlushNext(t) \/ FlushEnds(t)
    BY <2>1, <2>3 DEF FlushNext, FlushEnds, Next
  <2>4. CASE Invoked(t)
    BY <2>4 DEF Invoked, WakeNow
  <2>5. CASE EnterRun(t) \/ LeaveRun(t) \/ Observed(t) \/ \E o \in to_notify[t] : NotifyObserver(t, o)
    BY <2>5 DEF EnterRun, LeaveRun, Observed, NotifyObserver
  <2> QED BY <1>1, <2>2, <2>3, <2>4, <2>5 DEF LoopThread
<1>2. ASSUME NEW t \in QueueId, NEW k \in ObserverKey,
             TaskAddsObserver(t, k) \/ \E q \in QueueId : TaskRemovesObserver(t, q, k)
      PROVE  Next
  BY <1>2 DEF TaskAddsObserver, TaskRemovesObserver, Next
<1>3. ASSUME NEW p \in QueueId, NEW q \in QueueId, TaskMerges(p, q) \/ TaskUnmerges(p, q)
      PROVE  Next
  BY <1>3 DEF TaskMerges, TaskUnmerges, Next
<1>4. ASSUME NEW c \in Client,
             \/ \E q \in QueueId : PostTask(c, q) \/ Join(c, q)
             \/ \E time \in Time : PostTaskRegister(c, time)
      PROVE  Next \/ UNCHANGED queueVars
  <2>1. CASE \E q \in QueueId : PostTask(c, q) \/ Join(c, q)
    BY <2>1 DEF PostTask, Join
  <2>2. ASSUME NEW time \in Time, PostTaskRegister(c, time) PROVE Next
    <3>1. RegisterTask(posting[c].queue, time, "kUnspecified")
      BY <2>2 DEF PostTaskRegister
    <3>2. posting[c].queue \in QueueId /\ "kUnspecified" \in TaskSourceGrade
      BY <3>1 DEF RegisterTask, TypeOK, TaskSourceGrade
    <3> QED BY <3>1, <3>2 DEF Next
  <2> QED BY <1>4, <2>1, <2>2
<1>5. Tick \/ UNCHANGED vars => UNCHANGED queueVars
  BY DEF Tick, vars
<1> QED BY <1>1, <1>2, <1>3, <1>4, <1>5 DEF LoopNext

\* So the table keeps its invariants.
LEMMA TableKept ==
    ASSUME TypeOK, MergeInvariant, LoopTypeOK, [LoopNext]_vars
    PROVE  TypeOK' /\ MergeInvariant'
<1>1. CASE [Next]_queueVars
  BY <1>1, TypeStep, MergeStep
<1>2. CASE WakeNow
  BY <1>2 DEF WakeNow, TypeOK, MergeInvariant, LoopTypeOK, IsSubsumed, entryVars, mergeVars, countVars
<1> QED BY <1>1, <1>2, TableStep

\* FlushTasks is handed a task of a queue that its loop serves.
LEMMA PeekTyped ==
    ASSUME TypeOK, NEW t \in QueueId, HasPendingTasksUnlocked(t)
    PROVE  /\ PeekNextTaskUnlocked(t) \in Invocation
           /\ PeekNextTaskUnlocked(t).queue \in Group(t)
<1>1. SourcesOK
  BY DEF TypeOK, SourcesOK
<1> QED BY <1>1, PeekEarliest DEF PeekFindsEarliest, Invocation

\* The observers to notify are observers of the group.
LEMMA ObserversTyped ==
    ASSUME TypeOK, NEW t \in QueueId
    PROVE  /\ GetObserversToNotify(t) \in SUBSET (QueueId \X ObserverKey)
           /\ \A o \in GetObserversToNotify(t) :
                 ~IsSubsumed(t) /\ o[1] \in Group(t) /\ o[2] \in observers[o[1]]
<1>1. Group(t) \subseteq QueueId
  BY DEF TypeOK, Group
<1>2. ASSUME NEW o \in GetObserversToNotify(t)
      PROVE  ~IsSubsumed(t) /\ \E r \in Group(t) : \E k \in observers[r] : o = <<r, k>>
  BY <1>2 DEF GetObserversToNotify
<1>3. \A r \in QueueId : observers[r] \subseteq ObserverKey
  BY DEF TypeOK
<1> QED BY <1>1, <1>2, <1>3

\* Each step of a loop changes the loop's own variables only.
LEMMA LoopTypeStep ==
    ASSUME TypeOK, LoopTypeOK, [LoopNext]_vars
    PROVE  LoopTypeOK'
<1>1. ASSUME NEW t \in QueueId, LoopThread(t) PROVE LoopTypeOK'
  <2>1. CASE ConstructQueue(t) \/ ConstructWakeable(t) \/ EnterRun(t)
    BY <2>1 DEF ConstructQueue, ConstructWakeable, EnterRun, LoopTypeOK, LoopState, clientVars, envVars
  <2>2. CASE OnEventFired(t) \/ LeaveRun(t)
    BY <2>2 DEF OnEventFired, LeaveRun, LoopTypeOK, LoopState, clientVars, envVars
  <2>3. CASE FlushNext(t)
    <3>1. PeekNextTaskUnlocked(t) \in Invocation
      BY <2>3, PeekTyped DEF FlushNext, TakeNextTask
    <3>2. PeekNextTaskUnlocked(t) # NoTask
      BY <3>1, LoopAssumption DEF Invocation
    <3> QED BY <2>3, <3>1, <3>2 DEF FlushNext, LoopTypeOK, LoopState, clientVars, envVars
  <2>4. CASE FlushEnds(t)
    BY <2>4 DEF FlushEnds, LoopTypeOK, LoopState, clientVars, envVars
  <2>5. CASE Invoked(t)
    <3>1. GetObserversToNotify(t) \in SUBSET (QueueId \X ObserverKey)
      BY ObserversTyped
    <3>2. running' \subseteq running /\ terminated' \subseteq terminated \cup {t}
      BY <2>5 DEF Invoked
    <3> QED BY <2>5, <3>1, <3>2 DEF Invoked, LoopTypeOK, LoopState, clientVars, envVars
  <2>6. CASE Observed(t) \/ DropPending(t) \/ \E o \in to_notify[t] : NotifyObserver(t, o)
    BY <2>6 DEF Observed, DropPending, NotifyObserver, LoopTypeOK, LoopState, clientVars, envVars
  <2> QED BY <1>1, <2>1, <2>2, <2>3, <2>4, <2>5, <2>6 DEF LoopThread
<1>2. ASSUME NEW p \in QueueId, NEW q \in QueueId, TaskMerges(p, q) PROVE LoopTypeOK'
  <2>1. invocation[q] \in Invocation
    BY <1>2, QueueAssumption DEF TaskMerges, Running, LoopTypeOK
  <2>2. invocation[q].task.closure \in Nat
    BY <2>1 DEF Invocation, Task
  <2> QED BY <1>2, <2>2 DEF TaskMerges, LoopTypeOK, loopVars, clientVars
<1>3. ASSUME NEW c \in Client, NEW q \in QueueId, PostTask(c, q) \/ Join(c, q) PROVE LoopTypeOK'
  BY <1>3 DEF PostTask, Join, LoopTypeOK, loopVars, envVars
<1>4. Tick => LoopTypeOK'
  BY DEF Tick, LoopTypeOK, loopVars, clientVars, envVars
<1>5. ASSUME UNCHANGED <<loopVars, joining, now, envVars>> PROVE LoopTypeOK'
  BY <1>5 DEF LoopTypeOK, loopVars, envVars
<1>6. ASSUME \/ \E t \in QueueId : DestroyLoop(t)
             \/ \E t \in QueueId, k \in ObserverKey :
                   TaskAddsObserver(t, k) \/ \E q \in QueueId : TaskRemovesObserver(t, q, k)
             \/ \E p, q \in QueueId : TaskUnmerges(p, q)
             \/ \E c \in Client, time \in Time : PostTaskRegister(c, time)
             \/ UNCHANGED vars
      PROVE  LoopTypeOK'
  BY <1>5, <1>6 DEF DestroyLoop, TaskAddsObserver, TaskRemovesObserver, TaskUnmerges,
                    PostTaskRegister, vars, clientVars
<1> QED BY <1>1, <1>2, <1>3, <1>4, <1>6 DEF LoopNext

-----------------------------------------------------------------------------
(* What runs on a thread is served by its loop.                            *)

\* A loop invokes the tasks of its group only, unless the task itself has merged
\* the loop's queue away; and it notifies observers of its group, which it serves
\* until all of them are notified.
Served(t) ==
    /\ pc[t] = "invoking" =>
          /\ invocation[t].queue \in Group(t)
          /\ IsSubsumed(t) => merged_by[t] = invocation[t].task.closure
    /\ \A o \in to_notify[t] :
          /\ pc[t] = "observing" /\ ~IsSubsumed(t)
          /\ o[1] \in Group(t) /\ o[2] \in observers[o[1]]

LoopServes == \A t \in QueueId : Served(t)

\* A thread that a step does not concern serves as before: its group may grow,
\* and the queues of its group may get observers.
LEMMA StillServed ==
    ASSUME NEW t \in QueueId, Served(t), pc'[t] = pc[t], invocation'[t] = invocation[t],
           to_notify'[t] \subseteq to_notify[t], merged_by'[t] = merged_by[t],
           IsSubsumed(t)' = IsSubsumed(t), owner_of[t] \subseteq owner_of'[t],
           \A o \in to_notify[t] : observers[o[1]] \subseteq observers'[o[1]]
    PROVE  Served(t)'
BY DEF Served, Group

\* The loop threads leave the merges and the observers alone, and each other too.
LEMMA LoopThreadLocal ==
    ASSUME TypeOK, LoopTypeOK, NEW t \in QueueId, LoopThread(t)
    PROVE  /\ UNCHANGED <<mergeVars, observers, merged_by>>
           /\ \A u \in QueueId \ {t} : /\ pc'[u] = pc[u] /\ invocation'[u] = invocation[u]
                                      /\ to_notify'[u] = to_notify[u]
<1>1. CASE ConstructQueue(t) \/ ConstructWakeable(t) \/ EnterRun(t) \/ OnEventFired(t) \/ LeaveRun(t)
  BY <1>1 DEF ConstructQueue, ConstructWakeable, EnterRun, OnEventFired, LeaveRun, LoopTypeOK,
              CreateTaskQueue, SetWakeable, WakeFires, queueVars, entryVars, envVars
<1>2. CASE FlushNext(t) \/ FlushEnds(t) \/ DropPending(t)
  BY <1>2 DEF FlushNext, FlushEnds, DropPending, LoopTypeOK,
              TakeNextTask, NoTaskToRun, DisposeTasks, queueVars, entryVars, envVars
<1>3. CASE Invoked(t) \/ Observed(t) \/ \E o \in to_notify[t] : NotifyObserver(t, o)
  BY <1>3 DEF Invoked, Observed, NotifyObserver, LoopTypeOK, queueVars, entryVars, envVars
<1> QED BY <1>1, <1>2, <1>3 DEF LoopThread

LEMMA ServedByThread ==
    ASSUME TypeOK, LoopTypeOK, NEW t \in QueueId, LoopThread(t), Served(t)
    PROVE  Served(t)'
<1>1. UNCHANGED <<mergeVars, observers, merged_by>>
  BY LoopThreadLocal
<1>2. CASE \/ ConstructQueue(t) \/ ConstructWakeable(t) \/ EnterRun(t) \/ OnEventFired(t)
           \/ LeaveRun(t) \/ FlushEnds(t) \/ DropPending(t) \/ Observed(t)
  <2>1. /\ pc'[t] \notin {"invoking", "observing"} /\ to_notify'[t] = to_notify[t]
        /\ pc[t] # "observing" \/ to_notify[t] = {}
    BY <1>2 DEF ConstructQueue, ConstructWakeable, EnterRun, OnEventFired, LeaveRun, FlushEnds,
                DropPending, Observed, LoopTypeOK
  <2>2. to_notify[t] = {}
    BY <2>1, Zenon DEF Served
  <2> QED BY <2>1, <2>2 DEF Served
<1>3. CASE FlushNext(t)
  <2>1. HasPendingTasksUnlocked(t)
    BY <1>3 DEF FlushNext, TakeNextTask
  <2>2. ~IsSubsumed(t) /\ PeekNextTaskUnlocked(t).queue \in Group(t)
    BY <2>1, PeekTyped DEF HasPendingTasksUnlocked
  <2>3. pc'[t] = "invoking" /\ invocation'[t] = PeekNextTaskUnlocked(t) /\ to_notify'[t] = {}
    BY <1>3 DEF FlushNext, LoopTypeOK, Served
  <2> QED BY <1>1, <2>2, <2>3 DEF Served, Group, IsSubsumed, mergeVars
<1>4. CASE Invoked(t)
  <2>1. pc'[t] = "observing" /\ to_notify'[t] = GetObserversToNotify(t)
    BY <1>4 DEF Invoked, LoopTypeOK
  <2> QED BY <1>1, <2>1, ObserversTyped DEF Served, Group, IsSubsumed, mergeVars
<1>5. CASE \E o \in to_notify[t] : NotifyObserver(t, o)
  <2>1. /\ pc'[t] = pc[t] /\ invocation'[t] = invocation[t] /\ to_notify'[t] \subseteq to_notify[t]
    BY <1>5 DEF NotifyObserver, LoopTypeOK
  <2> QED BY <1>1, <2>1, StillServed DEF IsSubsumed, mergeVars
<1> QED BY <1>2, <1>3, <1>4, <1>5 DEF LoopThread

LEMMA ServedStep ==
    ASSUME TypeOK, MergeInvariant, LoopTypeOK, LoopServes, [LoopNext]_vars
    PROVE  LoopServes'
<1> SUFFICES ASSUME NEW t \in QueueId PROVE Served(t)'
  BY DEF LoopServes
<1>a. Served(t)
  BY DEF LoopServes
<1>1. ASSUME NEW u \in QueueId, LoopThread(u) PROVE Served(t)'
  <2>1. CASE u = t
    BY <1>1, <1>a, <2>1, ServedByThread, Zenon
  <2>2. CASE u # t
    BY <1>1, <1>a, <2>2, LoopThreadLocal, StillServed DEF IsSubsumed, mergeVars
  <2> QED BY <2>1, <2>2
<1>2. ASSUME NEW u \in QueueId, DestroyLoop(u) PROVE Served(t)'
  <2>1. /\ ~IsSubsumed(u) /\ pc[u] = "done" /\ UNCHANGED <<pc, invocation, to_notify, merged_by>>
        /\ \A r \in QueueId \ {u} : /\ owner_of'[r] = owner_of[r] /\ observers'[r] = observers[r]
                                   /\ subsumed_by'[r] = subsumed_by[r]
    BY <1>2, Zenon DEF DestroyLoop, Dispose, Group, loopVars, envVars
  <2>2. CASE u = t
    BY <1>a, <2>1, <2>2 DEF Served
  <2>3. CASE u # t
    <3>1. u \notin Group(t)
      BY <2>1, <2>3, QueueAssumption DEF MergeInvariant, Group, IsSubsumed
    <3>2. \A o \in to_notify[t] : o[1] \in QueueId \ {u}
      BY <1>a, <3>1 DEF Served, LoopTypeOK
    <3> QED BY <1>a, <2>1, <2>3, <3>2, StillServed DEF IsSubsumed
  <2> QED BY <2>2, <2>3
<1>3. ASSUME NEW u \in QueueId, NEW k \in ObserverKey, TaskAddsObserver(u, k) PROVE Served(t)'
  <2>1. /\ observers' = [observers EXCEPT ![u] = @ \cup {k}]
        /\ UNCHANGED <<pc, invocation, to_notify, merged_by, mergeVars>>
    BY <1>3, Zenon DEF TaskAddsObserver, AddTaskObserver, loopVars, envVars
  <2>2. \A o \in to_notify[t] : observers[o[1]] \subseteq observers'[o[1]]
    BY <2>1 DEF TypeOK
  <2> QED BY <1>a, <2>1, <2>2, StillServed DEF IsSubsumed, mergeVars
<1>4. ASSUME NEW u \in QueueId, NEW q \in QueueId, NEW k \in ObserverKey, TaskRemovesObserver(u, q, k)
      PROVE  Served(t)'
  <2>1. /\ pc[u] = "invoking" /\ ~IsSubsumed(u) /\ q \in Group(u)
        /\ observers' = [observers EXCEPT ![q] = @ \ {k}]
        /\ UNCHANGED <<pc, invocation, to_notify, merged_by, mergeVars>>
    BY <1>4 DEF TaskRemovesObserver, RemoveTaskObserver, loopVars, envVars
  <2>2. ASSUME NEW o \in to_notify[t] PROVE o[1] # q
    <3>1. pc[t] = "observing" /\ ~IsSubsumed(t) /\ o[1] \in Group(t)
      BY <1>a, <2>2 DEF Served
    <3>2. t # u
      BY <2>1, <3>1
    <3> QED BY <2>1, <3>1, <3>2, OneServer
  <2>3. \A o \in to_notify[t] : observers'[o[1]] = observers[o[1]]
    BY <2>1, <2>2 DEF TypeOK, LoopTypeOK
  <2> QED BY <1>a, <2>1, <2>3, StillServed DEF IsSubsumed, mergeVars
<1>5. ASSUME NEW p \in QueueId, NEW q \in QueueId, TaskMerges(p, q) PROVE Served(t)'
  <2>1. /\ pc[q] = "invoking" /\ invocation[q].queue = q
        /\ UNCHANGED <<pc, invocation, to_notify, observers>>
        /\ merged_by' = [merged_by EXCEPT ![q] = invocation[q].task.closure]
        /\ owner_of' = [owner_of EXCEPT ![p] = @ \cup {q}]
        /\ subsumed_by' = [subsumed_by EXCEPT ![q] = p]
    BY <1>5, QueueAssumption DEF TaskMerges, Running, Merge, entryVars, loopVars
  <2>2. CASE t = q
    BY <1>a, <2>1, <2>2 DEF Served, Group, LoopTypeOK
  <2>3. CASE t # q
    BY <1>a, <2>1, <2>3, StillServed DEF TypeOK, LoopTypeOK, IsSubsumed
  <2> QED BY <2>2, <2>3
<1>6. ASSUME NEW p \in QueueId, NEW q \in QueueId, TaskUnmerges(p, q) PROVE Served(t)'
  <2>1. /\ pc[p] = "invoking" /\ invocation[p].queue = p
        /\ UNCHANGED <<pc, invocation, to_notify, observers, merged_by>>
        /\ ~IsSubsumed(p) /\ IsSubsumed(q)
        /\ owner_of' = [owner_of EXCEPT ![p] = @ \ {q}]
        /\ subsumed_by' = [subsumed_by EXCEPT ![q] = kUnmerged]
    BY <1>6, QueueAssumption DEF TaskUnmerges, Running, Unmerge, CanUnmerge, entryVars, loopVars, envVars
  <2>2. p # q
    BY <2>1
  <2>3. CASE t = p
    BY <1>a, <2>1, <2>2, <2>3 DEF Served, Group, IsSubsumed, TypeOK
  <2>4. CASE t = q
    BY <1>a, <2>1, <2>2, <2>4 DEF Served, Group, IsSubsumed, TypeOK
  <2>5. CASE t # p /\ t # q
    <3>1. owner_of'[t] = owner_of[t] /\ subsumed_by'[t] = subsumed_by[t]
      BY <2>1, <2>5 DEF TypeOK
    <3> QED BY <1>a, <2>1, <3>1, StillServed DEF IsSubsumed
  <2> QED BY <2>3, <2>4, <2>5
<1>7. ASSUME UNCHANGED <<loopVars, envVars, observers, mergeVars>> PROVE Served(t)'
  BY <1>a, <1>7, StillServed DEF IsSubsumed, loopVars, envVars, mergeVars
<1>8. ASSUME NEW c \in Client, NEW q \in QueueId, PostTask(c, q) \/ Join(c, q) PROVE Served(t)'
  BY <1>7, <1>8 DEF PostTask, Join, queueVars, entryVars
<1>9. ASSUME NEW c \in Client, NEW time \in Time, PostTaskRegister(c, time) PROVE Served(t)'
  BY <1>7, <1>9 DEF PostTaskRegister, RegisterTask, entryVars
<1>10. CASE Tick \/ UNCHANGED vars
  BY <1>7, <1>10 DEF Tick, vars, queueVars, entryVars
<1> QED BY <1>1, <1>2, <1>3, <1>4, <1>5, <1>6, <1>8, <1>9, <1>10 DEF LoopNext

-----------------------------------------------------------------------------
(* The invariants of the loops.                                            *)

\* The inductive invariant: the types, the merges, and what each loop serves.
LoopsInductive == TypeOK /\ MergeInvariant /\ LoopTypeOK /\ LoopServes

LEMMA LoopsInit == LoopInit => LoopsInductive
<1> SUFFICES ASSUME LoopInit PROVE LoopsInductive
  OBVIOUS
<1>1. TypeOK /\ MergeInvariant
  BY TypeInit, MergeInit DEF LoopInit
<1>2. LoopTypeOK
  BY LoopAssumption DEF LoopInit, LoopTypeOK, LoopState
<1>3. LoopServes
  BY DEF LoopInit, LoopServes, Served
<1> QED BY <1>1, <1>2, <1>3 DEF LoopsInductive

LEMMA LoopsStep == LoopsInductive /\ [LoopNext]_vars => LoopsInductive'
BY TableKept, LoopTypeStep, ServedStep DEF LoopsInductive

\* MessageLoopImpl: the types of the loops' variables, no closure kept alive by a
\* waiting loop, and no observer called after it was removed, for any threads,
\* clients, observers, tasks and times.
THEOREM LoopsCorrect == LoopSpec => []LoopInvariant
<1>1. LoopsInductive => LoopInvariant
  BY DEF LoopsInductive, LoopTypeOK, LoopServes, Served, LoopInvariant
<1> QED BY <1>1, LoopsInit, LoopsStep, PTL DEF LoopSpec

\* TaskRunner::RunsTasksOnCurrentThread is true of the runner of every task that
\* runs, on the thread it runs on, whatever was merged or unmerged before.
THEOREM TasksKnowTheirThread == LoopSpec => []TaskKnowsItsThread
<1>1. LoopsInductive => TaskKnowsItsThread
  <2> SUFFICES ASSUME LoopsInductive, NEW t \in QueueId, pc[t] = "invoking"
               PROVE  RunsTasksOnCurrentThread(t, invocation[t].queue)
    BY DEF TaskKnowsItsThread
  <2>1. invocation[t].queue \in Group(t)
    BY DEF LoopsInductive, LoopServes, Served
  <2> QED BY <2>1 DEF Group, RunsTasksOnCurrentThread, RunsOnTheSameThread, Owns
<1> QED BY <1>1, LoopsInit, LoopsStep, PTL DEF LoopSpec

\* A queue that two loops run tasks of was merged away by a task of its own that
\* still runs: of two loops that have the queue in their groups one is subsumed.
LEMMA OverlapFollows == LoopsInductive => OverlapOnlyWhileMerging
<1> SUFFICES ASSUME LoopsInductive, NEW t \in QueueId, NEW u \in QueueId, t # u,
                    Running(t) # kUnmerged, Running(t) = Running(u)
             PROVE  \E q \in {t, u} : q = Running(q) /\ merged_by[q] = invocation[q].task.closure
  BY DEF OverlapOnlyWhileMerging
<1> DEFINE r == Running(t)
<1>1. /\ pc[t] = "invoking" /\ invocation[t].queue = r
      /\ pc[u] = "invoking" /\ invocation[u].queue = r
  BY DEF Running
<1>2. r \in Group(t) /\ r \in Group(u)
  BY <1>1 DEF LoopsInductive, LoopServes, Served
<1>3. IsSubsumed(t) \/ IsSubsumed(u)
  <2>1. r \in QueueId /\ TypeOK /\ MergeInvariant
    BY <1>2 DEF LoopsInductive, TypeOK, Group
  <2> HIDE DEF r
  <2> QED BY <1>2, <2>1, OneServer
<1>4. PICK q \in {t, u} : IsSubsumed(q)
  BY <1>3
<1>5. owner_of[q] = {}
  BY <1>4 DEF LoopsInductive, MergeInvariant
<1>6. Running(q) = q
  BY <1>2, <1>5 DEF Group
<1>7. merged_by[q] = invocation[q].task.closure
  BY <1>1, <1>4 DEF LoopsInductive, LoopServes, Served
<1> QED BY <1>6, <1>7

\* Two threads run tasks of one queue at the same time only while the task that
\* merged the queue away is still running, for any number of threads and merges.
THEOREM OverlapsAreMerges == LoopSpec => []OverlapOnlyWhileMerging
BY OverlapFollows, LoopsInit, LoopsStep, PTL DEF LoopSpec

=============================================================================
