--------------------------- MODULE TaskQueueProofs --------------------------
(***************************************************************************)
(* Theorems about task sources and the table of task queues, for any       *)
(* number of queues, observers, tasks and times: merges are consistent, no *)
(* wake-up is lost, and the table hands tasks out in the order they were   *)
(* posted and implements TaskSchedule, as long as order_ does not wrap.    *)
(***************************************************************************)
EXTENDS TaskQueueProperties, WellFoundedInduction, TLAPS

\* The provers of a leaf that names none, in the order they are tried.
USE SMT, Zenon, Z3T(30), SMTT(60)

-----------------------------------------------------------------------------
(* The heaps of a task source behave as priority queues: the top exists    *)
(* whenever the heap is not empty, and nothing in the heap precedes it.    *)

\* What operator> needs of a task: two keys that are natural numbers.
IsKeyed(tasks) == \A t \in tasks : t.time \in Nat /\ t.order \in Nat

\* Every non-empty set of natural numbers has a least element.
LEMMA LeastNat ==
    ASSUME NEW S, S \subseteq Nat, S # {}
    PROVE  \E m \in S : \A n \in S : m <= n
<1>1. PICK m \in S : \A n \in S : ~(<<n, m>> \in OpToRel(<, Nat))
  BY NatLessThanWellFounded, WFMin, Zenon
<1>2. \A n \in S : ~(n < m)
  BY <1>1, Zenon DEF OpToRel
<1> QED
  BY <1>2

\* Any non-empty set of keyed tasks has a task that operator> puts after no
\* other: first the least target time, then the least order at that time.
LEMMA EarliestExists ==
    ASSUME NEW tasks, IsKeyed(tasks), tasks # {}
    PROVE  \E t \in tasks : \A u \in tasks : ~After(t, u)
<1> DEFINE times == {t.time : t \in tasks}
<1>1. PICK m \in times : \A n \in times : m <= n
  <2>1. times \subseteq Nat /\ times # {}
    BY DEF IsKeyed
  <2> QED
    BY <2>1, LeastNat, Zenon
<1> DEFINE first == {t \in tasks : t.time = m}
           orders == {t.order : t \in first}
<1>2. PICK k \in orders : \A n \in orders : k <= n
  <2>1. orders \subseteq Nat /\ orders # {}
    BY DEF IsKeyed
  <2> QED
    BY <2>1, LeastNat, Zenon
<1>3. PICK t \in tasks : t.time = m /\ t.order = k
  OBVIOUS
<1>4. ASSUME NEW u \in tasks PROVE ~After(t, u)
  <2>1. m <= u.time /\ u.time \in Nat /\ u.order \in Nat /\ m \in Nat /\ k \in Nat
    BY <1>1, <1>3 DEF IsKeyed
  <2>2. u.time = m => k <= u.order
    BY <1>2
  <2> QED
    BY <1>3, <2>1, <2>2 DEF After
<1> QED
  BY <1>4

\* After is transitive on keyed tasks, in the form its negation is used.
LEMMA NotAfterTransitive ==
    ASSUME NEW a, NEW b, NEW c, IsKeyed({a, b, c}), ~After(a, b), ~After(b, c)
    PROVE  ~After(a, c)
BY DEF IsKeyed, After

\* priority_queue::top: a member of the heap that comes after no other member.
LEMMA HeapTopIsEarliest ==
    ASSUME NEW heap, IsKeyed(heap), heap # {}
    PROVE  HeapTop(heap) \in heap /\ \A u \in heap : ~After(HeapTop(heap), u)
BY EarliestExists, Zenon DEF HeapTop

\* TaskSource::Top returns the earliest of all the tasks the source offers,
\* whichever heap it is in and whether or not the secondary heap is paused.
THEOREM TopIsEarliest ==
    ASSUME NEW s, s.pauses \in Nat, IsKeyed(s.primary), IsKeyed(s.secondary), ~IsEmpty(s)
    PROVE  Top(s) \in Offered(s) /\ \A u \in Offered(s) : ~After(Top(s), u)
<1> DEFINE p == HeapTop(s.primary)
           d == HeapTop(s.secondary)
<1>1. s.primary # {} => p \in s.primary /\ \A u \in s.primary : ~After(p, u)
  BY HeapTopIsEarliest
<1>2. s.secondary # {} => d \in s.secondary /\ \A u \in s.secondary : ~After(d, u)
  BY HeapTopIsEarliest
<1>3. CASE s.pauses > 0 \/ s.secondary = {}
  <2>1. Offered(s) = s.primary /\ s.primary # {} /\ Top(s) = p
    BY <1>3 DEF Offered, IsEmpty, Top
  <2> QED
    BY <1>1, <2>1
<1>4. CASE ~(s.pauses > 0 \/ s.secondary = {}) /\ s.primary = {}
  <2>1. Offered(s) = s.secondary /\ Top(s) = d
    BY <1>4 DEF Offered, Top
  <2> QED
    BY <1>2, <1>4, <2>1
<1>5. CASE ~(s.pauses > 0 \/ s.secondary = {}) /\ s.primary # {}
  <2>1. Offered(s) = s.primary \cup s.secondary
    BY <1>5 DEF Offered
  <2>2. p \in s.primary /\ d \in s.secondary
    BY <1>1, <1>2, <1>5
  <2>3. CASE After(p, d)
    <3>1. Top(s) = d
      BY <1>5, <2>3 DEF Top
    <3>2. ASSUME NEW u \in s.primary PROVE ~After(d, u)
      <4>1. ~After(d, p)
        BY <2>2, <2>3 DEF After, IsKeyed
      <4>2. ~After(p, u) /\ IsKeyed({d, p, u})
        BY <1>1, <2>2 DEF IsKeyed
      <4> QED
        BY <4>1, <4>2, NotAfterTransitive
    <3> QED
      BY <1>2, <1>5, <2>1, <2>2, <3>1, <3>2
  <2>4. CASE ~After(p, d)
    <3>1. Top(s) = p
      BY <1>5, <2>4 DEF Top
    <3>2. ASSUME NEW u \in s.secondary PROVE ~After(p, u)
      <4>1. ~After(d, u) /\ IsKeyed({p, d, u})
        BY <1>2, <2>2 DEF IsKeyed
      <4> QED
        BY <2>4, <4>1, NotAfterTransitive
    <3> QED
      BY <1>1, <1>5, <2>1, <2>2, <3>1, <3>2
  <2> QED
    BY <2>3, <2>4
<1> QED
  BY <1>3, <1>4, <1>5

-----------------------------------------------------------------------------
(* The table of task queues.                                               *)

\* The part of TypeOK that the queries about the next task depend on.
SourcesOK ==
    /\ source \in [QueueId -> TaskSourceType]
    /\ owner_of \in [QueueId -> SUBSET QueueId]

\* What PeekNextTaskUnlocked finds when there is something to find.
PeekFindsEarliest(q) ==
    HasPendingTasksUnlocked(q) =>
        /\ PeekNextTaskUnlocked(q).queue \in Group(q)
        /\ PeekNextTaskUnlocked(q).task \in Offered(source[PeekNextTaskUnlocked(q).queue])
        /\ PeekNextTaskUnlocked(q).task = Top(source[PeekNextTaskUnlocked(q).queue])
        /\ PeekNextTaskUnlocked(q).task \in Task
        /\ PeekNextTaskUnlocked(q) \in [queue : QueueId, task : Task]
        /\ \A r \in Group(q) : \A t \in Offered(source[r]) :
              ~After(PeekNextTaskUnlocked(q).task, t)

\* A typed source offers keyed tasks.
LEMMA SourceKeyed ==
    ASSUME NEW s \in TaskSourceType
    PROVE  /\ s.pauses \in Nat /\ IsKeyed(s.primary) /\ IsKeyed(s.secondary)
           /\ Offered(s) \subseteq Task
<1>1. s.primary \subseteq Task /\ s.secondary \subseteq Task /\ s.pauses \in Nat
  BY DEF TaskSourceType
<1>2. \A t \in Task : t.time \in Nat /\ t.order \in Nat
  BY QueueAssumption, Zenon DEF Task
<1> QED
  BY <1>1, <1>2 DEF IsKeyed, Offered

\* PeekNextTaskUnlocked returns the earliest task of the whole group: the tops
\* it compares exist, and the top of each source is the earliest of that source.
LEMMA PeekEarliest ==
    ASSUME SourcesOK, NEW q \in QueueId
    PROVE  PeekFindsEarliest(q)
<1> SUFFICES ASSUME HasPendingTasksUnlocked(q)
             PROVE  PeekFindsEarliest(q)!2
  BY DEF PeekFindsEarliest
<1> DEFINE top == PeekNextTaskUnlocked(q)
           tasks == {o.task : o \in Tops(q)}
<1>1. Group(q) \subseteq QueueId
  BY DEF Group, SourcesOK
<1>2. ASSUME NEW r \in Group(q), ~IsEmpty(source[r])
      PROVE  /\ Top(source[r]) \in Offered(source[r])
             /\ \A u \in Offered(source[r]) : ~After(Top(source[r]), u)
             /\ Offered(source[r]) \subseteq Task
  <2>1. source[r] \in TaskSourceType
    BY <1>1 DEF SourcesOK
  <2> QED
    BY <1>2, <2>1, SourceKeyed, TopIsEarliest
<1>3. \A o \in Tops(q) : /\ o.queue \in Group(q) /\ ~IsEmpty(source[o.queue])
                         /\ o.task = Top(source[o.queue])
  BY DEF Tops
<1>4. \A t \in tasks : t \in Task
  BY <1>2, <1>3
<1>5. IsKeyed(tasks)
  BY <1>4, QueueAssumption, Zenon DEF IsKeyed, Task
<1>6. tasks # {}
  BY Zenon DEF HasPendingTasksUnlocked, Tops
<1>7. \E o \in Tops(q) : \A other \in Tops(q) : ~After(o.task, other.task)
  <2>1. PICK t \in tasks : \A u \in tasks : ~After(t, u)
    BY <1>5, <1>6, EarliestExists
  <2> QED
    BY <2>1
<1>8. top \in Tops(q) /\ \A other \in Tops(q) : ~After(top.task, other.task)
  BY <1>7 DEF PeekNextTaskUnlocked
<1>9. /\ top.queue \in Group(q) /\ ~IsEmpty(source[top.queue])
      /\ top.task = Top(source[top.queue])
      /\ top.task \in Offered(source[top.queue])
      /\ top.task \in Task
  BY <1>2, <1>3, <1>8
<1>10. top \in [queue : QueueId, task : Task]
  <2>1. PICK r \in Group(q) : top = [queue |-> r, task |-> Top(source[r])]
    BY <1>8 DEF Tops
  <2> QED
    BY <1>1, <1>9, <2>1
<1>11. ASSUME NEW r \in Group(q), NEW t \in Offered(source[r])
       PROVE  ~After(top.task, t)
  <2>1. ~IsEmpty(source[r])
    BY <1>11 DEF IsEmpty
  <2>2. ~After(Top(source[r]), t) /\ Top(source[r]) \in Task /\ t \in Task
    BY <1>2, <2>1
  <2>3. ~After(top.task, Top(source[r]))
    <3>1. [queue |-> r, task |-> Top(source[r])] \in Tops(q)
      BY <2>1 DEF Tops
    <3> QED
      BY <1>8, <3>1
  <2>4. IsKeyed({top.task, Top(source[r]), t})
    BY <1>9, <2>2, QueueAssumption, Zenon DEF IsKeyed, Task
  <2> QED
    BY <2>2, <2>3, <2>4, NotAfterTransitive
<1> QED
  BY <1>9, <1>10, <1>11

\* The same for the state after a step.
LEMMA PeekEarliestNext ==
    SourcesOK' => \A q \in QueueId : PeekFindsEarliest(q)'
<1>1. SourcesOK => \A q \in QueueId : PeekFindsEarliest(q)
  BY PeekEarliest
<1>2. SourcesOK' => (\A q \in QueueId : PeekFindsEarliest(q))'
  BY <1>1, PTL
<1> QED
  BY <1>2

-----------------------------------------------------------------------------
(* Type correctness.                                                       *)

\* Re-arming a Wakeable gives it the time of a real task.
LEMMA RearmTyped ==
    ASSUME SourcesOK', NEW qs, RearmIfPending(qs),
           wake \in [QueueId -> Time \cup {NoWake}]
    PROVE  wake' \in [QueueId -> Time \cup {NoWake}]
<1>1. ASSUME NEW q \in QueueId, WakesAtNext(q)'
      PROVE  GetNextWakeTimeUnlocked(q)' \in Time
  <2>1. PeekNextTaskUnlocked(q).task' \in Task
    BY <1>1, PeekEarliestNext DEF WakesAtNext, PeekFindsEarliest
  <2> QED
    BY <2>1 DEF GetNextWakeTimeUnlocked, Task
<1> QED
  BY <1>1 DEF RearmIfPending

\* The methods of TaskSource keep a source well formed.
LEMMA SourceMethodsTyped ==
    ASSUME NEW s \in TaskSourceType
    PROVE  /\ NewTaskSource \in TaskSourceType
           /\ ShutDown(s) \in TaskSourceType
           /\ \A t \in Task : SourceRegisterTask(s, t) \in TaskSourceType
           /\ \A g \in TaskSourceGrade : PopTask(s, g) \in TaskSourceType
           /\ PauseSecondary(s) \in TaskSourceType
           /\ s.pauses > 0 => ResumeSecondary(s) \in TaskSourceType
<1>1. NewTaskSource \in TaskSourceType
  BY DEF TaskSourceType, NewTaskSource
<1>2. ShutDown(s) \in TaskSourceType
  BY Zenon DEF TaskSourceType, ShutDown
<1>3. ASSUME NEW t \in Task PROVE SourceRegisterTask(s, t) \in TaskSourceType
  BY DEF TaskSourceType, SourceRegisterTask
<1>4. ASSUME NEW g \in TaskSourceGrade PROVE PopTask(s, g) \in TaskSourceType
  BY DEF TaskSourceType, PopTask
<1>5. PauseSecondary(s) \in TaskSourceType
  BY DEF TaskSourceType, PauseSecondary
<1>6. s.pauses > 0 => ResumeSecondary(s) \in TaskSourceType
  BY DEF TaskSourceType, ResumeSecondary
<1> QED
  BY <1>1, <1>2, <1>3, <1>4, <1>5, <1>6

\* The constructor leaves a well-typed table.
LEMMA TypeInit == Init => TypeOK
BY QueueAssumption DEF Init, TypeOK, TaskSourceType, NewTaskSource

\* Every method of MessageLoopTaskQueues keeps the table well typed.
LEMMA TypeStep == TypeOK /\ [Next]_queueVars => TypeOK'
<1> SUFFICES ASSUME TypeOK, [Next]_queueVars PROVE TypeOK'
  OBVIOUS
<1> USE QueueAssumption
<1>a. SourcesOK
  BY DEF TypeOK, SourcesOK
<1>1. ASSUME NEW q \in QueueId, CreateTaskQueue(q) PROVE TypeOK'
  BY <1>1 DEF TypeOK, CreateTaskQueue, mergeVars, countVars, wakeVars
<1>2. ASSUME NEW q \in QueueId, SetWakeable(q) PROVE TypeOK'
  BY <1>2 DEF TypeOK, SetWakeable, mergeVars, countVars, wakeVars
<1>3. ASSUME NEW q \in QueueId, Dispose(q) PROVE TypeOK'
  <2>1. source' \in [QueueId -> TaskSourceType]
    BY <1>3, SourceMethodsTyped DEF TypeOK, Dispose
  <2> QED
    BY <1>3, <2>1, Zenon DEF TypeOK, Dispose, countVars
<1>4. ASSUME NEW q \in QueueId, DisposeTasks(q) PROVE TypeOK'
  <2>1. source' \in [QueueId -> TaskSourceType]
    BY <1>4, SourceMethodsTyped DEF TypeOK, DisposeTasks
  <2> QED
    BY <1>4, <2>1 DEF TypeOK, DisposeTasks, entryVars, mergeVars, countVars, wakeVars
<1>5. ASSUME NEW q \in QueueId, NEW t \in Time, NEW g \in TaskSourceGrade, RegisterTask(q, t, g)
      PROVE  TypeOK'
  <2>1. [closure |-> registered, order |-> order, time |-> t, grade |-> g] \in Task
    BY DEF TypeOK, Task
  <2>2. source' \in [QueueId -> TaskSourceType]
    BY <1>5, <2>1, SourceMethodsTyped, Zenon DEF TypeOK, RegisterTask
  <2>3. registered' \in Nat /\ order' \in Nat
    BY <1>5 DEF TypeOK, RegisterTask
  <2>4. wake' \in [QueueId -> Time \cup {NoWake}]
    BY <1>5, <1>a, <2>2, RearmTyped DEF TypeOK, RegisterTask, SourcesOK, mergeVars
  <2> QED
    BY <1>5, <2>2, <2>3, <2>4 DEF TypeOK, RegisterTask, entryVars, mergeVars
<1>6. ASSUME NEW q \in QueueId, NEW t \in Time, TakeNextTask(q, t) PROVE TypeOK'
  <2> DEFINE top == PeekNextTaskUnlocked(q)
  <2>1. top.task \in Task /\ top.queue \in QueueId
    BY <1>6, <1>a, PeekEarliest DEF PeekFindsEarliest, TakeNextTask, Group, TypeOK
  <2>2. source' \in [QueueId -> TaskSourceType]
    BY <1>6, <2>1, SourceMethodsTyped, Zenon DEF TypeOK, TakeNextTask, Task
  <2>3. wake' \in [QueueId -> Time \cup {NoWake}]
    BY <1>6, <2>1 DEF TypeOK, TakeNextTask, Task
  <2> QED
    BY <1>6, <2>2, <2>3 DEF TypeOK, TakeNextTask, entryVars, mergeVars, countVars
<1>7. ASSUME NEW q \in QueueId, NEW t \in Time, NoTaskToRun(q, t) PROVE TypeOK'
  <2>1. wake' \in [QueueId -> Time \cup {NoWake}]
    BY <1>7, <1>a, RearmTyped DEF TypeOK, NoTaskToRun, SourcesOK, mergeVars
  <2> QED
    BY <1>7, <2>1 DEF TypeOK, NoTaskToRun, entryVars, mergeVars, countVars
<1>8. ASSUME NEW q \in QueueId, NEW k \in ObserverKey,
             AddTaskObserver(q, k) \/ RemoveTaskObserver(q, k)
      PROVE  TypeOK'
  BY <1>8 DEF TypeOK, AddTaskObserver, RemoveTaskObserver, mergeVars, countVars, wakeVars
<1>9. ASSUME NEW p \in QueueId, NEW q \in QueueId, Merge(p, q) \/ Unmerge(p, q)
      PROVE  TypeOK'
  <2>1. /\ owner_of' \in [QueueId -> SUBSET QueueId]
        /\ subsumed_by' \in [QueueId -> QueueId \cup {kUnmerged}]
    BY <1>9 DEF TypeOK, Merge, Unmerge
  <2>2. wake' \in [QueueId -> Time \cup {NoWake}]
    BY <1>9, <1>a, <2>1, RearmTyped DEF TypeOK, Merge, Unmerge, SourcesOK
  <2> QED
    BY <1>9, <2>1, <2>2 DEF TypeOK, Merge, Unmerge, entryVars, countVars
<1>10. ASSUME NEW q \in QueueId, PauseSecondarySource(q) PROVE TypeOK'
  <2>1. source' \in [QueueId -> TaskSourceType]
    BY <1>10, SourceMethodsTyped DEF TypeOK, PauseSecondarySource
  <2> QED
    BY <1>10, <2>1 DEF TypeOK, PauseSecondarySource, entryVars, mergeVars, countVars, wakeVars
<1>11. ASSUME NEW q \in QueueId, ResumeSecondarySource(q) PROVE TypeOK'
  <2>1. source' \in [QueueId -> TaskSourceType]
    BY <1>11, SourceMethodsTyped DEF TypeOK, ResumeSecondarySource
  <2>2. wake' \in [QueueId -> Time \cup {NoWake}]
    BY <1>11, <1>a, <2>1, RearmTyped DEF TypeOK, ResumeSecondarySource, SourcesOK, mergeVars
  <2> QED
    BY <1>11, <2>1, <2>2 DEF TypeOK, ResumeSecondarySource, entryVars, mergeVars, countVars
<1>12. ASSUME NEW q \in QueueId, WakeFires(q) PROVE TypeOK'
  BY <1>12 DEF TypeOK, WakeFires, entryVars, mergeVars, countVars
<1>13. CASE UNCHANGED queueVars
  BY <1>13 DEF TypeOK, queueVars, entryVars, mergeVars, countVars, wakeVars
<1> QED
  BY <1>1, <1>2, <1>3, <1>4, <1>5, <1>6, <1>7, <1>8, <1>9, <1>10, <1>11, <1>12, <1>13
  DEF Next

\* The table of queues is always well typed; in particular the next wake-up is
\* always the target time of a task that exists.
THEOREM TypeCorrect == Spec => []TypeOK
BY TypeInit, TypeStep, PTL DEF Spec

-----------------------------------------------------------------------------
(* The merge relation.                                                     *)

\* A table without entries has nothing merged.
LEMMA MergeInit == Init => MergeInvariant
BY QueueAssumption DEF Init, MergeInvariant, IsSubsumed

\* Only Merge, Unmerge and Dispose touch the relation; CreateTaskQueue touches
\* the set of entries it is about.
LEMMA MergeStep == TypeOK /\ MergeInvariant /\ [Next]_queueVars => MergeInvariant'
<1> SUFFICES ASSUME TypeOK, MergeInvariant, [Next]_queueVars PROVE MergeInvariant'
  OBVIOUS
<1> USE QueueAssumption
<1>1. ASSUME NEW p \in QueueId, NEW q \in QueueId, Merge(p, q) PROVE MergeInvariant'
  <2>1. /\ p # q /\ subsumed_by[p] = kUnmerged /\ subsumed_by[q] = kUnmerged
        /\ owner_of[q] = {} /\ p \in entries /\ q \in entries /\ entries' = entries
        /\ owner_of' = [owner_of EXCEPT ![p] = @ \cup {q}]
        /\ subsumed_by' = [subsumed_by EXCEPT ![q] = p]
    BY <1>1 DEF Merge, CanMerge, IsSubsumed, entryVars
  <2> QED
    BY <2>1 DEF MergeInvariant, TypeOK, IsSubsumed
<1>2. ASSUME NEW p \in QueueId, NEW q \in QueueId, Unmerge(p, q) PROVE MergeInvariant'
  <2>1. /\ q \in owner_of[p] /\ entries' = entries
        /\ owner_of' = [owner_of EXCEPT ![p] = @ \ {q}]
        /\ subsumed_by' = [subsumed_by EXCEPT ![q] = kUnmerged]
    BY <1>2 DEF Unmerge, CanUnmerge, Owns, entryVars
  <2> QED
    BY <2>1 DEF MergeInvariant, TypeOK, IsSubsumed
<1>3. ASSUME NEW q \in QueueId, Dispose(q) PROVE MergeInvariant'
  <2> DEFINE gone == Group(q)
  <2>1. /\ subsumed_by[q] = kUnmerged /\ entries' = entries \ gone
        /\ owner_of' = [r \in QueueId |-> IF r \in gone THEN {} ELSE owner_of[r]]
        /\ subsumed_by' = [r \in QueueId |-> IF r \in gone THEN kUnmerged ELSE subsumed_by[r]]
    BY <1>3 DEF Dispose, IsSubsumed
  <2>2. \A r \in QueueId : r \notin gone => \A g \in gone : g \notin owner_of[r]
    BY <2>1 DEF Group, MergeInvariant, TypeOK
  <2>3. \A r \in QueueId : r \notin gone => subsumed_by[r] \notin gone
    <3> SUFFICES ASSUME NEW r \in QueueId, subsumed_by[r] \in gone PROVE r \in gone
      OBVIOUS
    <3>1. subsumed_by[r] \in QueueId /\ r \in owner_of[subsumed_by[r]]
      BY DEF Group, MergeInvariant, TypeOK
    <3>2. subsumed_by[r] = q
      BY <3>1 DEF Group, MergeInvariant, IsSubsumed, TypeOK
    <3> QED
      BY <3>1, <3>2 DEF Group
  <2> QED
    BY <2>1, <2>2, <2>3 DEF MergeInvariant, TypeOK, IsSubsumed
<1>4. ASSUME NEW q \in QueueId, CreateTaskQueue(q) PROVE MergeInvariant'
  BY <1>4 DEF CreateTaskQueue, mergeVars, MergeInvariant, IsSubsumed
<1>5. ASSUME UNCHANGED <<entries, mergeVars>> PROVE MergeInvariant'
  BY <1>5 DEF mergeVars, MergeInvariant, IsSubsumed
<1>6. CASE UNCHANGED queueVars
  BY <1>5, <1>6 DEF queueVars, entryVars
<1>7. CASE \E q \in QueueId :
             \/ SetWakeable(q) \/ DisposeTasks(q) \/ WakeFires(q)
             \/ PauseSecondarySource(q) \/ ResumeSecondarySource(q)
  BY <1>5, <1>7 DEF SetWakeable, DisposeTasks, WakeFires, PauseSecondarySource,
                    ResumeSecondarySource, entryVars
<1>8. CASE \E q \in QueueId, k \in ObserverKey : AddTaskObserver(q, k) \/ RemoveTaskObserver(q, k)
  BY <1>5, <1>8 DEF AddTaskObserver, RemoveTaskObserver
<1>9. CASE \E q \in QueueId, t \in Time :
             \/ TakeNextTask(q, t) \/ NoTaskToRun(q, t)
             \/ \E g \in TaskSourceGrade : RegisterTask(q, t, g)
  BY <1>5, <1>9, Zenon DEF TakeNextTask, NoTaskToRun, RegisterTask, entryVars
<1> QED
  BY <1>1, <1>2, <1>3, <1>4, <1>6, <1>7, <1>8, <1>9 DEF Next

\* The merge invariants hold for any number of queues, in particular one owner
\* with many subsumed queues, through Merge, Unmerge and Dispose in any order.
THEOREM MergesConsistent == Spec => []MergeInvariant
<1>1. Init => TypeOK /\ MergeInvariant
  BY TypeInit, MergeInit
<1>2. TypeOK /\ MergeInvariant /\ [Next]_queueVars => TypeOK' /\ MergeInvariant'
  BY TypeStep, MergeStep
<1> QED
  BY <1>1, <1>2, PTL DEF Spec

\* One queue is served by one loop (MergeInvariant), so a change to its source
\* is a change to the group of that loop alone.
LEMMA OneServer ==
    ASSUME TypeOK, MergeInvariant, NEW p \in QueueId, NEW q \in QueueId, NEW r \in QueueId,
           ~IsSubsumed(p), ~IsSubsumed(q), r \in Group(p), r \in Group(q)
    PROVE  p = q
BY QueueAssumption DEF MergeInvariant, IsSubsumed, Group, TypeOK

\* A consistent merge relation gives every queue one serving loop: its owner, or
\* itself.
LEMMA ServedFollows == TypeOK /\ MergeInvariant => ServedByExactlyOne
<1> SUFFICES ASSUME TypeOK, MergeInvariant, NEW q \in entries
             PROVE  \E p \in entries :
                        /\ ~IsSubsumed(p) /\ q \in Group(p)
                        /\ \A r \in entries : ~IsSubsumed(r) /\ q \in Group(r) => r = p
                        /\ \A k \in observers[q] : \A r \in entries :
                              <<q, k>> \in GetObserversToNotify(r) <=> r = p
  BY DEF ServedByExactlyOne
<1>1. q \in QueueId /\ entries \subseteq QueueId
  BY DEF TypeOK
<1> DEFINE p == IF IsSubsumed(q) THEN subsumed_by[q] ELSE q
<1>2. p \in entries /\ ~IsSubsumed(p) /\ q \in Group(p)
  BY <1>1, QueueAssumption DEF MergeInvariant, TypeOK, IsSubsumed, Group
<1>3. ASSUME NEW r \in entries, ~IsSubsumed(r), q \in Group(r) PROVE r = p
  BY <1>1, <1>3, QueueAssumption DEF MergeInvariant, IsSubsumed, Group
<1>4. ASSUME NEW k \in observers[q], NEW r \in entries
      PROVE  <<q, k>> \in GetObserversToNotify(r) <=> ~IsSubsumed(r) /\ q \in Group(r)
  BY <1>4 DEF GetObserversToNotify
<1> QED
  BY <1>2, <1>3, <1>4

\* Every live queue is served by exactly one loop at all times.
THEOREM ServedOnce == Spec => []ServedByExactlyOne
BY TypeCorrect, MergesConsistent, ServedFollows, PTL

-----------------------------------------------------------------------------
(* No lost wake-up.                                                        *)

\* What WakeCoversNextTask asks of one queue.
Covered(q) ==
    WakesAtNext(q) => wake[q] # NoWake /\ wake[q] <= GetNextWakeTimeUnlocked(q)

\* A Wakeable that a step arms for the next task is covered after it.
LEMMA RearmCovers ==
    ASSUME SourcesOK', NEW qs, RearmIfPending(qs), NEW q \in QueueId, q \in qs
    PROVE  Covered(q)'
<1> SUFFICES ASSUME WakesAtNext(q)'
             PROVE  wake'[q] # NoWake /\ wake'[q] <= GetNextWakeTimeUnlocked(q)'
  BY DEF Covered
<1>1. GetNextWakeTimeUnlocked(q)' \in Nat
  BY PeekEarliestNext, QueueAssumption, Zenon
  DEF WakesAtNext, PeekFindsEarliest, GetNextWakeTimeUnlocked, Task
<1>2. wake'[q] = GetNextWakeTimeUnlocked(q)'
  BY DEF RearmIfPending
<1> QED
  BY <1>1, <1>2 DEF NoWake

\* If the loop of q serves the same queues after a step and none of them offers
\* more than before, a time no later than the old next task is no later than
\* the new one.
LEMMA NextTaskLater ==
    ASSUME SourcesOK, SourcesOK', NEW q \in QueueId,
           HasPendingTasksUnlocked(q)', IsSubsumed(q)' = IsSubsumed(q), owner_of'[q] = owner_of[q],
           \A r \in Group(q) : Offered(source'[r]) \subseteq Offered(source[r])
    PROVE  /\ HasPendingTasksUnlocked(q)
           /\ GetNextWakeTimeUnlocked(q) \in Nat /\ GetNextWakeTimeUnlocked(q)' \in Nat
           /\ GetNextWakeTimeUnlocked(q) <= GetNextWakeTimeUnlocked(q)'
<1>1. Group(q)' = Group(q)
  BY DEF Group
<1>2. HasPendingTasksUnlocked(q)
  BY <1>1 DEF HasPendingTasksUnlocked, IsEmpty
<1> DEFINE old == PeekNextTaskUnlocked(q)
           new == PeekNextTaskUnlocked(q)'
<1>3. old.task \in Task /\ \A r \in Group(q) : \A t \in Offered(source[r]) : ~After(old.task, t)
  BY <1>2, PeekEarliest DEF PeekFindsEarliest
<1>4. new.task \in Task /\ new.queue \in Group(q) /\ new.task \in Offered(source'[new.queue])
  BY <1>1, PeekEarliestNext DEF PeekFindsEarliest
<1>5. ~After(old.task, new.task)
  BY <1>3, <1>4
<1>6. old.task.time \in Nat /\ new.task.time \in Nat
  BY <1>3, <1>4, QueueAssumption, ZenonT(60) DEF Task
<1>7. old.task.time <= new.task.time
  BY <1>5, <1>6 DEF After
<1> QED
  BY <1>2, <1>6, <1>7 DEF GetNextWakeTimeUnlocked

\* A queue stays covered through a step that neither re-arms it nor gives its
\* loop more to do.
LEMMA StillCovered ==
    ASSUME TypeOK, SourcesOK', NEW q \in QueueId, Covered(q),
           wake'[q] = wake[q], wakeable'[q] = wakeable[q],
           IsSubsumed(q)' = IsSubsumed(q), owner_of'[q] = owner_of[q],
           ~IsSubsumed(q) =>
              \A r \in Group(q) : Offered(source'[r]) \subseteq Offered(source[r])
    PROVE  Covered(q)'
<1> SUFFICES ASSUME WakesAtNext(q)'
             PROVE  wake'[q] # NoWake /\ wake'[q] <= GetNextWakeTimeUnlocked(q)'
  BY DEF Covered
<1>1. SourcesOK /\ HasPendingTasksUnlocked(q)' /\ ~IsSubsumed(q)
  BY DEF TypeOK, SourcesOK, WakesAtNext, HasPendingTasksUnlocked
<1>2. /\ HasPendingTasksUnlocked(q)
      /\ GetNextWakeTimeUnlocked(q) \in Nat /\ GetNextWakeTimeUnlocked(q)' \in Nat
      /\ GetNextWakeTimeUnlocked(q) <= GetNextWakeTimeUnlocked(q)'
  BY <1>1, NextTaskLater
<1>3. wake[q] # NoWake /\ wake[q] <= GetNextWakeTimeUnlocked(q)
  BY <1>2 DEF Covered, WakesAtNext
<1>4. wake[q] \in Nat
  BY <1>3, QueueAssumption, Zenon DEF TypeOK
<1> QED
  BY <1>2, <1>3, <1>4

\* Popping, pausing and shutting down never make a source offer more.
LEMMA OfferedShrinks ==
    ASSUME NEW s \in TaskSourceType
    PROVE  /\ Offered(NewTaskSource) = {}
           /\ Offered(ShutDown(s)) = {}
           /\ \A g : Offered(PopTask(s, g)) \subseteq Offered(s)
           /\ Offered(PauseSecondary(s)) \subseteq Offered(s)
<1>1. Offered(NewTaskSource) = {}
  BY DEF Offered, NewTaskSource
<1>2. Offered(ShutDown(s)) = {}
  BY DEF Offered, ShutDown, TaskSourceType
<1>3. ASSUME NEW g PROVE Offered(PopTask(s, g)) \subseteq Offered(s)
  BY DEF Offered, PopTask, TaskSourceType
<1>4. Offered(PauseSecondary(s)) \subseteq Offered(s)
  BY DEF Offered, PauseSecondary, TaskSourceType
<1> QED
  BY <1>1, <1>2, <1>3, <1>4

\* A table without entries has nothing to wake for.
LEMMA WakeInit == Init => WakeCoversNextTask
BY DEF Init, WakeCoversNextTask

\* Every method leaves every loop covered: it re-arms the loop whose group it
\* gave something to do, and every other loop is covered as it was.
LEMMA WakeStep ==
    ASSUME ~MergedResume
    PROVE  TypeOK /\ MergeInvariant /\ WakeCoversNextTask /\ [Next]_queueVars
              => WakeCoversNextTask'
<1> SUFFICES ASSUME TypeOK, MergeInvariant, WakeCoversNextTask, [Next]_queueVars,
                    NEW q \in entries' \ fired'
             PROVE  Covered(q)'
  BY DEF WakeCoversNextTask, Covered
<1>a. TypeOK' /\ SourcesOK /\ SourcesOK'
  <2>1. TypeOK'
    BY TypeStep
  <2> QED
    BY <2>1 DEF TypeOK, SourcesOK
<1>b. q \in QueueId /\ entries \subseteq QueueId
  BY <1>a DEF TypeOK
<1>c. q \in entries \ fired => Covered(q)
  BY DEF WakeCoversNextTask, Covered
<1>d. \A r \in QueueId : source[r] \in TaskSourceType
  BY DEF TypeOK
<1>e. \A r \in QueueId : Group(r) \subseteq QueueId
  BY DEF TypeOK, Group
<1>1. ASSUME NEW p \in QueueId, CreateTaskQueue(p) PROVE Covered(q)'
  <2>1. CASE q \in entries
    BY <1>1, <1>a, <1>b, <1>c, <2>1, StillCovered
    DEF CreateTaskQueue, mergeVars, wakeVars, IsSubsumed
  <2>2. CASE q \notin entries
    BY <1>1, <1>b, <2>2 DEF CreateTaskQueue, TypeOK, Covered, WakesAtNext
  <2> QED
    BY <2>1, <2>2
<1>2. ASSUME NEW p \in QueueId, SetWakeable(p) PROVE Covered(q)'
  <2>1. CASE q = p
    <3>1. ~HasPendingTasksUnlocked(q)'
      BY <1>2, <1>b, <1>d, <2>1, OfferedShrinks
      DEF SetWakeable, HasPendingTasksUnlocked, Group, IsEmpty, mergeVars, IsSubsumed
    <3> QED
      BY <3>1 DEF Covered, WakesAtNext
  <2>2. CASE q # p
    BY <1>2, <1>a, <1>b, <1>c, <2>2, StillCovered, ZenonT(60)
    DEF SetWakeable, mergeVars, wakeVars, IsSubsumed, TypeOK
  <2> QED
    BY <2>1, <2>2
<1>3. ASSUME NEW p \in QueueId, Dispose(p) PROVE Covered(q)'
  <2>1. q \in entries \ fired /\ q \notin Group(p)
    BY <1>3 DEF Dispose
  <2>2. \A r \in QueueId : Offered(source'[r]) \subseteq Offered(source[r])
    BY <1>3, <1>d, OfferedShrinks DEF Dispose
  <2>3. /\ wake'[q] = wake[q] /\ wakeable'[q] = wakeable[q] /\ IsSubsumed(q)' = IsSubsumed(q)
        /\ owner_of'[q] = owner_of[q]
    BY <1>3, <1>b, <2>1 DEF Dispose, IsSubsumed, TypeOK
  <2> QED
    BY <1>a, <1>b, <1>c, <1>e, <2>1, <2>2, <2>3, StillCovered
<1>4. ASSUME NEW p \in QueueId, DisposeTasks(p) PROVE Covered(q)'
  <2>1. \A r \in QueueId : Offered(source'[r]) \subseteq Offered(source[r])
    BY <1>4, <1>d, OfferedShrinks DEF DisposeTasks
  <2> QED
    BY <1>4, <1>a, <1>b, <1>c, <1>e, <2>1, StillCovered
    DEF DisposeTasks, entryVars, mergeVars, wakeVars, IsSubsumed
<1>5. ASSUME NEW p \in QueueId, NEW t \in Time, NEW g \in TaskSourceGrade, RegisterTask(p, t, g)
      PROVE  Covered(q)'
  <2> DEFINE loop == IF IsSubsumed(p) THEN subsumed_by[p] ELSE p
  <2>1. CASE q = loop
    BY <1>5, <1>a, <1>b, <2>1, RearmCovers DEF RegisterTask
  <2>2. CASE q # loop
    <3>1. ~IsSubsumed(q) => p \notin Group(q)
      BY <1>b, <2>2, QueueAssumption DEF MergeInvariant, IsSubsumed, Group, TypeOK
    <3>2. \A r \in QueueId : r # p => source'[r] = source[r]
      BY <1>5 DEF RegisterTask, TypeOK
    <3>3. wake'[q] = wake[q]
      BY <1>5, <1>b, <2>2, Zenon DEF RegisterTask, RearmIfPending
    <3> QED
      BY <1>5, <1>a, <1>b, <1>c, <1>e, <3>1, <3>2, <3>3, StillCovered
      DEF RegisterTask, entryVars, mergeVars, IsSubsumed
  <2> QED
    BY <2>1, <2>2
<1>6. ASSUME NEW p \in QueueId, NEW t \in Time, TakeNextTask(p, t) PROVE Covered(q)'
  <2> DEFINE top == PeekNextTaskUnlocked(p)
  <2>1. top.task \in Task /\ top.queue \in Group(p) /\ ~IsSubsumed(p) /\ p \in entries
    BY <1>6, <1>a, PeekEarliest DEF PeekFindsEarliest, TakeNextTask, HasPendingTasksUnlocked
  <2>2. \A r \in QueueId : Offered(source'[r]) \subseteq Offered(source[r])
    BY <1>6, <1>d, <1>e, <2>1, OfferedShrinks DEF TakeNextTask, TypeOK
  <2>3. CASE q = p
    <3> SUFFICES ASSUME WakesAtNext(p)'
                 PROVE  wake'[p] # NoWake /\ wake'[p] <= GetNextWakeTimeUnlocked(p)'
      BY <2>3 DEF Covered
    <3>1. wake'[p] = GetNextWakeTimeUnlocked(p)
      BY <1>6 DEF TakeNextTask, WakesAtNext, TypeOK, entryVars, GetNextWakeTimeUnlocked
    <3>2. GetNextWakeTimeUnlocked(p) \in Nat /\ GetNextWakeTimeUnlocked(p) <= GetNextWakeTimeUnlocked(p)'
      BY <1>6, <1>a, <1>e, <2>2, NextTaskLater, ZenonT(60) DEF TakeNextTask, WakesAtNext, mergeVars, IsSubsumed
    <3> QED
      BY <3>1, <3>2 DEF NoWake
  <2>4. CASE q # p
    <3>1. /\ wake'[q] = wake[q] /\ wakeable'[q] = wakeable[q] /\ IsSubsumed(q)' = IsSubsumed(q)
          /\ owner_of'[q] = owner_of[q] /\ q \in entries \ fired
      BY <1>6, <1>b, <2>4 DEF TakeNextTask, entryVars, mergeVars, IsSubsumed, TypeOK
    <3> QED
      BY <1>a, <1>b, <1>c, <1>e, <2>2, <3>1, StillCovered
  <2> QED
    BY <2>3, <2>4
<1>7. ASSUME NEW p \in QueueId, NEW t \in Time, NoTaskToRun(p, t) PROVE Covered(q)'
  <2>1. CASE q = p
    BY <1>7, <1>a, <1>b, <2>1, RearmCovers DEF NoTaskToRun
  <2>2. CASE q # p
    BY <1>7, <1>a, <1>b, <1>c, <2>2, StillCovered
    DEF NoTaskToRun, RearmIfPending, entryVars, mergeVars, IsSubsumed
  <2> QED
    BY <2>1, <2>2
<1>8. ASSUME NEW p \in QueueId, NEW k \in ObserverKey,
             AddTaskObserver(p, k) \/ RemoveTaskObserver(p, k)
      PROVE  Covered(q)'
  BY <1>8, <1>a, <1>b, <1>c, StillCovered
  DEF AddTaskObserver, RemoveTaskObserver, mergeVars, wakeVars, IsSubsumed
<1>9. ASSUME NEW p \in QueueId, NEW r \in QueueId, Merge(p, r) PROVE Covered(q)'
  <2>1. CASE q = p
    BY <1>9, <1>a, <1>b, <2>1, RearmCovers DEF Merge
  <2>2. CASE q = r
    <3>1. IsSubsumed(q)'
      BY <1>9, <2>2, QueueAssumption DEF Merge, IsSubsumed, TypeOK
    <3> QED
      BY <3>1 DEF Covered, WakesAtNext, HasPendingTasksUnlocked
  <2>3. CASE q # p /\ q # r
    BY <1>9, <1>a, <1>b, <1>c, <2>3, StillCovered
    DEF Merge, RearmIfPending, entryVars, IsSubsumed, TypeOK
  <2> QED
    BY <2>1, <2>2, <2>3
<1>10. ASSUME NEW p \in QueueId, NEW r \in QueueId, Unmerge(p, r) PROVE Covered(q)'
  <2>1. CASE q \in {p, r}
    BY <1>10, <1>a, <1>b, <2>1, RearmCovers DEF Unmerge
  <2>2. CASE q \notin {p, r}
    BY <1>10, <1>a, <1>b, <1>c, <2>2, StillCovered
    DEF Unmerge, RearmIfPending, entryVars, IsSubsumed, TypeOK
  <2> QED
    BY <2>1, <2>2
<1>11. ASSUME NEW p \in QueueId, PauseSecondarySource(p) PROVE Covered(q)'
  <2>1. \A r \in QueueId : Offered(source'[r]) \subseteq Offered(source[r])
    BY <1>11, <1>d, OfferedShrinks DEF PauseSecondarySource, TypeOK
  <2> QED
    BY <1>11, <1>a, <1>b, <1>c, <1>e, <2>1, StillCovered, ZenonT(60)
    DEF PauseSecondarySource, entryVars, mergeVars, wakeVars, IsSubsumed
<1>12. ASSUME NEW p \in QueueId, ResumeSecondarySource(p) PROVE Covered(q)'
  <2>1. CASE q = p
    BY <1>12, <1>a, <1>b, <2>1, RearmCovers DEF ResumeSecondarySource
  <2>2. CASE q # p
    <3>1. ~IsSubsumed(q) => p \notin Group(q)
      <4>1. ~IsSubsumed(p) /\ p \in Group(p)
        BY <1>12 DEF ResumeSecondarySource, Group
      <4> QED
        BY <1>b, <2>2, <4>1, OneServer
    <3>2. \A r \in QueueId : r # p => source'[r] = source[r]
      BY <1>12 DEF ResumeSecondarySource, TypeOK
    <3> QED
      BY <1>12, <1>a, <1>b, <1>c, <1>e, <2>2, <3>1, <3>2, StillCovered
      DEF ResumeSecondarySource, RearmIfPending, entryVars, mergeVars, IsSubsumed
  <2> QED
    BY <2>1, <2>2
<1>13. ASSUME NEW p \in QueueId, WakeFires(p) PROVE Covered(q)'
  <2>1. q # p
    BY <1>13 DEF WakeFires
  <2> QED
    BY <1>13, <1>a, <1>b, <1>c, <2>1, StillCovered
    DEF WakeFires, entryVars, mergeVars, IsSubsumed, TypeOK
<1>14. CASE UNCHANGED queueVars
  BY <1>14, <1>a, <1>b, <1>c, StillCovered, Zenon
  DEF queueVars, entryVars, mergeVars, wakeVars, IsSubsumed
<1> QED
  BY <1>1, <1>2, <1>3, <1>4, <1>5, <1>6, <1>7, <1>8, <1>9, <1>10, <1>11, <1>12, <1>13, <1>14
  DEF Next

\* No wake-up is ever lost: as long as a paused queue is not resumed while it is
\* merged into another (see ResumeSecondarySource), a loop with a task to run is
\* armed for a time no later than the task's, for any number of queues.
THEOREM WakesCovered ==
    ASSUME ~MergedResume
    PROVE  Spec => []WakeCoversNextTask
<1>1. Init => TypeOK /\ MergeInvariant /\ WakeCoversNextTask
  BY TypeInit, MergeInit, WakeInit
<1>2. TypeOK /\ MergeInvariant /\ WakeCoversNextTask /\ [Next]_queueVars
        => TypeOK' /\ MergeInvariant' /\ WakeCoversNextTask'
  BY TypeStep, MergeStep, WakeStep
<1> QED
  BY <1>1, <1>2, PTL DEF Spec

-----------------------------------------------------------------------------
(* Order.                                                                  *)

TasksOf(q) == source[q].primary \cup source[q].secondary

\* The heaps partition by grade; closures number the registrations; order_ has
\* not wrapped, so it counts registrations too.
OrderInvariant ==
    /\ registered <= MaxTasks
    /\ registered < OrderRange => order = registered
    /\ \A q \in QueueId :
          /\ \A t \in source[q].primary : t.grade # "kDartEventLoop"
          /\ \A t \in source[q].secondary : t.grade = "kDartEventLoop"
          /\ \A t \in TasksOf(q) : t.order = t.closure /\ t.closure < registered
    /\ \A p, q \in QueueId : \A t \in TasksOf(p), u \in TasksOf(q) :
          t.closure = u.closure => p = q /\ t = u

\* A table without tasks is in order.
LEMMA OrderInit == Init => OrderInvariant
BY QueueAssumption DEF Init, OrderInvariant, TasksOf, NewTaskSource

\* A step that adds no task to any heap and counts none keeps the invariant.
LEMMA OrderShrinks ==
    ASSUME OrderInvariant, registered' = registered, order' = order,
           \A q \in QueueId : /\ source'[q].primary \subseteq source[q].primary
                              /\ source'[q].secondary \subseteq source[q].secondary
    PROVE  OrderInvariant'
BY DEF OrderInvariant, TasksOf

\* order_ has not wrapped yet.
LEMMA SmallMod ==
    ASSUME NEW n \in Nat, NEW m \in Nat \ {0}, n < m
    PROVE  n % m = n
OBVIOUS

\* RegisterTask alone adds a task, with the next number of both counters.
LEMMA OrderStep ==
    ASSUME MaxTasks <= OrderRange
    PROVE  TypeOK /\ OrderInvariant /\ [Next]_queueVars => OrderInvariant'
<1> SUFFICES ASSUME TypeOK, OrderInvariant, [Next]_queueVars PROVE OrderInvariant'
  OBVIOUS
<1> USE QueueAssumption
<1>a. \A r \in QueueId : source[r] \in TaskSourceType
  BY DEF TypeOK
<1>1. ASSUME NEW q \in QueueId, NEW t \in Time, NEW g \in TaskSourceGrade, RegisterTask(q, t, g)
      PROVE  OrderInvariant'
  <2> DEFINE task == [closure |-> registered, order |-> order, time |-> t, grade |-> g]
  <2>1. registered < OrderRange /\ order = registered /\ registered \in Nat
    BY <1>1 DEF RegisterTask, OrderInvariant, TypeOK
  <2>2. registered' = registered + 1 /\ registered' <= MaxTasks
    BY <1>1, <2>1 DEF RegisterTask
  <2>3. registered' < OrderRange => order' = registered'
    BY <1>1, <2>1, <2>2, SmallMod DEF RegisterTask
  <2>4. source' = [source EXCEPT ![q] = SourceRegisterTask(source[q], task)]
    BY <1>1 DEF RegisterTask
  <2>5. \A r \in QueueId : r # q => source'[r] = source[r]
    BY <2>4 DEF TypeOK
  <2>6. \/ /\ g = "kDartEventLoop" /\ source'[q].primary = source[q].primary
           /\ source'[q].secondary = source[q].secondary \cup {task}
        \/ /\ g # "kDartEventLoop" /\ source'[q].secondary = source[q].secondary
           /\ source'[q].primary = source[q].primary \cup {task}
    BY <1>a, <2>4 DEF SourceRegisterTask, TaskSourceType, TypeOK
  <2>7. TasksOf(q)' = TasksOf(q) \cup {task} /\ \A r \in QueueId : r # q => TasksOf(r)' = TasksOf(r)
    BY <2>5, <2>6 DEF TasksOf
  <2>8. task.order = task.closure /\ task.closure = registered /\ task.grade = g
    BY <2>1
  <2>9. \A r \in QueueId : \A u \in TasksOf(r) :
            u.closure \in Nat /\ u.closure < registered /\ u.order = u.closure
    <3>1. ASSUME NEW r \in QueueId, NEW u \in TasksOf(r) PROVE u \in Task
      BY <1>a DEF TasksOf, TaskSourceType
    <3> QED
      BY <3>1 DEF OrderInvariant, Task
  <2>10. \A r \in QueueId : \A u \in TasksOf(r)' : u.order = u.closure /\ u.closure < registered'
    BY <2>1, <2>2, <2>7, <2>8, <2>9
  <2>11. \A r, s \in QueueId : \A u \in TasksOf(r)', v \in TasksOf(s)' :
            u.closure = v.closure => r = s /\ u = v
    BY <2>1, <2>7, <2>8, <2>9 DEF OrderInvariant
  <2>12. \A r \in QueueId : /\ \A u \in source'[r].primary : u.grade # "kDartEventLoop"
                            /\ \A u \in source'[r].secondary : u.grade = "kDartEventLoop"
    BY <2>5, <2>6, <2>8 DEF OrderInvariant
  <2> QED
    BY <2>2, <2>3, <2>10, <2>11, <2>12 DEF OrderInvariant
<1>2. ASSUME NEW q \in QueueId, Dispose(q) \/ DisposeTasks(q) PROVE OrderInvariant'
  <2>1. \A r \in QueueId : /\ source'[r].primary \subseteq source[r].primary
                           /\ source'[r].secondary \subseteq source[r].secondary
    <3>1. CASE Dispose(q)
      BY <3>1, <1>a DEF Dispose, NewTaskSource
    <3>2. CASE DisposeTasks(q)
      BY <3>2, <1>a, Zenon DEF DisposeTasks, ShutDown, TaskSourceType
    <3> QED
      BY <1>2, <3>1, <3>2
  <2> QED
    BY <1>2, <2>1, OrderShrinks DEF Dispose, DisposeTasks, countVars
<1>3. ASSUME NEW q \in QueueId, NEW t \in Time, TakeNextTask(q, t) PROVE OrderInvariant'
  <2>1. \A r \in QueueId : /\ source'[r].primary \subseteq source[r].primary
                           /\ source'[r].secondary \subseteq source[r].secondary
    BY <1>3, <1>a DEF TakeNextTask, TypeOK, PopTask, TaskSourceType
  <2> QED
    BY <1>3, <2>1, OrderShrinks DEF TakeNextTask, countVars
<1>4. ASSUME NEW q \in QueueId, PauseSecondarySource(q) \/ ResumeSecondarySource(q)
      PROVE  OrderInvariant'
  <2>1. \A r \in QueueId : /\ source'[r].primary \subseteq source[r].primary
                           /\ source'[r].secondary \subseteq source[r].secondary
    BY <1>4, <1>a DEF PauseSecondarySource, ResumeSecondarySource, TypeOK,
                      PauseSecondary, ResumeSecondary, TaskSourceType
  <2> QED
    BY <1>4, <2>1, OrderShrinks DEF PauseSecondarySource, ResumeSecondarySource, countVars
<1>5. ASSUME UNCHANGED <<source, countVars>> PROVE OrderInvariant'
  BY <1>5, OrderShrinks DEF countVars
<1>6. CASE UNCHANGED queueVars
  BY <1>5, <1>6 DEF queueVars
<1>7. CASE \E q \in QueueId : CreateTaskQueue(q) \/ SetWakeable(q) \/ WakeFires(q)
  BY <1>5, <1>7 DEF CreateTaskQueue, SetWakeable, WakeFires
<1>8. CASE \E q \in QueueId, k \in ObserverKey : AddTaskObserver(q, k) \/ RemoveTaskObserver(q, k)
  BY <1>5, <1>8 DEF AddTaskObserver, RemoveTaskObserver
<1>9. CASE \E q \in QueueId, t \in Time : NoTaskToRun(q, t)
  BY <1>5, <1>9 DEF NoTaskToRun
<1>10. CASE \E p, q \in QueueId : Merge(p, q) \/ Unmerge(p, q)
  BY <1>5, <1>10 DEF Merge, Unmerge
<1> QED
  BY <1>1, <1>2, <1>3, <1>4, <1>6, <1>7, <1>8, <1>9, <1>10 DEF Next

-----------------------------------------------------------------------------
(* The earliest task is the one posted first.                              *)

\* Where order_ counts registrations, a task that operator> does not put after
\* another one precedes it in the sense of TaskSchedule.
LEMMA NotAfterIsBefore ==
    ASSUME TypeOK, OrderInvariant, NEW p \in QueueId, NEW q \in QueueId,
           NEW t \in TasksOf(p), NEW u \in TasksOf(q), ~After(t, u)
    PROVE  t.time < u.time \/ (t.time = u.time /\ t.closure <= u.closure)
<1>1. t \in Task /\ u \in Task
  BY DEF TypeOK, TasksOf, TaskSourceType
<1>2. t.order = t.closure /\ u.order = u.closure
  BY DEF OrderInvariant
<1>3. t.time \in Nat /\ u.time \in Nat /\ t.order \in Nat /\ u.order \in Nat
  BY <1>1, QueueAssumption, Zenon DEF Task
<1> QED
  BY <1>2, <1>3 DEF After

\* The task PeekNextTaskUnlocked finds is the first in posting order.
LEMMA OrderFollows == TypeOK /\ OrderInvariant => HandsOutInOrder
<1> SUFFICES ASSUME TypeOK, OrderInvariant, NEW q \in entries, HasPendingTasksUnlocked(q),
                    NEW r \in Group(q), NEW t \in Offered(source[r])
             PROVE  LET top == PeekNextTaskUnlocked(q).task IN
                    top.time < t.time \/ (top.time = t.time /\ top.closure <= t.closure)
  BY DEF HandsOutInOrder
<1> DEFINE top == PeekNextTaskUnlocked(q)
<1>1. q \in QueueId /\ Group(q) \subseteq QueueId /\ SourcesOK
  BY DEF TypeOK, Group, SourcesOK
<1>2. top.queue \in Group(q) /\ top.task \in Offered(source[top.queue]) /\ ~After(top.task, t)
  BY <1>1, PeekEarliest DEF PeekFindsEarliest
<1>3. top.task \in TasksOf(top.queue) /\ t \in TasksOf(r)
  BY <1>2 DEF Offered, TasksOf
<1> QED
  BY <1>1, <1>2, <1>3, NotAfterIsBefore

\* Tasks come out by target time, and first posted first at one time, across all
\* the queues a loop serves, as long as no more than OrderRange tasks (2^32 in
\* the code) are ever posted.
THEOREM InOrder ==
    ASSUME MaxTasks <= OrderRange
    PROVE  Spec => []HandsOutInOrder
<1>1. Init => TypeOK /\ OrderInvariant
  BY TypeInit, OrderInit
<1>2. TypeOK /\ OrderInvariant /\ [Next]_queueVars => TypeOK' /\ OrderInvariant'
  BY TypeStep, OrderStep
<1>3. TypeOK /\ OrderInvariant => HandsOutInOrder
  BY OrderFollows
<1> QED
  BY <1>1, <1>2, <1>3, PTL DEF Spec

-----------------------------------------------------------------------------
(* Refinement.                                                             *)

PendingBar == [q \in QueueId |-> source[q].primary \cup source[q].secondary]
PausedBar == [q \in QueueId |-> source[q].pauses]

\* The empty table is the empty schedule.
LEMMA ScheduleInit == Init => Schedule!Init
BY DEF Init, Schedule!Init, NewTaskSource

\* GetNextTaskToRun pops the very task it peeked at: the grade of the task names
\* the heap whose top it is.
LEMMA PopsTheTop ==
    ASSUME NEW s \in TaskSourceType, ~IsEmpty(s),
           \A t \in s.primary : t.grade # "kDartEventLoop",
           \A t \in s.secondary : t.grade = "kDartEventLoop"
    PROVE  LET popped == PopTask(s, Top(s).grade) IN
           /\ popped.primary \cup popped.secondary = (s.primary \cup s.secondary) \ {Top(s)}
           /\ popped.pauses = s.pauses
<1>1. Top(s) \in Offered(s) /\ IsKeyed(s.primary) /\ IsKeyed(s.secondary)
  BY SourceKeyed, TopIsEarliest
<1>2. CASE Top(s) \in s.primary
  <2>1. Top(s) = HeapTop(s.primary)
    <3>1. s.secondary # {} => HeapTop(s.secondary) \in s.secondary
      BY <1>1, HeapTopIsEarliest
    <3> QED
      BY <1>2, <3>1 DEF Top
  <2> QED
    BY <1>2, <2>1 DEF PopTask, TaskSourceType
<1>3. CASE Top(s) \in s.secondary
  <2>1. Top(s) = HeapTop(s.secondary)
    <3>1. s.primary # {} => HeapTop(s.primary) \in s.primary
      BY <1>1, HeapTopIsEarliest
    <3>2. s.pauses = 0
      BY <1>1, <1>3 DEF Offered
    <3> QED
      BY <1>3, <3>1, <3>2 DEF Top
  <2> QED
    BY <1>3, <2>1 DEF PopTask, TaskSourceType
<1> QED
  BY <1>1, <1>2, <1>3 DEF Offered

\* A step that changes no source is a stuttering step of TaskSchedule.
LEMMA SourceUnchanged ==
    ASSUME UNCHANGED source
    PROVE  UNCHANGED Schedule!vars
BY DEF Schedule!vars

\* Every method of MessageLoopTaskQueues maps to a step of TaskSchedule or to
\* none; Merge and Unmerge, wherever they interleave, map to none.
LEMMA ScheduleStep ==
    TypeOK /\ OrderInvariant /\ [Next]_queueVars => [Schedule!Next]_(Schedule!vars)
<1> SUFFICES ASSUME TypeOK, OrderInvariant, [Next]_queueVars
             PROVE  Schedule!Next \/ UNCHANGED Schedule!vars
  OBVIOUS
<1> USE QueueAssumption
<1>a. \A r \in QueueId : source[r] \in TaskSourceType
  BY DEF TypeOK
<1>b. \A q \in QueueId : Group(q) \in SUBSET QueueId
  BY DEF TypeOK, Group
<1>1. ASSUME NEW q \in QueueId, NEW t \in Time, NEW g \in TaskSourceGrade, RegisterTask(q, t, g)
      PROVE  Schedule!Next
  <2> DEFINE task == [closure |-> registered, order |-> order, time |-> t, grade |-> g]
  <2>1. source' = [source EXCEPT ![q] = SourceRegisterTask(source[q], task)]
    BY <1>1, Zenon DEF RegisterTask
  <2>2. /\ SourceRegisterTask(source[q], task).pauses = source[q].pauses
        /\ SourceRegisterTask(source[q], task).primary \cup SourceRegisterTask(source[q], task).secondary
             = TasksOf(q) \cup {task}
    BY <1>a DEF SourceRegisterTask, TaskSourceType, TasksOf
  <2>3. PendingBar' = [PendingBar EXCEPT ![q] = @ \cup {task}] /\ PausedBar' = PausedBar
    BY <2>1, <2>2, Zenon DEF PendingBar, PausedBar, TasksOf, TypeOK
  <2>4. \A r \in QueueId : task \notin PendingBar[r]
    <3> SUFFICES ASSUME NEW r \in QueueId, task \in PendingBar[r] PROVE FALSE
      OBVIOUS
    <3>1. task.closure < registered
      BY Zenon DEF OrderInvariant, PendingBar, TasksOf
    <3> QED
      BY <3>1 DEF TypeOK
  <2>5. task \in PendingBar'[q]
    BY <2>3 DEF PendingBar
  <2>6. Schedule!Post(q)
    BY <2>3, <2>4, <2>5, Zenon DEF Schedule!Post, PendingBar, PausedBar
  <2> QED
    BY <2>6, Zenon DEF Schedule!Next
<1>2. ASSUME NEW q \in QueueId, Dispose(q) PROVE Schedule!Next
  <2>1. PICK gone \in SUBSET QueueId : gone = Group(q)
    BY <1>b, Zenon
  <2>2. /\ PendingBar' = [r \in QueueId |-> IF r \in gone THEN {} ELSE PendingBar[r]]
        /\ PausedBar' = [r \in QueueId |-> IF r \in gone THEN 0 ELSE PausedBar[r]]
    BY <1>2, <2>1 DEF Dispose, PendingBar, PausedBar, NewTaskSource
  <2>3. Schedule!Forget(gone)
    BY <2>2 DEF Schedule!Forget, PendingBar, PausedBar
  <2> QED
    BY <2>3 DEF Schedule!Next
<1>3. ASSUME NEW q \in QueueId, DisposeTasks(q) PROVE Schedule!Next
  <2>1. PICK gone \in SUBSET QueueId : gone = Group(q)
    BY <1>b, Zenon
  <2>2. /\ PendingBar' = [r \in QueueId |-> IF r \in gone THEN {} ELSE PendingBar[r]]
        /\ PausedBar' = PausedBar
    BY <1>3, <2>1, <1>a, Zenon DEF DisposeTasks, PendingBar, PausedBar, ShutDown, TaskSourceType
  <2>3. Schedule!Drop(gone)
    BY <2>2 DEF Schedule!Drop, PendingBar, PausedBar
  <2> QED
    BY <2>3, Zenon DEF Schedule!Next
<1>4. ASSUME NEW q \in QueueId, NEW t \in Time, TakeNextTask(q, t) PROVE Schedule!Next
  <2>0. SourcesOK /\ HasPendingTasksUnlocked(q)
    BY <1>4 DEF TakeNextTask, TypeOK, SourcesOK
  <2>a. PICK r \in QueueId : r = PeekNextTaskUnlocked(q).queue
    BY <2>0, PeekEarliest DEF PeekFindsEarliest, Group, SourcesOK
  <2>b. PICK task : task = PeekNextTaskUnlocked(q).task
    OBVIOUS
  <2> DEFINE s == source[r]
  <2>1. /\ r \in Group(q) /\ task \in Offered(s) /\ task = Top(s)
        /\ \A u \in Offered(s) : ~After(task, u)
    BY <2>0, <2>a, <2>b, PeekEarliest DEF PeekFindsEarliest
  <2>2. s \in TaskSourceType /\ ~IsEmpty(s)
    BY <1>a, <2>1 DEF TypeOK, Group, IsEmpty
  <2>3. source' = [source EXCEPT ![r] = PopTask(s, Top(s).grade)]
    BY <1>4, <2>1, <2>a, <2>b, ZenonT(60) DEF TakeNextTask
  <2>c. /\ \A u \in s.primary : u.grade # "kDartEventLoop"
        /\ \A u \in s.secondary : u.grade = "kDartEventLoop"
    BY Zenon DEF OrderInvariant
  <2>4. /\ PopTask(s, Top(s).grade).primary \cup PopTask(s, Top(s).grade).secondary
             = (s.primary \cup s.secondary) \ {Top(s)}
        /\ PopTask(s, Top(s).grade).pauses = s.pauses
    BY <2>2, <2>c, PopsTheTop, Zenon
  <2>5. PendingBar' = [PendingBar EXCEPT ![r] = @ \ {task}] /\ PausedBar' = PausedBar
    BY <2>1, <2>2, <2>3, <2>4, Zenon DEF PendingBar, PausedBar, TypeOK
  <2>6. Schedule!Eligible(r) = Offered(s)
    BY <2>2 DEF Schedule!Eligible, Offered, OrderInvariant, TaskSourceType
  <2>7. ASSUME NEW u \in Offered(s), u # task PROVE Schedule!Before(task, u)
    <3>1. task \in TasksOf(r) /\ u \in TasksOf(r)
      BY <2>1 DEF Offered, TasksOf
    <3>2. task.time < u.time \/ (task.time = u.time /\ task.closure <= u.closure)
      BY <2>1, <2>2, <3>1, NotAfterIsBefore
    <3>3. task.closure # u.closure
      BY <2>2, <2>7, <3>1 DEF OrderInvariant
    <3>4. task.closure \in Nat /\ u.closure \in Nat
      BY <2>2, <3>1 DEF TasksOf, TaskSourceType, Task
    <3> QED
      BY <3>2, <3>3, <3>4 DEF Schedule!Before
  <2>8. Schedule!Run(r)
    <3>1. task \in Schedule!Eligible(r) /\ \A u \in Schedule!Eligible(r) \ {task} : Schedule!Before(task, u)
      BY <2>1, <2>6, <2>7
    <3> QED
      BY <2>5, <3>1, Zenon DEF Schedule!Run, PendingBar, PausedBar
  <2> QED
    BY <2>8, Zenon DEF Schedule!Next
<1>5. ASSUME NEW q \in QueueId, PauseSecondarySource(q) PROVE Schedule!Next
  <2>1. PendingBar' = PendingBar /\ PausedBar' = [PausedBar EXCEPT ![q] = @ + 1]
    BY <1>5, <1>a, Zenon DEF PauseSecondarySource, PauseSecondary, TypeOK, PendingBar, PausedBar, TaskSourceType
  <2>2. Schedule!Pause(q)
    BY <2>1 DEF Schedule!Pause, PendingBar, PausedBar
  <2> QED
    BY <2>2 DEF Schedule!Next
<1>6. ASSUME NEW q \in QueueId, ResumeSecondarySource(q) PROVE Schedule!Next
  <2>1. PendingBar' = PendingBar /\ PausedBar' = [PausedBar EXCEPT ![q] = @ - 1] /\ PausedBar[q] > 0
    BY <1>6, <1>a, Zenon DEF ResumeSecondarySource, ResumeSecondary, TypeOK, PendingBar, PausedBar, TaskSourceType
  <2>2. Schedule!Resume(q)
    BY <2>1 DEF Schedule!Resume, PendingBar, PausedBar
  <2> QED
    BY <2>2 DEF Schedule!Next
<1>7. CASE UNCHANGED queueVars
  BY <1>7, SourceUnchanged DEF queueVars
<1>8. CASE \E q \in QueueId : CreateTaskQueue(q) \/ SetWakeable(q) \/ WakeFires(q)
  BY <1>8, SourceUnchanged DEF CreateTaskQueue, SetWakeable, WakeFires
<1>9. CASE \E q \in QueueId, k \in ObserverKey : AddTaskObserver(q, k) \/ RemoveTaskObserver(q, k)
  BY <1>9, SourceUnchanged DEF AddTaskObserver, RemoveTaskObserver
<1>10. CASE \E q \in QueueId, t \in Time : NoTaskToRun(q, t)
  BY <1>10, SourceUnchanged DEF NoTaskToRun
<1>11. CASE \E p, q \in QueueId : Merge(p, q) \/ Unmerge(p, q)
  BY <1>11, SourceUnchanged DEF Merge, Unmerge
<1> QED
  BY <1>1, <1>2, <1>3, <1>4, <1>5, <1>6, <1>7, <1>8, <1>9, <1>10, <1>11 DEF Next

\* The table of queues implements TaskSchedule: merging queues changes which
\* loop runs a task and nothing else, for any number of queues and any mixture
\* of merges, pauses and disposals.
THEOREM ImplementsSchedule ==
    ASSUME MaxTasks <= OrderRange
    PROVE  Spec => KeepsSchedule
<1>1. Init => TypeOK /\ OrderInvariant /\ Schedule!Init
  BY TypeInit, OrderInit, ScheduleInit
<1>2. TypeOK /\ OrderInvariant /\ [Next]_queueVars => TypeOK' /\ OrderInvariant'
  BY TypeStep, OrderStep
<1>3. TypeOK /\ OrderInvariant /\ [Next]_queueVars => [Schedule!Next]_(Schedule!vars)
  BY ScheduleStep
<1> QED
  BY <1>1, <1>2, <1>3, PTL DEF Spec, KeepsSchedule, Schedule!Spec

=============================================================================
