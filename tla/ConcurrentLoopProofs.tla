------------------------ MODULE ConcurrentLoopProofs ------------------------
(***************************************************************************)
(* The worker pool, for any number of workers, posters and tasks: nobody   *)
(* is inside a destroyed loop, no worker sleeps while a task waits for one,*)
(* a task posted to all workers is not lost, and no task runs twice.       *)
(***************************************************************************)
EXTENDS ConcurrentMessageLoop, FiniteSetTheorems, TLAPS

\* The provers of a leaf that names none, in the order they are tried.
USE SMT, Zenon, Z3T(30), SMTT(60)

\* A worker leaves, or decides to leave, after the shutdown only.
LeavesAfterShutdown ==
    ~shutdown => \A w \in Worker : pc[w] # "exited" /\ ~shutdown_now[w]

PoolInvariant ==
    /\ TypeOK /\ LeavesAfterShutdown
    /\ NobodyInDeadLoop /\ NoIdleWorker /\ BroadcastNotLost

-----------------------------------------------------------------------------
(* Sequences.                                                              *)

Distinct(s) == \A i, j \in DOMAIN s : s[i] = s[j] => i = j

\* The empty queue is typed.
LEMMA EmptyIsSeq == ASSUME NEW S PROVE <<>> \in Seq(S)
  OBVIOUS

\* The operations on queues keep their type.
LEMMA SeqTypes ==
    ASSUME NEW S, NEW s \in Seq(S), NEW x \in S
    PROVE  /\ Append(s, x) \in Seq(S) /\ <<x>> \o s \in Seq(S)
           /\ s # <<>> => Head(s) \in S /\ Tail(s) \in Seq(S)
  OBVIOUS

\* A push adds its task and nothing else.
LEMMA OccursInAppend ==
    ASSUME NEW S, NEW s \in Seq(S), NEW x \in S, NEW t
    PROVE  Occurs(t, Append(s, x)) <=> (Occurs(t, s) \/ t = x)
<1>1. ASSUME Occurs(t, s) PROVE Occurs(t, Append(s, x))
  <2>1. PICK i \in DOMAIN s : s[i] = t
    BY <1>1 DEF Occurs
  <2>2. i \in DOMAIN Append(s, x) /\ Append(s, x)[i] = t
    BY <2>1
  <2> QED BY <2>2 DEF Occurs
<1>2. ASSUME t = x PROVE Occurs(t, Append(s, x))
  <2>1. Len(s) + 1 \in DOMAIN Append(s, x) /\ Append(s, x)[Len(s) + 1] = t
    BY <1>2
  <2> QED BY <2>1 DEF Occurs
<1>3. ASSUME Occurs(t, Append(s, x)), t # x PROVE Occurs(t, s)
  <2>1. PICK i \in DOMAIN Append(s, x) : Append(s, x)[i] = t
    BY <1>3 DEF Occurs
  <2>2. i \in DOMAIN s /\ s[i] = t
    BY <1>3, <2>1
  <2> QED BY <2>2 DEF Occurs
<1> QED BY <1>1, <1>2, <1>3

\* A pop removes no task but the first.
LEMMA OccursInTail ==
    ASSUME NEW S, NEW s \in Seq(S), s # <<>>, NEW t, Occurs(t, s), t # Head(s)
    PROVE  Occurs(t, Tail(s))
<1>1. PICK i \in DOMAIN s : s[i] = t
  BY DEF Occurs
<1>2. i \in 1..Len(s) /\ i # 1
  BY <1>1
<1>3. i - 1 \in DOMAIN Tail(s) /\ Tail(s)[i - 1] = t
  BY <1>1, <1>2
<1> QED BY <1>3 DEF Occurs

\* A task taken first leaves the worker's own tasks in the batch.
LEMMA OccursInRest ==
    ASSUME NEW S, NEW s \in Seq(S), NEW x \in S, NEW t, Occurs(t, s)
    PROVE  Occurs(t, <<x>> \o s)
<1>1. PICK i \in DOMAIN s : s[i] = t
  BY DEF Occurs
<1>2. i + 1 \in DOMAIN (<<x>> \o s) /\ (<<x>> \o s)[i + 1] = t
  BY <1>1
<1> QED BY <1>2 DEF Occurs

\* A push of a new task keeps the tasks of a queue distinct.
LEMMA DistinctAppend ==
    ASSUME NEW S, NEW s \in Seq(S), NEW x \in S, Distinct(s), ~Occurs(x, s)
    PROVE  Distinct(Append(s, x))
<1>1. \A i \in DOMAIN s : s[i] # x
  BY DEF Occurs
<1>2. SUFFICES ASSUME NEW i \in DOMAIN Append(s, x), NEW j \in DOMAIN Append(s, x),
                      Append(s, x)[i] = Append(s, x)[j]
               PROVE  i = j
  BY DEF Distinct
<1>3. \A k \in DOMAIN Append(s, x) : IF k \in DOMAIN s THEN Append(s, x)[k] = s[k]
                                     ELSE k = Len(s) + 1 /\ Append(s, x)[k] = x
  OBVIOUS
<1> QED BY <1>1, <1>2, <1>3 DEF Distinct

\* A pop from distinct tasks takes the first one out of the queue.
LEMMA DistinctTail ==
    ASSUME NEW S, NEW s \in Seq(S), s # <<>>, Distinct(s)
    PROVE  /\ Occurs(Head(s), s) /\ Distinct(Tail(s))
           /\ \A t : Occurs(t, Tail(s)) <=> Occurs(t, s) /\ t # Head(s)
<1>1. \A k \in DOMAIN Tail(s) : k + 1 \in DOMAIN s /\ Tail(s)[k] = s[k + 1] /\ k \in Nat /\ k # 0
  OBVIOUS
<1>2. 1 \in DOMAIN s /\ Head(s) = s[1]
  OBVIOUS
<1>3. Occurs(Head(s), s)
  BY <1>2 DEF Occurs
<1>4. Distinct(Tail(s))
  <2>1. SUFFICES ASSUME NEW i \in DOMAIN Tail(s), NEW j \in DOMAIN Tail(s), Tail(s)[i] = Tail(s)[j]
                 PROVE  i = j
    BY DEF Distinct
  <2>2. i + 1 = j + 1
    BY <1>1, <2>1 DEF Distinct
  <2> QED BY <1>1, <2>1, <2>2
<1>5. ASSUME NEW t, Occurs(t, Tail(s)) PROVE Occurs(t, s) /\ t # Head(s)
  <2>1. PICK k \in DOMAIN Tail(s) : Tail(s)[k] = t
    BY <1>5 DEF Occurs
  <2>2. k + 1 \in DOMAIN s /\ s[k + 1] = t /\ k + 1 # 1
    BY <1>1, <2>1
  <2> QED BY <1>2, <2>2 DEF Occurs, Distinct
<1> QED BY <1>3, <1>4, <1>5, OccursInTail

\* The task that a worker takes from the queue comes before its thread tasks.
LEMMA DistinctRest ==
    ASSUME NEW S, NEW s \in Seq(S), NEW x \in S, Distinct(s), ~Occurs(x, s)
    PROVE  /\ Distinct(<<x>> \o s)
           /\ \A t : Occurs(t, <<x>> \o s) <=> Occurs(t, s) \/ t = x
<1> DEFINE r == <<x>> \o s
<1>1. \A k \in DOMAIN r : /\ k \in Nat
                          /\ IF k = 1 THEN r[k] = x
                             ELSE k - 1 \in DOMAIN s /\ r[k] = s[k - 1]
  OBVIOUS
<1>2. 1 \in DOMAIN r /\ r[1] = x
  OBVIOUS
<1> HIDE DEF r
<1>3. Distinct(r)
  <2>1. SUFFICES ASSUME NEW i \in DOMAIN r, NEW j \in DOMAIN r, r[i] = r[j] PROVE i = j
    BY DEF Distinct
  <2>2. \A k \in DOMAIN s : s[k] # x
    BY DEF Occurs
  <2>3. CASE i = 1 \/ j = 1
    BY <1>1, <2>1, <2>2, <2>3
  <2>4. CASE i # 1 /\ j # 1
    <3>1. i - 1 = j - 1
      BY <1>1, <2>1, <2>4 DEF Distinct
    <3> QED BY <1>1, <3>1
  <2> QED BY <2>3, <2>4
<1>4. ASSUME NEW t, Occurs(t, r) PROVE Occurs(t, s) \/ t = x
  BY <1>1, <1>4 DEF Occurs
<1>5. Occurs(x, r)
  BY <1>2 DEF Occurs
<1>6. ASSUME NEW t, Occurs(t, s) PROVE Occurs(t, r)
  BY <1>6, OccursInRest DEF r
<1> QED BY <1>3, <1>4, <1>5, <1>6 DEF r

\* Nothing is in the empty queue.
LEMMA NothingOccurs == Distinct(<<>>) /\ \A t : ~Occurs(t, <<>>)
  BY DEF Distinct, Occurs

-----------------------------------------------------------------------------
(* The pool.                                                               *)

\* The initial state satisfies the invariant.
LEMMA PoolInit == Init => PoolInvariant
<1> SUFFICES ASSUME Init PROVE PoolInvariant
  OBVIOUS
<1> USE PoolAssumption DEF Init
<1>1. TypeOK
  <2>1. tasks \in Seq(Task) /\ thread_tasks \in [Worker -> Seq(Task)]
        /\ batch \in [Worker -> Seq(Task)] /\ ran \in [Task -> Seq(Actor)]
    BY EmptyIsSeq
  <2>2. posted \in 0..MaxTasks /\ arg \in [Actor -> 0..MaxTasks]
    OBVIOUS
  <2> QED BY <2>1, <2>2, Zenon DEF TypeOK
<1>2. LeavesAfterShutdown
  BY DEF LeavesAfterShutdown
<1>3. NobodyInDeadLoop
  BY DEF NobodyInDeadLoop
<1>4. NoIdleWorker
  BY DEF NoIdleWorker, Waiting
<1>5. BroadcastNotLost
  BY DEF BroadcastNotLost
<1> QED BY <1>1, <1>2, <1>3, <1>4, <1>5 DEF PoolInvariant

\* Every step keeps the types.
LEMMA TypeStep == TypeOK /\ [Next]_vars => TypeOK'
<1> SUFFICES ASSUME TypeOK, [Next]_vars PROVE TypeOK'
  OBVIOUS
<1> USE PoolAssumption
<1>1. ASSUME NEW w \in Worker, WorkerStep(w) \/ SpuriousWake(w) PROVE TypeOK'
  <2>1. CASE Wait(w) \/ SpuriousWake(w)
    BY <2>1, Zenon DEF TypeOK, Wait, SpuriousWake, callVars, lifeVars
  <2>2. CASE Take(w)
    <3>1. CASE tasks = <<>>
      BY <2>2, <3>1, ZenonT(60) DEF TypeOK, Take, callVars, lifeVars
    <3>2. CASE tasks # <<>>
      <4>1. Tail(tasks) \in Seq(Task) /\ Head(tasks) \in Task
        BY <3>2, SeqTypes DEF TypeOK
      <4>2. <<Head(tasks)>> \o thread_tasks[w] \in Seq(Task)
        BY <4>1, SeqTypes DEF TypeOK
      <4> QED BY <2>2, <3>2, <4>1, <4>2, Zenon DEF TypeOK, Take, callVars, lifeVars
    <3> QED BY <3>1, <3>2
  <2>3. CASE ExecuteTask(w)
    <3>1. Head(batch[w]) \in Task /\ Tail(batch[w]) \in Seq(Task)
      BY <2>3, SeqTypes DEF TypeOK, ExecuteTask
    <3>2. ran' \in [Task -> Seq(Actor)]
      BY <2>3, <3>1, SeqTypes, Zenon DEF TypeOK, ExecuteTask, Executed, Actor
    <3> QED BY <2>3, <3>1, <3>2 DEF TypeOK, ExecuteTask, callVars, lifeVars
  <2>4. CASE Turn(w)
    BY <2>4 DEF TypeOK, Turn, callVars, lifeVars
  <2> QED BY <1>1, <2>1, <2>2, <2>3, <2>4 DEF WorkerStep
<1>2. ASSUME NEW a \in Actor, LockLoop(a) \/ RunOnCaller(a) \/ Call(a) PROVE TypeOK'
  <2>1. CASE LockLoop(a)
    BY <2>1 DEF TypeOK, LockLoop, workerVars, lifeVars
  <2>2. CASE RunOnCaller(a)
    <3>1. posted + 1 \in Task
      BY <2>2 DEF TypeOK, RunOnCaller, Task
    <3>2. ran' \in [Task -> Seq(Actor)]
      BY <2>2, <3>1, SeqTypes DEF TypeOK, RunOnCaller, Executed
    <3>3. posted' \in 0..MaxTasks
      BY <2>2 DEF TypeOK, RunOnCaller
    <3> QED BY <2>2, <3>2, <3>3 DEF TypeOK, RunOnCaller, workerVars, callVars, lifeVars
  <2>3. CASE PostTask(a)
    <3>1. arg[a] \in Task
      BY <2>3 DEF TypeOK, PostTask, Task
    <3>2. tasks' \in Seq(Task)
      <4>1. Append(tasks, arg[a]) \in Seq(Task)
        BY <3>1, SeqTypes DEF TypeOK
      <4> QED BY <2>3, <4>1, Zenon DEF TypeOK, PostTask
    <3>3. ran' \in [Task -> Seq(Actor)]
      <4>1. Append(ran[arg[a]], a) \in Seq(Actor)
        BY <3>1, SeqTypes DEF TypeOK
      <4> QED BY <2>3, <3>1, <4>1, Zenon DEF TypeOK, PostTask, Executed
    <3> QED BY <2>3, <3>2, <3>3, Zenon DEF TypeOK, PostTask, workerVars, lifeVars
  <2>4. CASE NotifyOne(a)
    <3>1. pc' \in [Worker -> {"entry", "waiting", "running", "exited"}]
      BY <2>4 DEF TypeOK, NotifyOne, Waiting
    <3>2. \A w \in Worker : pc[w] = "running" => pc'[w] = "running"
      BY <2>4 DEF TypeOK, NotifyOne, Waiting
    <3> QED BY <2>4, <3>1, <3>2 DEF TypeOK, NotifyOne, lifeVars
  <2>5. CASE ReleaseLoop(a)
    BY <2>5 DEF TypeOK, ReleaseLoop, workerVars
  <2> QED BY <1>2, <2>1, <2>2, <2>3, <2>4, <2>5 DEF Call
<1>3. ASSUME NEW a \in Poster, Owner(a) PROVE TypeOK'
  <2>1. CASE PostTaskToAllWorkers(a)
    <3>1. posted + 1 \in Task
      BY <2>1 DEF TypeOK, PostTaskToAllWorkers, Task
    <3>2. thread_tasks' \in [Worker -> Seq(Task)]
      BY <2>1, <3>1, SeqTypes DEF TypeOK, PostTaskToAllWorkers
    <3> QED BY <2>1, <3>1, <3>2 DEF TypeOK, PostTaskToAllWorkers, NotifiedAll, Task,
                                  callVars, lifeVars
  <2>2. CASE TerminateByOwner(a)
    BY <2>2 DEF TypeOK, TerminateByOwner, NotifiedAll, callVars, lifeVars
  <2>3. CASE DropLoop(a)
    BY <2>3, Zenon DEF TypeOK, DropLoop, Actor, workerVars, callVars
  <2> QED BY <1>3, <2>1, <2>2, <2>3 DEF Owner
<1>4. ASSUME DestructorTerminates \/ Destroyed \/ UNCHANGED vars PROVE TypeOK'
  <2>1. CASE DestructorTerminates
    BY <2>1 DEF TypeOK, DestructorTerminates, NotifiedAll, callVars, lifeVars
  <2>2. CASE Destroyed
    BY <2>2 DEF TypeOK, Destroyed, workerVars, callVars
  <2>3. CASE UNCHANGED vars
    BY <2>3 DEF TypeOK, vars, workerVars, callVars, lifeVars
  <2> QED BY <1>4, <2>1, <2>2, <2>3
<1> QED BY <1>1, <1>2, <1>3, <1>4 DEF Next

\* A worker leaves after the shutdown only.
LEMMA LeavesStep == PoolInvariant /\ [Next]_vars => LeavesAfterShutdown'
<1> SUFFICES ASSUME TypeOK, LeavesAfterShutdown, [Next]_vars, ~shutdown'
             PROVE  \A w \in Worker : pc'[w] # "exited" /\ ~shutdown_now'[w]
  BY DEF LeavesAfterShutdown, PoolInvariant
<1>1. ASSUME NEW w \in Worker, WorkerStep(w) \/ SpuriousWake(w)
      PROVE  \A v \in Worker : pc'[v] # "exited" /\ ~shutdown_now'[v]
  BY <1>1 DEF TypeOK, LeavesAfterShutdown, WorkerStep, Wait,
              Take, ExecuteTask, Turn, SpuriousWake
<1>2. ASSUME NEW a \in Actor, LockLoop(a) \/ RunOnCaller(a) \/ Call(a)
      PROVE  \A v \in Worker : pc'[v] # "exited" /\ ~shutdown_now'[v]
  BY <1>2 DEF TypeOK, LeavesAfterShutdown, LockLoop, RunOnCaller, Call, PostTask, NotifyOne,
              ReleaseLoop, Waiting, workerVars
<1>3. ASSUME NEW a \in Poster, Owner(a)
      PROVE  \A v \in Worker : pc'[v] # "exited" /\ ~shutdown_now'[v]
  BY <1>3 DEF TypeOK, LeavesAfterShutdown, Owner, PostTaskToAllWorkers, TerminateByOwner,
              DropLoop, NotifiedAll, workerVars
<1>4. ASSUME DestructorTerminates \/ Destroyed \/ UNCHANGED vars
      PROVE  \A v \in Worker : pc'[v] # "exited" /\ ~shutdown_now'[v]
  BY <1>4 DEF LeavesAfterShutdown, DestructorTerminates, Destroyed, vars, workerVars
<1> QED BY <1>1, <1>2, <1>3, <1>4 DEF Next

\* Nobody enters a loop whose last reference is gone.
LEMMA DeadStep == PoolInvariant /\ [Next]_vars => NobodyInDeadLoop'
<1> SUFFICES ASSUME TypeOK, NobodyInDeadLoop, [Next]_vars PROVE NobodyInDeadLoop'
  BY DEF PoolInvariant
<1> USE PoolAssumption DEF TypeOK, NobodyInDeadLoop, LoopAlive, Borrowers
<1>1. ASSUME NEW w \in Worker, WorkerStep(w) \/ SpuriousWake(w) PROVE NobodyInDeadLoop'
  BY <1>1 DEF WorkerStep, Wait, Take, ExecuteTask, Turn, SpuriousWake, callVars, lifeVars
<1>2. ASSUME NEW a \in Actor, LockLoop(a) \/ RunOnCaller(a) \/ PostTask(a) PROVE NobodyInDeadLoop'
  BY <1>2 DEF LockLoop, RunOnCaller, PostTask, workerVars, callVars, lifeVars
<1>3. ASSUME NEW a \in Actor, NotifyOne(a) PROVE NobodyInDeadLoop'
  BY <1>3 DEF NotifyOne, Waiting, lifeVars
<1>4. ASSUME NEW a \in Actor, ReleaseLoop(a) PROVE NobodyInDeadLoop'
  <2>1. destroyer = NoActor
    BY <1>4 DEF ReleaseLoop
  <2>2. dead' => \A w \in Worker : pc'[w] = "exited" /\ batch'[w] = <<>>
    BY <1>4 DEF ReleaseLoop, workerVars
  <2>3. ASSUME destroyer' # NoActor PROVE ~held' /\ Borrowers' = {}
    <3>1. ~held /\ Borrowers = {a}
      BY <1>4, <2>1, <2>3 DEF ReleaseLoop
    <3> QED BY <1>4, <3>1 DEF ReleaseLoop
  <2> QED BY <2>2, <2>3
<1>5. ASSUME NEW a \in Poster, Owner(a) PROVE NobodyInDeadLoop'
  BY <1>5 DEF Owner, PostTaskToAllWorkers, TerminateByOwner, DropLoop, NotifiedAll,
              workerVars, callVars, lifeVars
<1>6. ASSUME DestructorTerminates \/ Destroyed \/ UNCHANGED vars PROVE NobodyInDeadLoop'
  BY <1>6 DEF DestructorTerminates, Destroyed, NotifiedAll, vars, workerVars, callVars, lifeVars
<1> QED BY <1>1, <1>2, <1>3, <1>4, <1>5, <1>6 DEF Next, Call

Notifying == {a \in Actor : call[a] = "notifying"}

\* The sets that NoIdleWorker counts are finite.
LEMMA Counted ==
    /\ IsFiniteSet(Entering) /\ Cardinality(Entering) \in Nat
    /\ IsFiniteSet(Notifying) /\ Cardinality(Notifying) \in Nat
<1>1. IsFiniteSet(Actor)
  BY PoolAssumption, FS_Union, Zenon DEF Actor
<1>2. IsFiniteSet(Entering) /\ IsFiniteSet(Notifying)
  BY <1>1, PoolAssumption, FS_Subset DEF Entering, Notifying
<1> QED BY <1>2, FS_CardinalityType

\* Each worker on its way takes a task away; each task brings a notification,
\* and each notification a worker, as long as one sleeps.
LEMMA IdleStep == PoolInvariant /\ [Next]_vars => NoIdleWorker'
<1> SUFFICES ASSUME TypeOK, NoIdleWorker, [Next]_vars PROVE NoIdleWorker'
  BY DEF PoolInvariant
<1> DEFINE Bounded == Len(tasks) <= Cardinality(Entering) + Cardinality(Notifying)
           Safe == \A w \in Waiting : thread_tasks[w] = <<>> /\ ~shutdown
<1>a. (Waiting # {} => Bounded) /\ Safe
  BY DEF NoIdleWorker, Notifying
<1>b. ASSUME Waiting' # {} => Bounded', Safe' PROVE NoIdleWorker'
  BY <1>b DEF NoIdleWorker, Notifying
<1>c. /\ IsFiniteSet(Entering) /\ Cardinality(Entering) \in Nat
      /\ IsFiniteSet(Notifying) /\ Cardinality(Notifying) \in Nat
      /\ Len(tasks) \in Nat
  BY Counted DEF TypeOK
<1>d. ASSUME NEW w \in Worker, w \notin Entering
      PROVE  Cardinality(Entering \cup {w}) = Cardinality(Entering) + 1
  BY <1>c, <1>d, FS_AddElement, Zenon
<1>e. ASSUME NEW w \in Worker, w \in Entering
      PROVE  Cardinality(Entering \ {w}) = Cardinality(Entering) - 1
  BY <1>c, <1>e, FS_RemoveElement, Zenon
<1>f. ASSUME NotifiedAll PROVE NoIdleWorker'
  <2>1. Waiting' = {}
    BY <1>f DEF NotifiedAll, Waiting, TypeOK
  <2> QED BY <1>b, <2>1
<1>g. ASSUME UNCHANGED <<tasks, thread_tasks, shutdown, workerVars, callVars>>
      PROVE  NoIdleWorker'
  <2>1. /\ Waiting' = Waiting /\ Entering' = Entering /\ Notifying' = Notifying
        /\ tasks' = tasks /\ thread_tasks' = thread_tasks /\ shutdown' = shutdown
    BY <1>g DEF Waiting, Entering, Notifying, workerVars, callVars
  <2> QED BY <1>a, <1>b, <2>1
<1>1. ASSUME NEW w \in Worker, WorkerStep(w) \/ SpuriousWake(w) PROVE NoIdleWorker'
  <2>1. CASE Wait(w)
    <3>1. Len(tasks') = 0
      BY <2>1 DEF Wait, MayProceed
    <3>2. Safe'
      BY <2>1, <1>a DEF Wait, MayProceed, HasThreadTasksLocked, Waiting, TypeOK
    <3>3. Cardinality(Entering)' \in Nat /\ Cardinality(Notifying)' \in Nat
      <4>1. Entering' \subseteq Entering /\ Notifying' = Notifying
        BY <2>1 DEF Wait, Entering, Notifying, TypeOK, callVars
      <4> QED BY <4>1, <1>c, FS_Subset, FS_CardinalityType
    <3> QED BY <1>b, <3>1, <3>2, <3>3
  <2>2. CASE Take(w)
    <3>1. /\ Waiting' = Waiting /\ Entering' = Entering \ {w} /\ Notifying' = Notifying
          /\ w \in Entering
      BY <2>2 DEF Take, Waiting, Entering, Notifying, TypeOK, callVars
    <3>2. Safe'
      BY <2>2, <1>a, <3>1 DEF Take, Waiting, TypeOK
    <3>3. CASE tasks = <<>>
      <4>1. Len(tasks') = 0 /\ Cardinality(Entering)' \in Nat
        BY <2>2, <3>1, <3>3, <1>c, FS_RemoveElement, FS_CardinalityType DEF Take
      <4> QED BY <1>b, <1>c, <3>1, <3>2, <4>1
    <3>4. CASE tasks # <<>>
      <4>1. Len(tasks') = Len(tasks) - 1
        BY <2>2, <3>4 DEF Take, TypeOK
      <4> QED BY <1>a, <1>b, <1>c, <1>e, <3>1, <3>2, <4>1
    <3> QED BY <3>3, <3>4
  <2>3. CASE ExecuteTask(w)
    <3>1. /\ Waiting' = Waiting /\ Entering' = Entering /\ Notifying' = Notifying
          /\ tasks' = tasks /\ thread_tasks' = thread_tasks /\ shutdown' = shutdown
      BY <2>3 DEF ExecuteTask, Waiting, Entering, Notifying, callVars
    <3> QED BY <1>a, <1>b, <3>1
  <2>4. CASE Turn(w) \/ SpuriousWake(w)
    <3>1. /\ Waiting' \subseteq Waiting /\ Notifying' = Notifying
          /\ Entering' = Entering \/ Entering' = Entering \cup {w}
          /\ w \notin Entering
          /\ tasks' = tasks /\ thread_tasks' = thread_tasks /\ shutdown' = shutdown
      BY <2>4 DEF Turn, SpuriousWake, Waiting, Entering, Notifying, TypeOK, callVars
    <3> QED BY <1>a, <1>b, <1>c, <1>d, <3>1
  <2> QED BY <1>1, <2>1, <2>2, <2>3, <2>4 DEF WorkerStep
<1>2. ASSUME NEW a \in Actor, LockLoop(a) \/ RunOnCaller(a) \/ Call(a) PROVE NoIdleWorker'
  <2>1. CASE LockLoop(a) \/ RunOnCaller(a) \/ ReleaseLoop(a)
    <3>1. /\ Waiting' = Waiting /\ Entering' = Entering /\ Notifying' = Notifying
          /\ tasks' = tasks /\ thread_tasks' = thread_tasks /\ shutdown' = shutdown
      BY <2>1 DEF LockLoop, RunOnCaller, ReleaseLoop, Free, Waiting, Entering, Notifying,
                  TypeOK, workerVars, callVars
    <3> QED BY <1>a, <1>b, <3>1
  <2>2. CASE PostTask(a)
    <3>1. /\ Waiting' = Waiting /\ Entering' = Entering
          /\ thread_tasks' = thread_tasks /\ shutdown' = shutdown
      BY <2>2 DEF PostTask, Waiting, Entering, workerVars
    <3>2. Safe'
      BY <1>a, <3>1
    <3>3. CASE shutdown
      BY <1>a, <1>b, <3>1, <3>2, <3>3
    <3>4. CASE ~shutdown
      <4>1. Notifying' = Notifying \cup {a} /\ a \notin Notifying
        BY <2>2, <3>4 DEF PostTask, Notifying, TypeOK
      <4>2. Cardinality(Notifying)' = Cardinality(Notifying) + 1
        BY <1>c, <4>1, FS_AddElement, Zenon
      <4>3. Len(tasks') = Len(tasks) + 1
        BY <2>2, <3>4 DEF PostTask, TypeOK
      <4> QED BY <1>a, <1>b, <1>c, <3>1, <3>2, <4>2, <4>3
    <3> QED BY <3>3, <3>4
  <2>3. CASE NotifyOne(a)
    <3>1. Notifying' = Notifying \ {a} /\ a \in Notifying
      BY <2>3 DEF NotifyOne, Notifying, TypeOK
    <3>2. Cardinality(Notifying)' = Cardinality(Notifying) - 1
      BY <1>c, <3>1, FS_RemoveElement, Zenon
    <3>3. tasks' = tasks /\ thread_tasks' = thread_tasks /\ shutdown' = shutdown
      BY <2>3 DEF NotifyOne
    <3>4. CASE Waiting = {} /\ UNCHANGED pc
      <4>1. Waiting' = {}
        BY <3>4 DEF Waiting
      <4> QED BY <1>b, <4>1
    <3>5. ASSUME NEW w \in Waiting, pc' = [pc EXCEPT ![w] = "entry"] PROVE NoIdleWorker'
      <4>1. /\ w \in Worker /\ w \notin Entering /\ Entering' = Entering \cup {w}
            /\ Waiting' \subseteq Waiting
        BY <3>5 DEF Waiting, Entering, TypeOK
      <4> QED BY <1>a, <1>b, <1>c, <1>d, <3>2, <3>3, <3>5, <4>1
    <3> QED BY <2>3, <3>4, <3>5 DEF NotifyOne
  <2> QED BY <1>2, <2>1, <2>2, <2>3 DEF Call
<1>3. ASSUME NEW a \in Poster, Owner(a) PROVE NoIdleWorker'
  BY <1>3, <1>f, <1>g DEF Owner, PostTaskToAllWorkers, TerminateByOwner, DropLoop
<1>4. ASSUME DestructorTerminates \/ Destroyed \/ UNCHANGED vars PROVE NoIdleWorker'
  BY <1>4, <1>f, <1>g DEF DestructorTerminates, Destroyed, vars
<1> QED BY <1>1, <1>2, <1>3, <1>4 DEF Next

Stays(w) == pc[w] # "exited" /\ ~(pc[w] = "running" /\ shutdown_now[w])

Kept(t, w) ==
    \/ Occurs(w, ran[t]) \/ Occurs(t, batch[w])
    \/ Occurs(t, thread_tasks[w]) /\ Stays(w)

\* A thread that runs a task forgets none that ran before.
LEMMA RanGrows ==
    ASSUME TypeOK, NEW a \in Actor, NEW x \in Task, Executed(x, a),
           NEW t \in Task, NEW w
    PROVE  Occurs(w, ran'[t]) <=> (Occurs(w, ran[t]) \/ (t = x /\ w = a))
<1>1. CASE t = x
  <2>1. ran'[t] = Append(ran[t], a) /\ ran[t] \in Seq(Actor)
    BY <1>1 DEF TypeOK, Executed
  <2> QED BY <1>1, <2>1, OccursInAppend
<1>2. CASE t # x
  BY <1>2 DEF TypeOK, Executed
<1> QED BY <1>1, <1>2

\* A worker takes its thread tasks in the critical section that reads
\* shutdown_, and runs all it took.
LEMMA BroadcastStep == PoolInvariant /\ [Next]_vars => BroadcastNotLost'
<1> SUFFICES ASSUME TypeOK, LeavesAfterShutdown, BroadcastNotLost, [Next]_vars
             PROVE  BroadcastNotLost'
  BY DEF PoolInvariant
<1>a. \A t \in owed, w \in Worker : Kept(t, w)
  BY DEF BroadcastNotLost, Kept, Stays
<1>b. ASSUME \A t \in owed', w \in Worker : Kept(t, w)' PROVE BroadcastNotLost'
  BY <1>b DEF BroadcastNotLost, Kept, Stays
<1>c. owed \subseteq Task
  BY DEF TypeOK
<1>1. ASSUME NEW v \in Worker, WorkerStep(v) \/ SpuriousWake(v) PROVE BroadcastNotLost'
  <2>1. CASE Wait(v) \/ SpuriousWake(v)
    <3>1. owed' = owed /\ ran' = ran /\ batch' = batch /\ thread_tasks' = thread_tasks
      BY <2>1 DEF Wait, SpuriousWake
    <3>2. \A w \in Worker : Stays(w) => Stays(w)'
      BY <2>1 DEF Wait, SpuriousWake, Stays, TypeOK
    <3> QED BY <1>a, <1>b, <3>1, <3>2 DEF Kept
  <2>2. CASE Take(v)
    <3>1. owed' = owed /\ ran' = ran
      BY <2>2 DEF Take
    <3>2. ASSUME NEW w \in Worker, w # v
          PROVE  /\ batch'[w] = batch[w] /\ thread_tasks'[w] = thread_tasks[w]
                 /\ Stays(w)' = Stays(w)
      BY <2>2, <3>2 DEF Take, Stays, TypeOK
    <3>3. batch[v] = <<>>
      BY <2>2 DEF Take, TypeOK
    <3>4. ASSUME NEW t, Occurs(t, thread_tasks[v]) PROVE Occurs(t, batch'[v])
      <4>1. CASE tasks = <<>>
        BY <2>2, <3>4, <4>1 DEF Take, TypeOK
      <4>2. CASE tasks # <<>>
        <5>1. Head(tasks) \in Task /\ thread_tasks[v] \in Seq(Task)
          BY <4>2, SeqTypes DEF TypeOK
        <5>2. batch'[v] = <<Head(tasks)>> \o thread_tasks[v]
          BY <2>2, <4>2 DEF Take, TypeOK
        <5> QED BY <3>4, <5>1, <5>2, OccursInRest
      <4> QED BY <4>1, <4>2
    <3>5. \A t : ~Occurs(t, batch[v])
      BY <3>3 DEF Occurs
    <3> QED BY <1>a, <1>b, <3>1, <3>2, <3>4, <3>5 DEF Kept
  <2>3. CASE ExecuteTask(v)
    <3>1. owed' = owed /\ thread_tasks' = thread_tasks /\ \A w \in Worker : Stays(w)' = Stays(w)
      BY <2>3 DEF ExecuteTask, Stays
    <3>2. Head(batch[v]) \in Task /\ batch[v] \in Seq(Task) /\ batch[v] # <<>> /\ v \in Actor
      BY <2>3, SeqTypes DEF ExecuteTask, TypeOK, Actor
    <3>3. ASSUME NEW t \in owed, NEW w \in Worker PROVE Kept(t, w)'
      <4>1. t \in Task /\ Kept(t, w)
        BY <1>a, <1>c, <3>3
      <4>2. Occurs(w, ran[t]) => Occurs(w, ran'[t])
        BY <2>3, <3>2, <4>1, RanGrows, ZenonT(60) DEF ExecuteTask
      <4>3. ASSUME Occurs(t, batch[w]) PROVE Occurs(w, ran'[t]) \/ Occurs(t, batch'[w])
        <5>1. CASE w # v
          BY <2>3, <4>3, <5>1 DEF ExecuteTask, TypeOK
        <5>2. CASE w = v /\ t = Head(batch[v])
          BY <2>3, <3>2, <4>1, <5>2, RanGrows, ZenonT(60) DEF ExecuteTask
        <5>3. CASE w = v /\ t # Head(batch[v])
          <6>1. Occurs(t, Tail(batch[v]))
            BY <3>2, <4>3, <5>3, OccursInTail
          <6> QED BY <2>3, <5>3, <6>1 DEF ExecuteTask, TypeOK
        <5> QED BY <5>1, <5>2, <5>3
      <4> QED BY <3>1, <4>1, <4>2, <4>3 DEF Kept
    <3> QED BY <1>b, <3>1, <3>3
  <2>4. CASE Turn(v)
    <3>1. owed' = owed /\ ran' = ran /\ batch' = batch /\ thread_tasks' = thread_tasks
      BY <2>4 DEF Turn
    <3>2. \A w \in Worker : Stays(w) => Stays(w)'
      BY <2>4 DEF Turn, Stays, TypeOK
    <3> QED BY <1>a, <1>b, <3>1, <3>2 DEF Kept
  <2> QED BY <1>1, <2>1, <2>2, <2>3, <2>4 DEF WorkerStep
<1>2. ASSUME NEW a \in Actor, LockLoop(a) \/ RunOnCaller(a) \/ Call(a) PROVE BroadcastNotLost'
  <2>1. CASE LockLoop(a) \/ ReleaseLoop(a)
    BY <1>a, <1>b, <2>1 DEF LockLoop, ReleaseLoop, Kept, Stays, workerVars
  <2>2. CASE RunOnCaller(a) \/ PostTask(a)
    <3>1. /\ owed' = owed /\ batch' = batch /\ thread_tasks' = thread_tasks
          /\ \A w \in Worker : Stays(w)' = Stays(w)
      BY <2>2 DEF RunOnCaller, PostTask, Stays, workerVars
    <3>2. ran' = ran \/ \E x \in Task : Executed(x, a)
      <4>1. call[a] = "locked" => arg[a] \in Task
        BY DEF TypeOK, Task
      <4>2. posted < MaxTasks => posted + 1 \in Task
        BY PoolAssumption DEF TypeOK, Task
      <4> QED BY <2>2, <4>1, <4>2 DEF RunOnCaller, PostTask
    <3>3. \A t \in owed, w \in Worker : Occurs(w, ran[t]) => Occurs(w, ran'[t])
      BY <1>c, <3>2, RanGrows
    <3> QED BY <1>a, <1>b, <3>1, <3>3 DEF Kept
  <2>3. CASE NotifyOne(a)
    <3>1. owed' = owed /\ ran' = ran /\ batch' = batch /\ thread_tasks' = thread_tasks
      BY <2>3 DEF NotifyOne
    <3>2. \A w \in Worker : Stays(w) => Stays(w)'
      BY <2>3 DEF NotifyOne, Waiting, Stays, TypeOK
    <3> QED BY <1>a, <1>b, <3>1, <3>2 DEF Kept
  <2> QED BY <1>2, <2>1, <2>2, <2>3 DEF Call
<1>3. ASSUME NEW a \in Poster, Owner(a) PROVE BroadcastNotLost'
  <2>1. CASE PostTaskToAllWorkers(a)
    <3>1. posted + 1 \in Task
      BY <2>1, PoolAssumption DEF PostTaskToAllWorkers, TypeOK, Task
    <3>2. \A w \in Worker : Stays(w)' = Stays(w)
      BY <2>1 DEF PostTaskToAllWorkers, NotifiedAll, Stays, TypeOK
    <3>3. ASSUME NEW t, NEW w \in Worker
          PROVE  Occurs(t, thread_tasks'[w]) <=> (Occurs(t, thread_tasks[w]) \/ t = posted + 1)
      <4>1. thread_tasks[w] \in Seq(Task) /\ thread_tasks'[w] = Append(thread_tasks[w], posted + 1)
        BY <2>1 DEF PostTaskToAllWorkers, TypeOK
      <4> QED BY <3>1, <4>1, OccursInAppend
    <3>4. ASSUME NEW t \in owed', NEW w \in Worker PROVE Kept(t, w)'
      <4>1. ran' = ran /\ batch' = batch
        BY <2>1 DEF PostTaskToAllWorkers
      <4>2. CASE t \in owed
        BY <1>a, <3>2, <3>3, <4>1, <4>2 DEF Kept
      <4>3. CASE t \notin owed
        <5>1. t = posted + 1 /\ ~shutdown
          BY <2>1, <3>4, <4>3 DEF PostTaskToAllWorkers
        <5>2. Stays(w)
          BY <5>1 DEF LeavesAfterShutdown, Stays
        <5> QED BY <3>2, <3>3, <5>1, <5>2 DEF Kept
      <4> QED BY <4>2, <4>3
    <3> QED BY <1>b, <3>4
  <2>2. CASE TerminateByOwner(a) \/ DropLoop(a)
    <3>1. owed' = owed /\ ran' = ran /\ batch' = batch /\ thread_tasks' = thread_tasks
      BY <2>2 DEF TerminateByOwner, DropLoop, workerVars
    <3>2. \A w \in Worker : Stays(w) => Stays(w)'
      BY <2>2 DEF TerminateByOwner, DropLoop, NotifiedAll, Stays, TypeOK, workerVars
    <3> QED BY <1>a, <1>b, <3>1, <3>2 DEF Kept
  <2> QED BY <1>3, <2>1, <2>2 DEF Owner
<1>4. ASSUME DestructorTerminates \/ Destroyed \/ UNCHANGED vars PROVE BroadcastNotLost'
  <2>1. owed' = owed /\ ran' = ran /\ batch' = batch /\ thread_tasks' = thread_tasks
    BY <1>4 DEF DestructorTerminates, Destroyed, vars, workerVars
  <2>2. \A w \in Worker : Stays(w) => Stays(w)'
    BY <1>4 DEF DestructorTerminates, Destroyed, NotifiedAll, Stays, TypeOK, vars, workerVars
  <2> QED BY <1>a, <1>b, <2>1, <2>2 DEF Kept
<1> QED BY <1>1, <1>2, <1>3, <1>4 DEF Next

-----------------------------------------------------------------------------
\* Every step keeps every conjunct.
LEMMA PoolStep == PoolInvariant /\ [Next]_vars => PoolInvariant'
  BY TypeStep, LeavesStep, DeadStep, IdleStep, BroadcastStep DEF PoolInvariant

\* The inductive invariant holds always.
LEMMA PoolCorrect == Spec => []PoolInvariant
  BY PoolInit, PoolStep, PTL DEF Spec

\* No caller and no worker is inside a destroyed loop: the destructor starts
\* after the last strong reference and ends after the last WorkerMain.
THEOREM LoopOutlivesItsUsers == Spec => []NobodyInDeadLoop
<1>1. PoolInvariant => NobodyInDeadLoop
  BY DEF PoolInvariant
<1> QED BY <1>1, PoolCorrect, PTL

\* PostTask's notification after the unlock loses no parallelism: while a
\* worker sleeps, every queued task has a worker on its way.
THEOREM WorkersNotIdle == Spec => []NoIdleWorker
<1>1. PoolInvariant => NoIdleWorker
  BY DEF PoolInvariant
<1> QED BY <1>1, PoolCorrect, PTL

\* A task posted to all workers before the shutdown is not lost to any of them.
THEOREM BroadcastsKept == Spec => []BroadcastNotLost
<1>1. PoolInvariant => BroadcastNotLost
  BY DEF PoolInvariant
<1> QED BY <1>1, PoolCorrect, PTL

-----------------------------------------------------------------------------
(* No task runs twice.                                                     *)

\* Thread a is in PostTask with task t and has not yet queued it.
Carries(a, t) == call[a] = "locked" /\ arg[a] = t

\* Where a task that is posted to one worker can be: with its caller, in the queue,
\* in one batch, or run.
SingleTask(t) ==
    /\ Len(ran[t]) <= 1
    /\ Occurs(t, tasks) => ran[t] = <<>>
    /\ \A w \in Worker :
          /\ ~Occurs(t, thread_tasks[w])
          /\ Occurs(t, batch[w]) =>
                /\ ran[t] = <<>> /\ ~Occurs(t, tasks)
                /\ \A v \in Worker : Occurs(t, batch[v]) => v = w
    /\ \A a \in Actor : Carries(a, t) =>
          /\ ran[t] = <<>> /\ ~Occurs(t, tasks)
          /\ \A w \in Worker : ~Occurs(t, batch[w])
          /\ \A b \in Actor : Carries(b, t) => b = a

\* Where a task that is posted to all workers can be, seen from each of them.
SharedTask(t) ==
    /\ ~Occurs(t, tasks) /\ \A a \in Actor : ~Carries(a, t)
    /\ Distinct(ran[t]) /\ \A i \in DOMAIN ran[t] : ran[t][i] \in Worker
    /\ \A w \in Worker :
          /\ Occurs(t, batch[w]) => ~Occurs(w, ran[t]) /\ ~Occurs(t, thread_tasks[w])
          /\ Occurs(t, thread_tasks[w]) => ~Occurs(w, ran[t])

\* A task that is not posted yet is nowhere.
NewTask(t) ==
    /\ ran[t] = <<>> /\ ~Occurs(t, tasks) /\ t \notin broadcasts
    /\ \A w \in Worker : ~Occurs(t, batch[w]) /\ ~Occurs(t, thread_tasks[w])
    /\ \A a \in Actor : ~Carries(a, t)

\* RunsAtMostOnce is not inductive alone: no task is in two places.
OnceInvariant ==
    /\ Distinct(tasks)
    /\ \A w \in Worker : Distinct(batch[w]) /\ Distinct(thread_tasks[w])
    /\ \A t \in Task : /\ t \in broadcasts => SharedTask(t)
                       /\ t \notin broadcasts => SingleTask(t)
                       /\ t > posted => NewTask(t)

\* The parts that OnceInvariant speaks of.
onceVars == <<tasks, thread_tasks, batch, posted, broadcasts, ran>>

\* A step that moves no task and lets no caller begin keeps the invariant.
LEMMA OnceIdle ==
    ASSUME OnceInvariant, UNCHANGED onceVars,
           \A a \in Actor, t \in Task : Carries(a, t)' => Carries(a, t)
    PROVE  OnceInvariant'
<1>1. UNCHANGED <<tasks, thread_tasks, batch, posted, broadcasts, ran>>
  BY DEF onceVars
<1>2. \A t \in Task : SharedTask(t) => SharedTask(t)'
  BY <1>1, Zenon DEF SharedTask
<1>3. \A t \in Task : SingleTask(t) => SingleTask(t)'
  BY <1>1, Zenon DEF SingleTask
<1>4. \A t \in Task : NewTask(t) => NewTask(t)'
  BY <1>1, Zenon DEF NewTask
<1> QED BY <1>1, <1>2, <1>3, <1>4, Zenon DEF OnceInvariant

\* At first no task is anywhere.
LEMMA OnceInit == Init => OnceInvariant
<1> SUFFICES ASSUME Init PROVE OnceInvariant
  OBVIOUS
<1>1. /\ tasks = <<>> /\ broadcasts = {} /\ \A t \in Task : ran[t] = <<>>
      /\ \A w \in Worker : batch[w] = <<>> /\ thread_tasks[w] = <<>>
      /\ \A a \in Actor, t \in Task : ~Carries(a, t)
  BY DEF Init, Carries
<1>2. Len(<<>>) <= 1
  OBVIOUS
<1>3. \A t \in Task : SingleTask(t) /\ NewTask(t)
  BY <1>1, <1>2, NothingOccurs, Zenon DEF SingleTask, NewTask
<1> QED BY <1>1, <1>3, NothingOccurs, Zenon DEF OnceInvariant

\* A worker takes tasks that nobody else has and that have not run.
LEMMA OnceTake ==
    ASSUME PoolInvariant, OnceInvariant, NEW w \in Worker, Take(w)
    PROVE  OnceInvariant'
<1>t. TypeOK
  BY DEF PoolInvariant
<1>1. /\ UNCHANGED <<posted, broadcasts, ran>>
      /\ \A a \in Actor, t \in Task : Carries(a, t)' <=> Carries(a, t)
  BY DEF Take, callVars, Carries
<1>2. /\ batch[w] = <<>> /\ thread_tasks'[w] = <<>>
      /\ \A v \in Worker \ {w} : batch'[v] = batch[v] /\ thread_tasks'[v] = thread_tasks[v]
  BY <1>t DEF Take, TypeOK
<1>3. CASE tasks = <<>>
  <2>1. tasks' = tasks /\ batch'[w] = thread_tasks[w]
    BY <1>t, <1>3 DEF Take, TypeOK
  <2>2. \A v \in Worker : Distinct(batch'[v]) /\ Distinct(thread_tasks'[v])
    BY <1>2, <2>1, NothingOccurs, Zenon DEF OnceInvariant
  <2>3. \A v \in Worker, t \in Task :
          /\ Occurs(t, thread_tasks'[v]) => v # w /\ Occurs(t, thread_tasks[v])
          /\ Occurs(t, batch'[v]) => IF v = w THEN Occurs(t, thread_tasks[w]) ELSE Occurs(t, batch[v])
    BY <1>2, <2>1, NothingOccurs, Zenon
  <2>4. \A t \in Task : SharedTask(t) => SharedTask(t)'
    BY <1>1, <2>1, <2>3, ZenonT(30) DEF SharedTask
  <2>5. \A t \in Task : SingleTask(t) => SingleTask(t)'
    BY <1>1, <2>1, <2>3, ZenonT(30) DEF SingleTask
  <2>6. \A t \in Task : NewTask(t) => NewTask(t)'
    BY <1>1, <2>1, <2>3, ZenonT(30) DEF NewTask
  <2> QED BY <1>1, <2>1, <2>2, <2>4, <2>5, <2>6, Zenon DEF OnceInvariant
<1>4. CASE tasks # <<>>
  <2> DEFINE x == Head(tasks)
  <2>1. tasks' = Tail(tasks) /\ batch'[w] = <<x>> \o thread_tasks[w]
    BY <1>t, <1>4 DEF Take, TypeOK
  <2>2. /\ x \in Task /\ Occurs(x, tasks) /\ Distinct(tasks')
        /\ \A t : Occurs(t, tasks') <=> Occurs(t, tasks) /\ t # x
    BY <1>t, <1>4, <2>1, DistinctTail, SeqTypes DEF TypeOK, OnceInvariant
  <2>3. x \notin broadcasts /\ SingleTask(x)
    BY <2>2 DEF OnceInvariant, SharedTask
  <2>4. ~Occurs(x, thread_tasks[w]) /\ ran[x] = <<>>
    BY <2>2, <2>3 DEF SingleTask
  <2>5. thread_tasks[w] \in Seq(Task) /\ Distinct(thread_tasks[w])
    BY <1>t DEF TypeOK, OnceInvariant
  <2> HIDE DEF x
  <2>6. /\ Distinct(batch'[w])
        /\ \A t : Occurs(t, batch'[w]) <=> Occurs(t, thread_tasks[w]) \/ t = x
    <3>1. /\ Distinct(<<x>> \o thread_tasks[w])
          /\ \A t : Occurs(t, <<x>> \o thread_tasks[w]) <=> Occurs(t, thread_tasks[w]) \/ t = x
      BY <2>2, <2>4, <2>5, DistinctRest
    <3>2. batch'[w] = <<x>> \o thread_tasks[w]
      BY <2>1 DEF x
    <3> QED BY <3>1, <3>2, Zenon
  <2>7. \A v \in Worker : Distinct(batch'[v]) /\ Distinct(thread_tasks'[v])
    BY <1>2, <2>6, NothingOccurs, Zenon DEF OnceInvariant
  <2>8. \A v \in Worker, t \in Task :
          /\ Occurs(t, thread_tasks'[v]) => v # w /\ Occurs(t, thread_tasks[v])
          /\ Occurs(t, batch'[v]) => IF v = w THEN Occurs(t, thread_tasks[w]) \/ t = x
                                             ELSE Occurs(t, batch[v])
    BY <1>2, <2>6, NothingOccurs, Zenon
  <2>9. \A t \in Task : t # x /\ SharedTask(t) => SharedTask(t)'
    BY <1>1, <2>2, <2>8, ZenonT(30) DEF SharedTask
  <2>10. \A t \in Task : SingleTask(t) => SingleTask(t)'
    BY <1>1, <2>2, <2>4, <2>8, ZenonT(30) DEF SingleTask
  <2>11. \A t \in Task : t # x /\ NewTask(t) => NewTask(t)'
    BY <1>1, <2>2, <2>8, ZenonT(30) DEF NewTask
  <2>12. ~NewTask(x)
    BY <2>2 DEF NewTask
  <2> QED BY <1>1, <2>2, <2>3, <2>7, <2>9, <2>10, <2>11, <2>12, Zenon DEF OnceInvariant
<1> QED BY <1>3, <1>4

\* A thread that runs a task adds itself to the threads that ran it.
LEMMA OnceRan ==
    ASSUME PoolInvariant, NEW a \in Actor, NEW x \in Task, Executed(x, a)
    PROVE  /\ \A t \in Task \ {x} : ran'[t] = ran[t]
           /\ ran[x] = <<>> => Len(ran'[x]) <= 1
           /\ \A v : Occurs(v, ran'[x]) <=> Occurs(v, ran[x]) \/ v = a
           /\ Distinct(ran[x]) /\ ~Occurs(a, ran[x]) => Distinct(ran'[x])
           /\ a \in Worker /\ (\A i \in DOMAIN ran[x] : ran[x][i] \in Worker)
                => \A i \in DOMAIN ran'[x] : ran'[x][i] \in Worker
<1>t. TypeOK
  BY DEF PoolInvariant
<1>1. ran[x] \in Seq(Actor) /\ ran'[x] = Append(ran[x], a) /\ \A t \in Task \ {x} : ran'[t] = ran[t]
  BY <1>t DEF TypeOK, Executed
<1>2. ran[x] = <<>> => Len(ran'[x]) <= 1
  BY <1>1
<1>3. \A v : Occurs(v, ran'[x]) <=> Occurs(v, ran[x]) \/ v = a
  BY <1>1, OccursInAppend
<1>4. Distinct(ran[x]) /\ ~Occurs(a, ran[x]) => Distinct(ran'[x])
  BY <1>1, DistinctAppend
<1>5. ASSUME a \in Worker, \A i \in DOMAIN ran[x] : ran[x][i] \in Worker
      PROVE  \A i \in DOMAIN ran'[x] : ran'[x][i] \in Worker
  BY <1>1, <1>5
<1> QED BY <1>1, <1>2, <1>3, <1>4, <1>5

\* A worker runs the first task of its batch, which leaves the batch.
LEMMA OnceExecute ==
    ASSUME PoolInvariant, OnceInvariant, NEW w \in Worker, ExecuteTask(w)
    PROVE  OnceInvariant'
<1>t. TypeOK
  BY DEF PoolInvariant
<1>0. PICK x \in Task : x = Head(batch[w])
  BY <1>t, SeqTypes DEF ExecuteTask, TypeOK
<1>1. /\ UNCHANGED <<tasks, thread_tasks, posted, broadcasts>>
      /\ \A a \in Actor, t \in Task : Carries(a, t)' <=> Carries(a, t)
      /\ \A v \in Worker \ {w} : batch'[v] = batch[v]
  BY <1>t DEF ExecuteTask, callVars, Carries, TypeOK
<1>2. /\ x \in Task /\ Occurs(x, batch[w]) /\ Distinct(batch'[w])
      /\ \A t : Occurs(t, batch'[w]) <=> Occurs(t, batch[w]) /\ t # x
  <2>1. batch[w] \in Seq(Task) /\ batch[w] # <<>> /\ batch'[w] = Tail(batch[w]) /\ Distinct(batch[w])
    BY <1>t DEF ExecuteTask, TypeOK, OnceInvariant
  <2> QED BY <1>0, <2>1, DistinctTail
<1>3. Executed(x, w) /\ w \in Actor
  BY <1>0 DEF ExecuteTask, Actor
<1>4. /\ \A t \in Task \ {x} : ran'[t] = ran[t]
      /\ ran[x] = <<>> => Len(ran'[x]) <= 1
      /\ \A v : Occurs(v, ran'[x]) <=> Occurs(v, ran[x]) \/ v = w
      /\ Distinct(ran[x]) /\ ~Occurs(w, ran[x]) => Distinct(ran'[x])
      /\ (\A i \in DOMAIN ran[x] : ran[x][i] \in Worker)
           => \A i \in DOMAIN ran'[x] : ran'[x][i] \in Worker
  BY <1>2, <1>3, OnceRan, Zenon
<1>5. \A v \in Worker : Distinct(batch'[v]) /\ Distinct(thread_tasks'[v])
  BY <1>1, <1>2, Zenon DEF OnceInvariant
<1>a. \A v \in Worker, t \in Task :
        Occurs(t, batch'[v]) => Occurs(t, batch[v]) /\ (v = w => t # x)
  <2>1. SUFFICES ASSUME NEW v \in Worker, NEW t \in Task, Occurs(t, batch'[v])
                 PROVE  Occurs(t, batch[v]) /\ (v = w => t # x)
    OBVIOUS
  <2>2. CASE v = w
    BY <1>2, <2>1, <2>2, Zenon
  <2>3. CASE v # w
    BY <1>1, <2>1, <2>3, Zenon
  <2> QED BY <2>2, <2>3
<1>6. ASSUME NEW t \in Task \ {x}
      PROVE  /\ SharedTask(t) => SharedTask(t)'
             /\ SingleTask(t) => SingleTask(t)'
             /\ NewTask(t) => NewTask(t)'
  <2>0. ran'[t] = ran[t] /\ t \in Task
    BY <1>4, Zenon
  <2>1. SharedTask(t) => SharedTask(t)'
    BY <1>1, <1>a, <2>0, ZenonT(30) DEF SharedTask
  <2>2. SingleTask(t) => SingleTask(t)'
    BY <1>1, <1>a, <2>0, ZenonT(30) DEF SingleTask
  <2>3. NewTask(t) => NewTask(t)'
    BY <1>1, <1>a, <2>0, ZenonT(30) DEF NewTask
  <2> QED BY <2>1, <2>2, <2>3
<1>7. SharedTask(x) => SharedTask(x)'
  <2>1. SUFFICES ASSUME SharedTask(x) PROVE SharedTask(x)'
    OBVIOUS
  <2>2. ~Occurs(w, ran[x]) /\ ~Occurs(x, thread_tasks[w])
    BY <1>2, <2>1, Zenon DEF SharedTask
  <2>3. Distinct(ran'[x]) /\ \A i \in DOMAIN ran'[x] : ran'[x][i] \in Worker
    BY <1>4, <2>1, <2>2, Zenon DEF SharedTask
  <2> QED BY <1>1, <1>4, <1>a, <2>1, <2>2, <2>3, ZenonT(30) DEF SharedTask
<1>8. SingleTask(x) => SingleTask(x)'
  <2>1. SUFFICES ASSUME SingleTask(x) PROVE SingleTask(x)'
    OBVIOUS
  <2>2. /\ ran[x] = <<>> /\ ~Occurs(x, tasks) /\ \A a \in Actor : ~Carries(a, x)'
        /\ \A v \in Worker : ~Occurs(x, batch'[v]) /\ ~Occurs(x, thread_tasks'[v])
    BY <1>1, <1>2, <2>1, Zenon DEF SingleTask
  <2>3. Len(ran'[x]) <= 1
    BY <1>4, <2>2, Zenon
  <2> QED BY <1>1, <2>2, <2>3, Zenon DEF SingleTask
<1>9. ~NewTask(x)
  BY <1>2 DEF NewTask
<1> QED BY <1>1, <1>2, <1>5, <1>6, <1>7, <1>8, <1>9, Zenon DEF OnceInvariant

\* The next task to be posted is nowhere yet.
LEMMA NextTaskIsNew ==
    ASSUME PoolInvariant, OnceInvariant, posted < MaxTasks
    PROVE  /\ posted + 1 \in Task /\ NewTask(posted + 1)
           /\ \A t \in Task : t > posted + 1 => t > posted /\ t # posted + 1
<1>t. TypeOK
  BY DEF PoolInvariant
<1>1. posted + 1 \in Task /\ posted + 1 > posted
  BY <1>t, PoolAssumption DEF TypeOK, Task
<1>2. \A t \in Task : t > posted + 1 => t > posted /\ t # posted + 1
  BY <1>t, PoolAssumption DEF TypeOK, Task
<1> QED BY <1>1, <1>2 DEF OnceInvariant

\* A caller takes a number of its own.
LEMMA OnceLock ==
    ASSUME PoolInvariant, OnceInvariant, NEW a \in Actor, LockLoop(a)
    PROVE  OnceInvariant'
<1>t. TypeOK
  BY DEF PoolInvariant
<1>0. PICK x \in Task : x = posted + 1
  BY NextTaskIsNew DEF LockLoop
<1>1. UNCHANGED <<tasks, thread_tasks, batch, broadcasts, ran>> /\ posted' = x
  BY <1>0 DEF LockLoop, workerVars
<1>2. NewTask(x) /\ \A t \in Task : t > x => t > posted /\ t # x
  BY <1>0, NextTaskIsNew DEF LockLoop
<1>3. \A b \in Actor, t \in Task : Carries(b, t)' <=> Carries(b, t) \/ (b = a /\ t = x)
  BY <1>t, <1>0 DEF LockLoop, Free, Carries, TypeOK
<1>4. ASSUME NEW t \in Task \ {x}
      PROVE  /\ SharedTask(t) => SharedTask(t)'
             /\ SingleTask(t) => SingleTask(t)'
             /\ NewTask(t) => NewTask(t)'
  <2>1. SharedTask(t) => SharedTask(t)'
    BY <1>1, <1>3, Zenon DEF SharedTask
  <2>2. SingleTask(t) => SingleTask(t)'
    BY <1>1, <1>3, Zenon DEF SingleTask
  <2>3. NewTask(t) => NewTask(t)'
    BY <1>1, <1>3, Zenon DEF NewTask
  <2> QED BY <2>1, <2>2, <2>3
<1>5. SingleTask(x)' /\ x \notin broadcasts
  <2>1. Len(<<>>) <= 1
    OBVIOUS
  <2> QED BY <1>1, <1>2, <1>3, <2>1, ZenonT(30) DEF SingleTask, NewTask
<1> QED BY <1>1, <1>2, <1>4, <1>5, Zenon DEF OnceInvariant

\* A caller whose loop is gone runs its task itself.
LEMMA OnceRunOnCaller ==
    ASSUME PoolInvariant, OnceInvariant, NEW a \in Actor, RunOnCaller(a)
    PROVE  OnceInvariant'
<1>0. PICK x \in Task : x = posted + 1
  BY NextTaskIsNew DEF RunOnCaller
<1>1. /\ UNCHANGED <<tasks, thread_tasks, batch, broadcasts>> /\ posted' = x
      /\ \A b \in Actor, t \in Task : Carries(b, t)' <=> Carries(b, t)
  BY <1>0 DEF RunOnCaller, workerVars, callVars, Carries
<1>2. NewTask(x) /\ \A t \in Task : t > x => t > posted /\ t # x
  BY <1>0, NextTaskIsNew DEF RunOnCaller
<1>3. /\ \A t \in Task \ {x} : ran'[t] = ran[t]
      /\ ran[x] = <<>> => Len(ran'[x]) <= 1
  BY <1>0, OnceRan DEF RunOnCaller
<1>4. ASSUME NEW t \in Task \ {x}
      PROVE  /\ SharedTask(t) => SharedTask(t)'
             /\ SingleTask(t) => SingleTask(t)'
             /\ NewTask(t) => NewTask(t)'
  <2>1. SharedTask(t) => SharedTask(t)'
    BY <1>1, <1>3, Zenon DEF SharedTask
  <2>2. SingleTask(t) => SingleTask(t)'
    BY <1>1, <1>3, Zenon DEF SingleTask
  <2>3. NewTask(t) => NewTask(t)'
    BY <1>1, <1>3, Zenon DEF NewTask
  <2> QED BY <2>1, <2>2, <2>3
<1>5. SingleTask(x)' /\ x \notin broadcasts
  <2>1. Len(ran'[x]) <= 1
    BY <1>2, <1>3, Zenon DEF NewTask
  <2> QED BY <1>1, <1>2, <2>1, Zenon DEF SingleTask, NewTask
<1> QED BY <1>1, <1>2, <1>4, <1>5, Zenon DEF OnceInvariant

\* PostTask queues the task it carries, or runs it.
LEMMA OncePost ==
    ASSUME PoolInvariant, OnceInvariant, NEW a \in Actor, PostTask(a)
    PROVE  OnceInvariant'
<1>t. TypeOK
  BY DEF PoolInvariant
<1>0. PICK x \in Task : x = arg[a]
  BY <1>t DEF PostTask, TypeOK, Task
<1>1. UNCHANGED <<thread_tasks, batch, posted, broadcasts>>
  BY DEF PostTask, workerVars
<1>2. /\ Carries(a, x)
      /\ \A b \in Actor, t \in Task : Carries(b, t)' <=> Carries(b, t) /\ b # a
      /\ \A t \in Task \ {x} : ~Carries(a, t)
  BY <1>t, <1>0 DEF PostTask, Carries, TypeOK
<1>3. x \notin broadcasts /\ SingleTask(x) /\ ~NewTask(x)
  BY <1>2 DEF OnceInvariant, SharedTask, NewTask
<1>4. ran[x] = <<>> /\ ~Occurs(x, tasks) /\ \A b \in Actor : ~Carries(b, x)'
  BY <1>2, <1>3 DEF SingleTask
<1>5. /\ \A t \in Task \ {x} : ran'[t] = ran[t] /\ (Occurs(t, tasks') <=> Occurs(t, tasks))
      /\ Distinct(tasks') /\ Len(ran'[x]) <= 1 /\ (Occurs(x, tasks') => ran'[x] = <<>>)
  <2>1. CASE shutdown
    <3>1. Executed(x, a) /\ tasks' = tasks
      BY <1>0, <2>1 DEF PostTask
    <3>2. (\A t \in Task \ {x} : ran'[t] = ran[t]) /\ Len(ran'[x]) <= 1
      BY <1>4, <3>1, OnceRan
    <3> QED BY <1>4, <3>1, <3>2 DEF OnceInvariant
  <2>2. CASE ~shutdown
    <3>1. tasks' = Append(tasks, x) /\ ran' = ran /\ tasks \in Seq(Task) /\ Distinct(tasks)
      BY <1>t, <1>0, <2>2 DEF PostTask, TypeOK, OnceInvariant
    <3>2. Distinct(tasks') /\ \A t : Occurs(t, tasks') <=> Occurs(t, tasks) \/ t = x
      BY <1>4, <3>1, DistinctAppend, OccursInAppend
    <3>3. Len(<<>>) <= 1
      OBVIOUS
    <3> QED BY <1>4, <3>1, <3>2, <3>3, Zenon
  <2> QED BY <2>1, <2>2
<1>6. ASSUME NEW t \in Task \ {x}
      PROVE  /\ SharedTask(t) => SharedTask(t)'
             /\ SingleTask(t) => SingleTask(t)'
             /\ NewTask(t) => NewTask(t)'
  <2>1. SharedTask(t) => SharedTask(t)'
    BY <1>1, <1>2, <1>5, Zenon DEF SharedTask
  <2>2. SingleTask(t) => SingleTask(t)'
    BY <1>1, <1>2, <1>5, Zenon DEF SingleTask
  <2>3. NewTask(t) => NewTask(t)'
    BY <1>1, <1>2, <1>5, Zenon DEF NewTask
  <2> QED BY <2>1, <2>2, <2>3
<1>7. SingleTask(x)'
  BY <1>1, <1>2, <1>3, <1>4, <1>5, Zenon DEF SingleTask
<1> QED BY <1>1, <1>3, <1>5, <1>6, <1>7, Zenon DEF OnceInvariant

\* PostTaskToAllWorkers gives the new task to every worker.
LEMMA OnceBroadcast ==
    ASSUME PoolInvariant, OnceInvariant, NEW a \in Poster, PostTaskToAllWorkers(a)
    PROVE  OnceInvariant'
<1>t. TypeOK
  BY DEF PoolInvariant
<1>0. PICK x \in Task : x = posted + 1
  BY NextTaskIsNew DEF PostTaskToAllWorkers
<1>1. /\ UNCHANGED <<tasks, batch, ran>> /\ posted' = x /\ broadcasts' = broadcasts \cup {x}
      /\ \A b \in Actor, t \in Task : Carries(b, t)' <=> Carries(b, t)
  BY <1>0 DEF PostTaskToAllWorkers, callVars, Carries
<1>2. NewTask(x) /\ \A t \in Task : t > x => t > posted /\ t # x
  BY <1>0, NextTaskIsNew DEF PostTaskToAllWorkers
<1>3. ASSUME NEW w \in Worker
      PROVE  /\ Distinct(thread_tasks'[w])
             /\ \A t : Occurs(t, thread_tasks'[w]) <=> Occurs(t, thread_tasks[w]) \/ t = x
  <2>1. /\ thread_tasks[w] \in Seq(Task) /\ thread_tasks'[w] = Append(thread_tasks[w], x)
        /\ Distinct(thread_tasks[w]) /\ ~Occurs(x, thread_tasks[w])
    BY <1>t, <1>0, <1>2 DEF PostTaskToAllWorkers, TypeOK, OnceInvariant, NewTask
  <2> QED BY <2>1, DistinctAppend, OccursInAppend
<1>4. ASSUME NEW t \in Task \ {x}
      PROVE  /\ SharedTask(t) => SharedTask(t)'
             /\ SingleTask(t) => SingleTask(t)'
             /\ NewTask(t) => NewTask(t)'
  <2>1. SharedTask(t) => SharedTask(t)'
    BY <1>1, <1>3, Zenon DEF SharedTask
  <2>2. SingleTask(t) => SingleTask(t)'
    BY <1>1, <1>3, Zenon DEF SingleTask
  <2>3. NewTask(t) => NewTask(t)'
    BY <1>1, <1>3, Zenon DEF NewTask
  <2> QED BY <2>1, <2>2, <2>3
<1>5. SharedTask(x)'
  <2>1. Distinct(ran'[x]) /\ (\A w : ~Occurs(w, ran'[x])) /\ DOMAIN ran'[x] = {}
    BY <1>1, <1>2, NothingOccurs DEF NewTask
  <2> QED BY <1>1, <1>2, <2>1, Zenon DEF SharedTask, NewTask
<1>6. \A w \in Worker : Distinct(batch'[w]) /\ Distinct(thread_tasks'[w])
  BY <1>1, <1>3, Zenon DEF OnceInvariant
<1> QED BY <1>1, <1>2, <1>4, <1>5, <1>6, Zenon DEF OnceInvariant

\* The remaining steps move no task.
LEMMA OnceStep == PoolInvariant /\ OnceInvariant /\ [Next]_vars => OnceInvariant'
<1> SUFFICES ASSUME PoolInvariant, OnceInvariant, [Next]_vars PROVE OnceInvariant'
  OBVIOUS
<1>t. TypeOK
  BY DEF PoolInvariant
<1>1. ASSUME NEW w \in Worker, WorkerStep(w) \/ SpuriousWake(w) PROVE OnceInvariant'
  <2>1. CASE Wait(w) \/ Turn(w) \/ SpuriousWake(w)
    BY <2>1, OnceIdle DEF Wait, Turn, SpuriousWake, onceVars, callVars, Carries
  <2> QED BY <1>1, <2>1, OnceTake, OnceExecute DEF WorkerStep
<1>2. ASSUME NEW a \in Actor, LockLoop(a) \/ RunOnCaller(a) \/ Call(a) PROVE OnceInvariant'
  <2>1. CASE NotifyOne(a) \/ ReleaseLoop(a)
    <3>1. UNCHANGED onceVars
      BY <2>1 DEF NotifyOne, ReleaseLoop, onceVars, workerVars
    <3>2. \A b \in Actor, t \in Task : Carries(b, t)' => Carries(b, t)
      BY <1>t, <2>1 DEF NotifyOne, ReleaseLoop, Carries, TypeOK
    <3> QED BY <3>1, <3>2, OnceIdle
  <2> QED BY <1>2, <2>1, OnceLock, OnceRunOnCaller, OncePost DEF Call
<1>3. ASSUME NEW a \in Poster, Owner(a) PROVE OnceInvariant'
  <2>1. CASE TerminateByOwner(a) \/ DropLoop(a)
    BY <2>1, OnceIdle, Zenon DEF TerminateByOwner, DropLoop, onceVars, workerVars, callVars, Carries
  <2> QED BY <1>3, <2>1, OnceBroadcast DEF Owner
<1>4. ASSUME DestructorTerminates \/ Destroyed \/ UNCHANGED vars PROVE OnceInvariant'
  BY <1>4, OnceIdle DEF DestructorTerminates, Destroyed, vars, onceVars, workerVars, callVars, Carries
<1> QED BY <1>1, <1>2, <1>3, <1>4 DEF Next

\* A closure given to PostTask runs at most once, and one given to
\* PostTaskToAllWorkers at most once on each worker and on no other thread.
THEOREM RunOnce == Spec => []RunsAtMostOnce
<1>1. OnceInvariant => RunsAtMostOnce
  <2> SUFFICES ASSUME OnceInvariant, NEW t \in Task
               PROVE  IF t \in broadcasts
                      THEN \A i, j \in DOMAIN ran[t] :
                              ran[t][i] \in Worker /\ (ran[t][i] = ran[t][j] => i = j)
                      ELSE Len(ran[t]) <= 1
    BY DEF RunsAtMostOnce
  <2> QED BY Zenon DEF OnceInvariant, SharedTask, SingleTask, Distinct
<1> QED BY <1>1, PoolCorrect, OnceInit, OnceStep, PTL DEF Spec

=============================================================================
