----------------------- MODULE ConcurrentMessageLoop ------------------------
(***************************************************************************)
(* fml/concurrent_message_loop.cc: the pool of worker threads that the     *)
(* Dart VM owns.  A step of a worker or of a caller is what it does in one *)
(* critical section of tasks_mutex_, so the steps between unlocking the    *)
(* mutex and notifying the condition variable, and between a task runner's *)
(* use of the loop and the release of its strong reference, are their own. *)
(*                                                                         *)
(* Tasks are numbered in the order they are posted.  What a task does is   *)
(* the environment's: while it runs, a worker may post more tasks.         *)
(***************************************************************************)
EXTENDS Integers, Sequences, FiniteSets

CONSTANTS
    Worker,         \* workers_
    Poster,         \* the other threads that post tasks
    NoActor,        \* "nobody"
    WorkersPost,    \* whether tasks post tasks
    MaxTasks        \* bound: tasks posted

ASSUME PoolAssumption ==
    /\ IsFiniteSet(Worker) /\ IsFiniteSet(Poster)
    /\ Worker \cap Poster = {} /\ NoActor \notin Worker \cup Poster
    /\ WorkersPost \in BOOLEAN /\ MaxTasks \in Nat

VARIABLES
    tasks,          \* tasks_
    thread_tasks,   \* thread_tasks_, <<>> where the map has no entry
    shutdown,       \* shutdown_
    pc,             \* where each worker is in WorkerMain
    batch,          \* the closures a worker took and has not finished
    shutdown_now,   \* WorkerMain's copy of shutdown_
    call,           \* where each thread is in ConcurrentTaskRunner::PostTask
    arg,            \* and the task it posts
    held,           \* whether the DartVM holds the loop
    destroyer,      \* the thread in ~ConcurrentMessageLoop
    dead,           \* whether the destructor has returned
    posted,         \* number of tasks posted
    broadcasts,     \* tasks posted to all workers
    owed,           \* and those of them posted before the shutdown
    ran             \* the threads that ran each task, in order

workerVars == <<pc, batch, shutdown_now>>
callVars == <<call, arg>>
lifeVars == <<held, destroyer, dead>>
vars == <<tasks, thread_tasks, shutdown, workerVars, callVars, lifeVars,
          posted, broadcasts, owed, ran>>

Actor == Worker \cup Poster
Task == 1..MaxTasks

Init ==
    /\ tasks = <<>> /\ thread_tasks = [w \in Worker |-> <<>>]
    /\ shutdown = FALSE
    /\ pc = [w \in Worker |-> "entry"]
    /\ batch = [w \in Worker |-> <<>>]
    /\ shutdown_now = [w \in Worker |-> FALSE]
    /\ call = [a \in Actor |-> "none"] /\ arg = [a \in Actor |-> 0]
    /\ held = TRUE /\ destroyer = NoActor /\ dead = FALSE
    /\ posted = 0 /\ broadcasts = {} /\ owed = {} /\ ran = [t \in Task |-> <<>>]

Executed(t, a) == ran' = [ran EXCEPT ![t] = Append(@, a)]

-----------------------------------------------------------------------------
(* WorkerMain.                                                             *)

Waiting == {w \in Worker : pc[w] = "waiting"}
Entering == {w \in Worker : pc[w] = "entry"}

HasThreadTasksLocked(w) == thread_tasks[w] # <<>>

\* The predicate of the wait.
MayProceed(w) == tasks # <<>> \/ shutdown \/ HasThreadTasksLocked(w)

Wait(w) ==
    /\ pc[w] = "entry" /\ ~MayProceed(w)
    /\ pc' = [pc EXCEPT ![w] = "waiting"]
    /\ UNCHANGED <<tasks, thread_tasks, shutdown, batch, shutdown_now,
                   callVars, lifeVars, posted, broadcasts, owed, ran>>

\* Mutant: the thread tasks are dropped when there is a task in the queue.
TakeForgettingThreadTasks(w) ==
    /\ pc[w] = "entry" /\ MayProceed(w)
    /\ pc' = [pc EXCEPT ![w] = "running"]
    /\ shutdown_now' = [shutdown_now EXCEPT ![w] = shutdown]
    /\ IF tasks = <<>>
       THEN tasks' = tasks /\ batch' = [batch EXCEPT ![w] = thread_tasks[w]]
       ELSE /\ tasks' = Tail(tasks)
            /\ batch' = [batch EXCEPT ![w] = <<Head(tasks)>>]
    /\ thread_tasks' = [thread_tasks EXCEPT ![w] = <<>>]
    /\ UNCHANGED <<shutdown, callVars, lifeVars, posted, broadcasts, owed, ran>>

\* One critical section: shutdown_now, the first task and all of the
\* worker's thread tasks.
Take(w) ==
    /\ pc[w] = "entry" /\ MayProceed(w)
    /\ pc' = [pc EXCEPT ![w] = "running"]
    /\ shutdown_now' = [shutdown_now EXCEPT ![w] = shutdown]
    /\ IF tasks = <<>>
       THEN tasks' = tasks /\ batch' = [batch EXCEPT ![w] = thread_tasks[w]]
       ELSE /\ tasks' = Tail(tasks)
            /\ batch' = [batch EXCEPT ![w] = <<Head(tasks)>> \o thread_tasks[w]]
    /\ thread_tasks' = [thread_tasks EXCEPT ![w] = <<>>]
    /\ UNCHANGED <<shutdown, callVars, lifeVars, posted, broadcasts, owed, ran>>

\* A task of the batch returns, unless it is in ~ConcurrentMessageLoop: a worker
\* that is left to destroy the loop joins itself.
ExecuteTask(w) ==
    /\ pc[w] = "running" /\ batch[w] # <<>> /\ call[w] = "none" /\ destroyer # w
    /\ Executed(Head(batch[w]), w)
    /\ batch' = [batch EXCEPT ![w] = Tail(@)]
    /\ UNCHANGED <<tasks, thread_tasks, shutdown, pc, shutdown_now, callVars,
                   lifeVars, posted, broadcasts, owed>>

\* Mutant: shutdown_ is read again, without the mutex.
TurnOnSharedFlag(w) ==
    /\ pc[w] = "running" /\ batch[w] = <<>>
    /\ pc' = [pc EXCEPT ![w] = IF shutdown THEN "exited" ELSE "entry"]
    /\ UNCHANGED <<tasks, thread_tasks, shutdown, batch, shutdown_now, callVars,
                   lifeVars, posted, broadcasts, owed, ran>>

\* The end of the loop's body.
Turn(w) ==
    /\ pc[w] = "running" /\ batch[w] = <<>>
    /\ pc' = [pc EXCEPT ![w] = IF shutdown_now[w] THEN "exited" ELSE "entry"]
    /\ UNCHANGED <<tasks, thread_tasks, shutdown, batch, shutdown_now, callVars,
                   lifeVars, posted, broadcasts, owed, ran>>

\* A condition variable may wake a thread that nobody notified.
SpuriousWake(w) ==
    /\ pc[w] = "waiting"
    /\ pc' = [pc EXCEPT ![w] = "entry"]
    /\ UNCHANGED <<tasks, thread_tasks, shutdown, batch, shutdown_now, callVars,
                   lifeVars, posted, broadcasts, owed, ran>>

-----------------------------------------------------------------------------
(* ConcurrentTaskRunner::PostTask and ConcurrentMessageLoop::PostTask.     *)

\* Threads whose weak_loop_.lock() succeeded and has not been released.
Borrowers == {a \in Actor : call[a] # "none"}
LoopAlive == held \/ Borrowers # {}

\* A thread that is free to call: a worker calls from a task.
Free(a) ==
    /\ call[a] = "none" /\ destroyer # a
    /\ a \in Worker => WorkersPost /\ pc[a] = "running" /\ batch[a] # <<>>

\* weak_loop_.lock() succeeds.
LockLoop(a) ==
    /\ Free(a) /\ LoopAlive /\ posted < MaxTasks
    /\ posted' = posted + 1
    /\ call' = [call EXCEPT ![a] = "locked"]
    /\ arg' = [arg EXCEPT ![a] = posted + 1]
    /\ UNCHANGED <<tasks, thread_tasks, shutdown, workerVars, lifeVars,
                   broadcasts, owed, ran>>

\* weak_loop_.lock() fails and the task runs on the caller's thread.
RunOnCaller(a) ==
    /\ Free(a) /\ ~LoopAlive /\ posted < MaxTasks
    /\ posted' = posted + 1
    /\ Executed(posted + 1, a)
    /\ UNCHANGED <<tasks, thread_tasks, shutdown, workerVars, callVars, lifeVars,
                   broadcasts, owed>>

\* Mutant: a post both runs and queues a task after the shutdown.
PostTaskThoughShutdown(a) ==
    /\ call[a] = "locked"
    /\ IF shutdown
       THEN /\ Executed(arg[a], a)
            /\ tasks' = Append(tasks, arg[a])
            /\ call' = [call EXCEPT ![a] = "notifying"]
       ELSE /\ tasks' = Append(tasks, arg[a])
            /\ call' = [call EXCEPT ![a] = "notifying"]
            /\ UNCHANGED ran
    /\ UNCHANGED <<thread_tasks, shutdown, workerVars, arg, lifeVars, posted,
                   broadcasts, owed>>

\* Mutant: a post notifies nobody.
PostTaskUnnotified(a) ==
    /\ call[a] = "locked"
    /\ IF shutdown THEN Executed(arg[a], a) /\ UNCHANGED tasks
                   ELSE tasks' = Append(tasks, arg[a]) /\ UNCHANGED ran
    /\ call' = [call EXCEPT ![a] = "returning"]
    /\ UNCHANGED <<thread_tasks, shutdown, workerVars, arg, lifeVars, posted,
                   broadcasts, owed>>

\* Mutant: a post notifies only when the queue was empty.
PostTaskNotifiesOnce(a) ==
    /\ call[a] = "locked"
    /\ IF shutdown
       THEN /\ Executed(arg[a], a)
            /\ call' = [call EXCEPT ![a] = "returning"]
            /\ UNCHANGED tasks
       ELSE /\ tasks' = Append(tasks, arg[a])
            /\ call' = [call EXCEPT ![a] = IF tasks = <<>> THEN "notifying"
                                                           ELSE "returning"]
            /\ UNCHANGED ran
    /\ UNCHANGED <<thread_tasks, shutdown, workerVars, arg, lifeVars, posted,
                   broadcasts, owed>>

\* PostTask up to the unlock.
PostTask(a) ==
    /\ call[a] = "locked"
    /\ IF shutdown
       THEN /\ Executed(arg[a], a)
            /\ call' = [call EXCEPT ![a] = "returning"]
            /\ UNCHANGED tasks
       ELSE /\ tasks' = Append(tasks, arg[a])
            /\ call' = [call EXCEPT ![a] = "notifying"]
            /\ UNCHANGED ran
    /\ UNCHANGED <<thread_tasks, shutdown, workerVars, arg, lifeVars, posted,
                   broadcasts, owed>>

\* notify_one wakes some waiting worker, if there is one.
NotifyOne(a) ==
    /\ call[a] = "notifying"
    /\ call' = [call EXCEPT ![a] = "returning"]
    /\ \/ Waiting = {} /\ UNCHANGED pc
       \/ \E w \in Waiting : pc' = [pc EXCEPT ![w] = "entry"]
    /\ UNCHANGED <<tasks, thread_tasks, shutdown, batch, shutdown_now, arg,
                   lifeVars, posted, broadcasts, owed, ran>>

\* The runner drops its strong reference: the last one destroys the loop.
ReleaseLoop(a) ==
    /\ call[a] = "returning"
    /\ call' = [call EXCEPT ![a] = "none"]
    /\ destroyer' = IF ~held /\ Borrowers = {a} THEN a ELSE destroyer
    /\ UNCHANGED <<tasks, thread_tasks, shutdown, workerVars, arg, held, dead,
                   posted, broadcasts, owed, ran>>

-----------------------------------------------------------------------------
(* The owner of the loop, which is one of the posting threads.             *)

NotifiedAll == pc' = [w \in Worker |-> IF pc[w] = "waiting" THEN "entry" ELSE pc[w]]

PostTaskToAllWorkers(a) ==
    /\ held /\ call[a] = "none" /\ posted < MaxTasks
    /\ posted' = posted + 1
    /\ thread_tasks' = [w \in Worker |-> Append(thread_tasks[w], posted + 1)]
    /\ broadcasts' = broadcasts \cup {posted + 1}
    /\ owed' = IF shutdown THEN owed ELSE owed \cup {posted + 1}
    /\ NotifiedAll
    /\ UNCHANGED <<tasks, shutdown, batch, shutdown_now, callVars, lifeVars, ran>>

\* Terminate called by the owner, before it lets go of the loop.
TerminateByOwner(a) ==
    /\ held /\ call[a] = "none" /\ ~shutdown
    /\ shutdown' = TRUE
    /\ NotifiedAll
    /\ UNCHANGED <<tasks, thread_tasks, batch, shutdown_now, callVars, lifeVars,
                   posted, broadcasts, owed, ran>>

\* ~DartVM drops the loop, and destroys it unless a runner holds it.
DropLoop(a) ==
    /\ held /\ call[a] = "none"
    /\ held' = FALSE
    /\ destroyer' = IF Borrowers = {} THEN a ELSE destroyer
    /\ UNCHANGED <<tasks, thread_tasks, shutdown, workerVars, callVars, dead,
                   posted, broadcasts, owed, ran>>

\* Mutant: the shutdown notifies one worker.
DestructorTerminatesQuietly ==
    /\ destroyer # NoActor /\ ~dead /\ ~shutdown
    /\ shutdown' = TRUE
    /\ \/ Waiting = {} /\ UNCHANGED pc
       \/ \E w \in Waiting : pc' = [pc EXCEPT ![w] = "entry"]
    /\ UNCHANGED <<tasks, thread_tasks, batch, shutdown_now, callVars, lifeVars,
                   posted, broadcasts, owed, ran>>

\* ~ConcurrentMessageLoop: Terminate.
DestructorTerminates ==
    /\ destroyer # NoActor /\ ~dead /\ ~shutdown
    /\ shutdown' = TRUE
    /\ NotifiedAll
    /\ UNCHANGED <<tasks, thread_tasks, batch, shutdown_now, callVars, lifeVars,
                   posted, broadcasts, owed, ran>>

\* Mutant: the destructor does not join.
DestroyedUnjoined ==
    /\ destroyer # NoActor /\ ~dead /\ shutdown
    /\ dead' = TRUE
    /\ UNCHANGED <<tasks, thread_tasks, shutdown, workerVars, callVars, held,
                   destroyer, posted, broadcasts, owed, ran>>

\* ~ConcurrentMessageLoop: every worker is joined.
Destroyed ==
    /\ destroyer # NoActor /\ ~dead /\ shutdown
    /\ \A w \in Worker : pc[w] = "exited"
    /\ dead' = TRUE
    /\ UNCHANGED <<tasks, thread_tasks, shutdown, workerVars, callVars, held,
                   destroyer, posted, broadcasts, owed, ran>>

-----------------------------------------------------------------------------
WorkerStep(w) == Wait(w) \/ Take(w) \/ ExecuteTask(w) \/ Turn(w)
Call(a) == PostTask(a) \/ NotifyOne(a) \/ ReleaseLoop(a)
Owner(a) == PostTaskToAllWorkers(a) \/ TerminateByOwner(a) \/ DropLoop(a)

Next ==
    \/ \E w \in Worker : WorkerStep(w) \/ SpuriousWake(w)
    \/ \E a \in Actor : LockLoop(a) \/ RunOnCaller(a) \/ Call(a)
    \/ \E a \in Poster : Owner(a)
    \/ DestructorTerminates \/ Destroyed

Spec == Init /\ [][Next]_vars

\* Threads are scheduled, tasks return, and ~DartVM happens when it happens.
FairSpec ==
    /\ Spec
    /\ \A w \in Worker : WF_vars(WorkerStep(w))
    /\ \A a \in Actor : WF_vars(Call(a))
    /\ WF_vars(DestructorTerminates) /\ WF_vars(Destroyed)

-----------------------------------------------------------------------------
(* Properties.                                                             *)

Occurs(t, s) == \E i \in DOMAIN s : s[i] = t

\* The types of the variables; and a worker leaves nothing of its batch when
\* it goes back to the queue or leaves WorkerMain.
TypeOK ==
    /\ tasks \in Seq(Task)
    /\ thread_tasks \in [Worker -> Seq(Task)]
    /\ shutdown \in BOOLEAN
    /\ pc \in [Worker -> {"entry", "waiting", "running", "exited"}]
    /\ batch \in [Worker -> Seq(Task)]
    /\ shutdown_now \in [Worker -> BOOLEAN]
    /\ call \in [Actor -> {"none", "locked", "notifying", "returning"}]
    /\ arg \in [Actor -> 0..MaxTasks]
    /\ \A a \in Actor : call[a] # "none" => arg[a] # 0
    /\ held \in BOOLEAN /\ dead \in BOOLEAN
    /\ destroyer \in Actor \cup {NoActor}
    /\ posted \in 0..MaxTasks
    /\ owed \subseteq broadcasts /\ broadcasts \subseteq Task
    /\ \A w \in Worker : batch[w] # <<>> => pc[w] = "running"
    /\ ran \in [Task -> Seq(Actor)]

\* No thread is inside the loop once it is destroyed: the destructor starts
\* when the last strong reference is gone, so no caller is in PostTask
\* (WorkerMain and PostTask use the loop's members without a reference of
\* their own), and it returns after every worker left WorkerMain.
NobodyInDeadLoop ==
    /\ destroyer # NoActor => ~LoopAlive
    /\ dead => \A w \in Worker : pc[w] = "exited" /\ batch[w] = <<>>

\* While a worker sleeps, every queued task has a worker on its way to it:
\* one that is about to look at the queue, or a notification that a poster
\* has not delivered yet.  PostTask notifies one worker per task, after the
\* unlock, and a notification finds every worker busy or takes one of the
\* sleepers; so a burst of tasks is not run by one worker while others sleep.
\* No worker sleeps on a task of its own or on a shutdown.
NoIdleWorker ==
    /\ Waiting # {} =>
         Len(tasks) <= Cardinality(Entering)
                       + Cardinality({a \in Actor : call[a] = "notifying"})
    /\ \A w \in Waiting : thread_tasks[w] = <<>> /\ ~shutdown

\* A task that was posted to all workers before the shutdown is never lost:
\* each worker has run it, has it in its batch, or will look for it again.
\* This rests on reading shutdown_ and the thread tasks in one critical
\* section ("Shutdown cannot be read with the task mutex unlocked").
BroadcastNotLost ==
    \A t \in owed, w \in Worker :
       \/ Occurs(w, ran[t])
       \/ Occurs(t, batch[w])
       \/ /\ Occurs(t, thread_tasks[w])
          /\ pc[w] # "exited" /\ ~(pc[w] = "running" /\ shutdown_now[w])

\* A closure given to PostTask runs at most once, on a worker or on the
\* caller's thread, and one given to PostTaskToAllWorkers at most once on each
\* worker and on no other thread, whatever the shutdown and the destruction do.
RunsAtMostOnce ==
    \A t \in Task :
       IF t \in broadcasts
       THEN \A i, j \in DOMAIN ran[t] :
               ran[t][i] \in Worker /\ (ran[t][i] = ran[t][j] => i = j)
       ELSE Len(ran[t]) <= 1

\* In the end the workers have emptied the queue of a loop that is not shut down
\* (there are MaxTasks tasks).  A task posted to all workers has run on all of
\* them, even when the loop is shut down and destroyed right afterwards, and the
\* destructor has returned, unless a worker was left to destroy the loop and
\* joins itself.
PoolFinishes ==
    <>[](/\ tasks = <<>> \/ shutdown
         /\ destroyer \in Worker \/ \A t \in owed, w \in Worker : Occurs(w, ran[t])
         /\ destroyer \in Poster => dead)

\* "Don't just drop tasks on the floor in case of shutdown."
\* (The code does not keep this: at the shutdown each worker takes one more task.)
NothingDropped == dead => tasks = <<>>

\* Tasks "could themselves try to post more tasks to the message loop": the
\* worker that does so is never the one left to destroy the loop, which
\* would join itself.
\* (The code does not keep this: ~DartVM may drop its reference during the post.)
NoWorkerJoinsItself == destroyer \notin Worker

=============================================================================
