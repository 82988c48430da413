---------------------------- MODULE MessageLoop -----------------------------
(***************************************************************************)
(* fml/message_loop_impl.cc with the Linux loop, fml/task_runner.cc and    *)
(* fml/thread.cc, on top of the table of task queues.  Each thread has one *)
(* loop and each loop one queue, so a queue id names all three.            *)
(*                                                                         *)
(* A loop thread alternates between epoll_wait and FlushTasks; the bodies  *)
(* of tasks are the environment's: while a task runs on a thread, that     *)
(* thread may merge or unmerge queues and add or remove task observers, as *)
(* Engine::Run, ~Shell and the Dart isolates do.  Clients are the other    *)
(* threads of the process: they post tasks and join threads.               *)
(***************************************************************************)
EXTENDS MessageLoopTaskQueues

CONSTANTS
    Client,         \* threads that post tasks
    Joinable,       \* threads made with fml::Thread, which are joined
    NoTask,         \* "no closure"
    MaxMerges       \* bound: calls of Merge

VARIABLES
    pc,             \* where each loop thread is
    now,            \* fml::TimePoint::Now()
    flush_now,      \* FlushTasks' now
    running,        \* loops whose running_ is set
    terminated,     \* loops whose terminated_ is set
    leaving,        \* loops past Run(), in DoRun's last flush
    invocation,     \* the task FlushTasks is invoking, with its queue
    to_notify,      \* FlushTasks' snapshot of the observers still to call
    posting,        \* a client between PostTask's test and RegisterTask
    quits,          \* closures that Thread::Join posted
    joining,        \* threads being joined
    merges,         \* number of merges
    merged_by       \* the task that last merged each queue into another

loopVars == <<pc, flush_now, running, terminated, leaving, invocation, to_notify>>
clientVars == <<posting, quits, joining>>
envVars == <<merges, merged_by>>
vars == <<queueVars, loopVars, clientVars, now, envVars>>

ASSUME LoopAssumption ==
    /\ 0 \in Time
    /\ NoTask \notin [queue : QueueId, task : Task]

NotPosting == [queue |-> kUnmerged, quit |-> FALSE]

LoopState == {"none", "created", "ready", "waiting", "flushing", "invoking",
              "observing", "disposing", "done"}

LoopInit ==
    /\ Init
    /\ pc = [t \in QueueId |-> "none"]
    /\ now = 0
    /\ flush_now = [t \in QueueId |-> 0]
    /\ running = {} /\ terminated = {} /\ leaving = {}
    /\ invocation = [t \in QueueId |-> NoTask]
    /\ to_notify = [t \in QueueId |-> {}]
    /\ posting = [c \in Client |-> NotPosting]
    /\ quits = {} /\ joining = {}
    /\ merges = 0 /\ merged_by = [q \in QueueId |-> -1]

-----------------------------------------------------------------------------
(* The loop thread t.                                                      *)

\* MessageLoopImpl's constructor; nobody else knows the loop before it is ready.
ConstructQueue(t) ==
    /\ pc[t] = "none"
    /\ CreateTaskQueue(t)
    /\ pc' = [pc EXCEPT ![t] = "created"]
    /\ UNCHANGED <<flush_now, running, terminated, leaving, invocation, to_notify,
                   clientVars, now, envVars>>

ConstructWakeable(t) ==
    /\ pc[t] = "created"
    /\ SetWakeable(t)
    /\ pc' = [pc EXCEPT ![t] = "ready"]
    /\ UNCHANGED <<flush_now, running, terminated, leaving, invocation, to_notify,
                   clientVars, now, envVars>>

\* DoRun enters Run.
EnterRun(t) ==
    /\ pc[t] = "ready"
    /\ pc' = [pc EXCEPT ![t] = "waiting"]
    /\ running' = running \cup {t}
    /\ UNCHANGED <<queueVars, flush_now, terminated, leaving, invocation, to_notify,
                   clientVars, now, envVars>>

\* epoll_wait returns, the timer is drained and FlushTasks reads the clock.
OnEventFired(t) ==
    /\ pc[t] = "waiting" /\ t \in running
    /\ wake[t] <= now
    /\ WakeFires(t)
    /\ pc' = [pc EXCEPT ![t] = "flushing"]
    /\ flush_now' = [flush_now EXCEPT ![t] = now]
    /\ UNCHANGED <<running, terminated, leaving, invocation, to_notify,
                   clientVars, now, envVars>>

\* Run returns; DoRun sets terminated_ and flushes one last time.
LeaveRun(t) ==
    /\ pc[t] = "waiting" /\ t \notin running
    /\ terminated' = terminated \cup {t}
    /\ leaving' = leaving \cup {t}
    /\ pc' = [pc EXCEPT ![t] = "flushing"]
    /\ flush_now' = [flush_now EXCEPT ![t] = now]
    /\ UNCHANGED <<queueVars, running, invocation, to_notify, clientVars, now, envVars>>

\* FlushTasks gets a task.
FlushNext(t) ==
    /\ pc[t] = "flushing"
    /\ TakeNextTask(t, flush_now[t])
    /\ invocation' = [invocation EXCEPT ![t] = PeekNextTaskUnlocked(t)]
    /\ pc' = [pc EXCEPT ![t] = "invoking"]
    /\ UNCHANGED <<flush_now, running, terminated, leaving, to_notify, clientVars, now, envVars>>

\* Mutant: the last closure of the flush is kept alive while the loop waits.
FlushEndsKeepsClosure(t) ==
    /\ pc[t] = "flushing"
    /\ NoTaskToRun(t, flush_now[t])
    /\ pc' = [pc EXCEPT ![t] = IF t \in leaving THEN "disposing" ELSE "waiting"]
    /\ UNCHANGED <<flush_now, running, terminated, leaving, invocation, to_notify,
                   clientVars, now, envVars>>

\* FlushTasks gets none and ends.
FlushEnds(t) ==
    /\ pc[t] = "flushing"
    /\ NoTaskToRun(t, flush_now[t])
    /\ pc' = [pc EXCEPT ![t] = IF t \in leaving THEN "disposing" ELSE "waiting"]
    /\ invocation' = [invocation EXCEPT ![t] = NoTask]
    /\ UNCHANGED <<flush_now, running, terminated, leaving, to_notify, clientVars, now, envVars>>

\* Mutant: Terminate sets terminated_ and leaves running_ alone.
InvokedKeepsRunning(t) ==
    /\ pc[t] = "invoking"
    /\ pc' = [pc EXCEPT ![t] = "observing"]
    /\ to_notify' = [to_notify EXCEPT ![t] = GetObserversToNotify(t)]
    /\ UNCHANGED <<queueVars, flush_now, leaving, invocation, running, clientVars, now, envVars>>
    /\ terminated' = IF invocation[t].task.closure \in quits
                     THEN terminated \cup {t} ELSE terminated

\* The invocation returns and the observers are copied.  A closure of
\* Thread::Join terminates the loop of the thread it runs on.
Invoked(t) ==
    /\ pc[t] = "invoking"
    /\ pc' = [pc EXCEPT ![t] = "observing"]
    /\ to_notify' = [to_notify EXCEPT ![t] = GetObserversToNotify(t)]
    /\ UNCHANGED <<flush_now, leaving, invocation, clientVars, now, envVars>>
    /\ IF invocation[t].task.closure \in quits
       THEN /\ terminated' = terminated \cup {t}
            /\ running' = running \ {t}
            /\ wake' = [wake EXCEPT ![t] = now]
            /\ UNCHANGED <<entryVars, mergeVars, countVars, source, fired>>
       ELSE UNCHANGED <<queueVars, running, terminated>>

NotifyObserver(t, o) ==
    /\ pc[t] = "observing" /\ o \in to_notify[t]
    /\ to_notify' = [to_notify EXCEPT ![t] = @ \ {o}]
    /\ UNCHANGED <<queueVars, pc, flush_now, running, terminated, leaving, invocation,
                   clientVars, now, envVars>>

\* All observers called: FlushTasks goes round its loop.
Observed(t) ==
    /\ pc[t] = "observing" /\ to_notify[t] = {}
    /\ pc' = [pc EXCEPT ![t] = "flushing"]
    /\ UNCHANGED <<queueVars, flush_now, running, terminated, leaving, invocation, to_notify,
                   clientVars, now, envVars>>

\* DoRun drops what is left.
DropPending(t) ==
    /\ pc[t] = "disposing"
    /\ DisposeTasks(t)
    /\ pc' = [pc EXCEPT ![t] = "done"]
    /\ UNCHANGED <<flush_now, running, terminated, leaving, invocation, to_notify,
                   clientVars, now, envVars>>

\* ~MessageLoopImpl, once the thread has ended and no client is in PostTask.
DestroyLoop(t) ==
    /\ pc[t] = "done" /\ owner_of[t] = {}
    /\ \A c \in Client : posting[c].queue # t
    /\ Dispose(t)
    /\ UNCHANGED <<loopVars, clientVars, now, envVars>>

-----------------------------------------------------------------------------
(* What the tasks do.                                                      *)

\* The queue whose task thread t is running.
Running(t) == IF pc[t] = "invoking" THEN invocation[t].queue ELSE kUnmerged

\* Engine::Run: a task of q, on q's own thread, merges q into p.
TaskMerges(p, q) ==
    /\ Running(q) = q /\ {p, q} \cap (joining \cup terminated) = {}
    /\ pc[p] \notin {"none", "created"}
    /\ merges < MaxMerges
    /\ Merge(p, q)
    /\ merges' = merges + 1
    /\ merged_by' = [merged_by EXCEPT ![q] = invocation[q].task.closure]
    /\ UNCHANGED <<loopVars, clientVars, now>>

\* ~Shell: a task of p, on p's own thread, takes q off it again.
TaskUnmerges(p, q) ==
    /\ Running(p) = p
    /\ Unmerge(p, q)
    /\ UNCHANGED <<loopVars, clientVars, now, envVars>>

\* An isolate that starts adds its observer to the queue of the thread it is on,
\* and removes it from that queue on the thread that serves it.
TaskAddsObserver(t, k) ==
    /\ pc[t] = "invoking" /\ ~IsSubsumed(t)
    /\ AddTaskObserver(t, k)
    /\ UNCHANGED <<loopVars, clientVars, now, envVars>>

TaskRemovesObserver(t, q, k) ==
    /\ pc[t] = "invoking" /\ ~IsSubsumed(t)
    /\ q \in Group(t) /\ k \in observers[q]
    /\ RemoveTaskObserver(q, k)
    /\ UNCHANGED <<loopVars, clientVars, now, envVars>>

-----------------------------------------------------------------------------
(* Clients, and the clock.                                                 *)

\* Bound: every post in flight, and a join of every thread that can be joined,
\* still finds a registration left.
PostsLeft ==
    registered + Cardinality({c \in Client : posting[c] # NotPosting})
               + Cardinality(Joinable \ joining) < MaxTasks

\* PostTask reads terminated_ ...
PostTask(c, q) ==
    /\ posting[c] = NotPosting /\ PostsLeft
    /\ pc[q] \notin {"none", "created"} /\ q \in entries
    /\ q \notin terminated
    /\ posting' = [posting EXCEPT ![c] = [queue |-> q, quit |-> FALSE]]
    /\ UNCHANGED <<queueVars, loopVars, quits, joining, now, envVars>>

\* Thread::Join posts a closure too.  The thread is not merged with another one:
\* ~Shell takes its queues apart before the threads are joined.
Join(c, q) ==
    /\ posting[c] = NotPosting
    /\ pc[q] \notin {"none", "created"} /\ q \in entries
    /\ q \in Joinable \ joining /\ owner_of[q] = {} /\ ~IsSubsumed(q)
    /\ joining' = joining \cup {q}
    /\ posting' = [posting EXCEPT ![c] = [queue |-> q, quit |-> TRUE]]
    /\ UNCHANGED <<queueVars, loopVars, quits, now, envVars>>

\* ... and then registers the task, whatever happened to the loop in between.
PostTaskRegister(c, time) ==
    /\ posting[c] # NotPosting
    /\ posting[c].quit => time = now
    /\ RegisterTask(posting[c].queue, time, "kUnspecified")
    /\ quits' = IF posting[c].quit THEN quits \cup {registered} ELSE quits
    /\ posting' = [posting EXCEPT ![c] = NotPosting]
    /\ UNCHANGED <<loopVars, joining, now, envVars>>

Tick ==
    /\ now + 1 \in Time
    /\ now' = now + 1
    /\ UNCHANGED <<queueVars, loopVars, clientVars, envVars>>

-----------------------------------------------------------------------------
LoopThread(t) ==
    \/ ConstructQueue(t) \/ ConstructWakeable(t) \/ EnterRun(t)
    \/ OnEventFired(t) \/ LeaveRun(t) \/ FlushNext(t) \/ FlushEnds(t)
    \/ Invoked(t) \/ Observed(t) \/ DropPending(t)
    \/ \E o \in to_notify[t] : NotifyObserver(t, o)

LoopNext ==
    \/ \E t \in QueueId : LoopThread(t) \/ DestroyLoop(t)
    \/ \E t \in QueueId, k \in ObserverKey :
          TaskAddsObserver(t, k) \/ \E q \in QueueId : TaskRemovesObserver(t, q, k)
    \/ \E p, q \in QueueId : TaskMerges(p, q) \/ TaskUnmerges(p, q)
    \/ \E c \in Client :
          \/ \E q \in QueueId : PostTask(c, q) \/ Join(c, q)
          \/ \E time \in Time : PostTaskRegister(c, time)
    \/ Tick

\* The operating system runs every thread that can run, the last reference to a
\* loop is eventually dropped, and time passes.
Fairness ==
    /\ \A t \in QueueId : WF_vars(LoopThread(t)) /\ WF_vars(DestroyLoop(t))
    /\ \A c \in Client : WF_vars(\E time \in Time : PostTaskRegister(c, time))
    /\ WF_vars(Tick)

LoopSpec == LoopInit /\ [][LoopNext]_vars
FairLoopSpec == LoopSpec /\ Fairness

-----------------------------------------------------------------------------
(* Properties.                                                             *)

Pending(q) == source[q].primary \cup source[q].secondary

\* The variables of the loops and of their clients have their types; a loop keeps
\* no closure alive while it waits; and no observer is called after it was
\* removed, although FlushTasks calls a copy.
LoopInvariant ==
    /\ pc \in [QueueId -> LoopState]
    /\ now \in Time /\ flush_now \in [QueueId -> Time]
    /\ running \cup terminated \cup leaving \cup joining \subseteq QueueId
    /\ \A t \in QueueId :
          /\ pc[t] \in {"invoking", "observing"} => invocation[t] # NoTask
          /\ invocation[t] # NoTask => pc[t] \in {"flushing", "invoking", "observing"}
    /\ to_notify \in [QueueId -> SUBSET (QueueId \X ObserverKey)]
    /\ \A t \in QueueId : \A o \in to_notify[t] : o[2] \in observers[o[1]]

\* TaskRunner::RunsTasksOnCurrentThread, read on thread t for the runner of q.
RunsTasksOnCurrentThread(t, q) == RunsOnTheSameThread(t, q)

\* While a task of q runs, on whichever thread, q's runner agrees that it runs
\* its tasks there: the DCHECKs of the shell hold through merges.
TaskKnowsItsThread ==
    \A t \in QueueId : pc[t] = "invoking" => RunsTasksOnCurrentThread(t, invocation[t].queue)

\* A runner that says it runs its tasks on the current thread is the runner of
\* that thread, or of a queue that the loop of that thread serves.
\* (The code does not keep this: a task that merged its own queue away is told
\* that the other loop's runner runs on its thread.)
RunsOnServingThread ==
    \A t, q \in QueueId :
        pc[t] = "invoking" /\ RunsTasksOnCurrentThread(t, q) => q \in Group(t)

\* Two threads run tasks of one queue at the same time only while the task that
\* merged the queue into the other thread has not yet returned.
OverlapOnlyWhileMerging ==
    \A t, u \in QueueId :
        t # u /\ Running(t) # kUnmerged /\ Running(t) = Running(u)
            => \E q \in {t, u} : q = Running(q) /\ merged_by[q] = invocation[q].task.closure

\* A loop that has terminated accrues no tasks: what DoRun did not run in its
\* last flush it has dropped, and nothing is added afterwards.
\* (The code does not keep this: PostTask may register after the loop has dropped.)
NothingLeftBehind == \A q \in QueueId : pc[q] = "done" => Pending(q) = {}

\* The loops settle.  Every task that is registered leaves its queue: it is run
\* when its time has come, by whichever loop then serves the queue, or dropped
\* with the queue; there are MaxTasks registrations, so the queues are empty in
\* the end.  And Thread::Join returns: there is one join of a thread.
LoopsSettle ==
    /\ <>[](\A q \in QueueId : Pending(q) = {})
    /\ <>[](\A q \in joining : pc[q] = "done")

=============================================================================
