----------------------- MODULE MessageLoopTaskQueues ------------------------
(***************************************************************************)
(* fml/message_loop_task_queues.cc: the process-wide table of task queues. *)
(* Every public method holds queue_mutex_ from start to end, so each one   *)
(* is a single action.  Callers (any thread) choose the arguments.         *)
(*                                                                         *)
(* The fields of TaskQueueEntry are one function each, from queue ids; the *)
(* map queue_entries_ is their restriction to the ids in entries.  A call  *)
(* on an id outside entries makes queue_entries_.at throw, so the guards   *)
(* demand q \in entries.                                                   *)
(*                                                                         *)
(* A Wakeable (the message loop) is external to this table: WakeUp(t) arms *)
(* it for time t, replacing what it was armed for, and WakeFires is the    *)
(* loop noticing that the time has come, on its way to GetNextTaskToRun.   *)
(***************************************************************************)
EXTENDS TaskSource

CONSTANTS
    QueueId,        \* the ids task_queue_id_counter_ hands out
    kUnmerged,      \* TaskQueueId::kUnmerged
    ObserverKey,    \* keys of task observers
    Time,           \* target times and the from_time of a flush
    OrderRange,     \* order_ is a 32-bit counter: 2^32 in the code
    MaxTasks,       \* bound: registrations
    MaxPauses,      \* bound: outstanding pause requests of a queue
    MergedResume    \* may a caller resume a queue while it is subsumed?

NoWake == -1        \* a Wakeable that is not armed

ASSUME QueueAssumption ==
    /\ kUnmerged \notin QueueId
    /\ Time \subseteq Nat
    /\ OrderRange \in Nat \ {0}
    /\ MaxTasks \in Nat
    /\ MaxPauses \in Nat
    /\ MergedResume \in BOOLEAN

VARIABLES
    created,        \* ids handed out so far (task_queue_id_counter_)
    entries,        \* keys of queue_entries_
    source,         \* TaskQueueEntry::task_source
    owner_of,       \* TaskQueueEntry::owner_of
    subsumed_by,    \* TaskQueueEntry::subsumed_by
    observers,      \* TaskQueueEntry::task_observers
    wakeable,       \* is TaskQueueEntry::wakeable set?
    order,          \* order_
    registered,     \* number of RegisterTask calls, names the closures
    wake,           \* the time the queue's Wakeable is armed for, or NoWake
    fired           \* queues whose Wakeable fired since GetNextTaskToRun was
                    \* last called for them

entryVars == <<created, entries, observers, wakeable>>
mergeVars == <<owner_of, subsumed_by>>
countVars == <<order, registered>>
wakeVars == <<wake, fired>>
queueVars == <<entryVars, mergeVars, countVars, source, wakeVars>>

Task == [closure : Nat, order : Nat, time : Time, grade : TaskSourceGrade]

-----------------------------------------------------------------------------
(* Queries.                                                                *)

IsSubsumed(q) == subsumed_by[q] # kUnmerged

\* The queues whose tasks and observers the loop of q serves.
Group(q) == {q} \cup owner_of[q]

\* Mutant: a subsumed queue reports its tasks as its own.
HasPendingTasksThoughSubsumed(q) == \E r \in Group(q) : ~IsEmpty(source[r])

HasPendingTasksUnlocked(q) ==
    ~IsSubsumed(q) /\ \E r \in Group(q) : ~IsEmpty(source[r])

\* The tops top_task_updater compares, each with the queue it came from.
Tops(q) ==
    {[queue |-> r, task |-> Top(source[r])] :
        r \in {g \in Group(q) : ~IsEmpty(source[g])}}

PeekNextTaskUnlocked(q) ==
    CHOOSE top \in Tops(q) : \A other \in Tops(q) : ~After(top.task, other.task)

GetNextWakeTimeUnlocked(q) == PeekNextTaskUnlocked(q).task.time

Owns(p, q) == q \in owner_of[p]

\* Mutant: the check does not know of merged queues.
RunsOnTheSameQueue(p, q) == p = q

\* TaskRunnerChecker::RunsOnTheSameThread
RunsOnTheSameThread(p, q) == p = q \/ Owns(p, q) \/ Owns(q, p)

\* Mutant: the loop of a subsumed queue still notifies the queue's observers.
GetObserversThoughSubsumed(q) == UNION {{<<r, k>> : k \in observers[r]} : r \in Group(q)}

GetObserversToNotify(q) ==
    IF IsSubsumed(q) THEN {}
    ELSE UNION {{<<r, k>> : k \in observers[r]} : r \in Group(q)}

\* WakeUpUnlocked(q, GetNextWakeTimeUnlocked(q)) if there is anything pending;
\* read in the state after the caller's own changes.
WakesAtNext(q) == wakeable[q] /\ HasPendingTasksUnlocked(q)
RearmIfPending(qs) ==
    wake' = [q \in QueueId |->
                IF q \in qs /\ WakesAtNext(q)'
                THEN GetNextWakeTimeUnlocked(q)'
                ELSE wake[q]]

-----------------------------------------------------------------------------
(* Methods.                                                                *)

\* CreateTaskQueue; the counter only grows, an id is never handed out twice.
CreateTaskQueue(q) ==
    /\ q \notin created
    /\ created' = created \cup {q}
    /\ entries' = entries \cup {q}
    /\ UNCHANGED <<observers, wakeable, mergeVars, countVars, source, wakeVars>>

\* SetWakeable may be called once per queue (FML_CHECK).  Its only caller is
\* the MessageLoopImpl constructor, directly after CreateTaskQueue.
SetWakeable(q) ==
    /\ q \in entries /\ ~wakeable[q]
    /\ source[q] = NewTaskSource /\ owner_of[q] = {} /\ ~IsSubsumed(q)
    /\ wakeable' = [wakeable EXCEPT ![q] = TRUE]
    /\ UNCHANGED <<created, entries, observers, mergeVars, countVars, source, wakeVars>>

\* Mutant: the entries of the subsumed queues are left behind.
DisposeOwnEntryOnly(q) ==
    /\ q \in entries /\ ~IsSubsumed(q)
    /\ entries' = entries \ {q}
    /\ source' = [source EXCEPT ![q] = NewTaskSource]
    /\ owner_of' = [owner_of EXCEPT ![q] = {}]
    /\ observers' = [observers EXCEPT ![q] = {}]
    /\ wakeable' = [wakeable EXCEPT ![q] = FALSE]
    /\ wake' = [wake EXCEPT ![q] = NoWake]
    /\ fired' = fired \ {q}
    /\ UNCHANGED <<created, countVars, subsumed_by>>

\* Dispose erases the entry and, with it, the entries of all it subsumed.
Dispose(q) ==
    /\ q \in entries /\ ~IsSubsumed(q)
    /\ LET gone == Group(q) IN
       /\ entries' = entries \ gone
       /\ source' = [r \in QueueId |-> IF r \in gone THEN NewTaskSource ELSE source[r]]
       /\ owner_of' = [r \in QueueId |-> IF r \in gone THEN {} ELSE owner_of[r]]
       /\ subsumed_by' = [r \in QueueId |-> IF r \in gone THEN kUnmerged ELSE subsumed_by[r]]
       /\ observers' = [r \in QueueId |-> IF r \in gone THEN {} ELSE observers[r]]
       /\ wakeable' = [r \in QueueId |-> r \notin gone /\ wakeable[r]]
       /\ wake' = [r \in QueueId |-> IF r \in gone THEN NoWake ELSE wake[r]]
       /\ fired' = fired \ gone
    /\ UNCHANGED <<created, countVars>>

DisposeTasks(q) ==
    /\ q \in entries /\ ~IsSubsumed(q)
    /\ source' = [r \in QueueId |-> IF r \in Group(q) THEN ShutDown(source[r]) ELSE source[r]]
    /\ UNCHANGED <<entryVars, mergeVars, countVars, wakeVars>>

\* Mutant: the queue's own loop is woken, even if another loop serves the queue.
RegisterTaskWakesSelf(q, time, grade) ==
    /\ q \in entries
    /\ registered < MaxTasks
    /\ registered' = registered + 1
    /\ order' = (order + 1) % OrderRange
    /\ source' = [source EXCEPT ![q] = SourceRegisterTask(@,
            [closure |-> registered, order |-> order, time |-> time, grade |-> grade])]
    /\ UNCHANGED <<entryVars, mergeVars, fired>>
    /\ RearmIfPending({q})

RegisterTask(q, time, grade) ==
    /\ q \in entries
    /\ registered < MaxTasks
    /\ registered' = registered + 1
    /\ order' = (order + 1) % OrderRange
    /\ source' = [source EXCEPT ![q] = SourceRegisterTask(@,
            [closure |-> registered, order |-> order, time |-> time, grade |-> grade])]
    /\ UNCHANGED <<entryVars, mergeVars, fired>>
    /\ RearmIfPending({IF IsSubsumed(q) THEN subsumed_by[q] ELSE q})

\* GetNextTaskToRun, when it returns a closure: the wake is armed at the time
\* of the task that is then popped, not at the time of the one behind it.
TakeNextTask(q, from_time) ==
    /\ q \in entries
    /\ HasPendingTasksUnlocked(q)
    /\ PeekNextTaskUnlocked(q).task.time <= from_time
    /\ LET top == PeekNextTaskUnlocked(q) IN
       /\ source' = [source EXCEPT ![top.queue] = PopTask(@, top.task.grade)]
       /\ wake' = [wake EXCEPT ![q] = IF wakeable[q] THEN top.task.time ELSE @]
    /\ fired' = fired \ {q}
    /\ UNCHANGED <<entryVars, mergeVars, countVars>>

\* GetNextTaskToRun, when it returns nullptr: nothing pending, or the top is
\* not due, which re-arms the wake.
NoTaskToRun(q, from_time) ==
    /\ q \in entries
    /\ HasPendingTasksUnlocked(q) => PeekNextTaskUnlocked(q).task.time > from_time
    /\ fired' = fired \ {q}
    /\ UNCHANGED <<entryVars, mergeVars, countVars, source>>
    /\ RearmIfPending({q})

\* External: the Wakeable of q fires and is thereby disarmed.
WakeFires(q) ==
    /\ q \in entries /\ wake[q] # NoWake
    /\ wake' = [wake EXCEPT ![q] = NoWake]
    /\ fired' = fired \cup {q}
    /\ UNCHANGED <<entryVars, mergeVars, countVars, source>>

AddTaskObserver(q, key) ==
    /\ q \in entries
    /\ observers' = [observers EXCEPT ![q] = @ \cup {key}]
    /\ UNCHANGED <<created, entries, wakeable, mergeVars, countVars, source, wakeVars>>

RemoveTaskObserver(q, key) ==
    /\ q \in entries
    /\ observers' = [observers EXCEPT ![q] = @ \ {key}]
    /\ UNCHANGED <<created, entries, wakeable, mergeVars, countVars, source, wakeVars>>

\* The three refusals of Merge; a merge that is already there succeeds idly.
CanMerge(owner, subsumed) ==
    /\ ~IsSubsumed(owner)
    /\ owner_of[subsumed] = {}
    /\ ~IsSubsumed(subsumed)

Merge(owner, subsumed) ==
    /\ owner \in entries /\ subsumed \in entries
    /\ owner # subsumed /\ ~Owns(owner, subsumed) /\ CanMerge(owner, subsumed)
    /\ owner_of' = [owner_of EXCEPT ![owner] = @ \cup {subsumed}]
    /\ subsumed_by' = [subsumed_by EXCEPT ![subsumed] = owner]
    /\ UNCHANGED <<entryVars, countVars, source, fired>>
    /\ RearmIfPending({owner})

\* The four refusals of Unmerge.
CanUnmerge(owner, subsumed) ==
    /\ owner_of[owner] # {}
    /\ ~IsSubsumed(owner)
    /\ IsSubsumed(subsumed)
    /\ Owns(owner, subsumed)

\* Mutant: only the owner is woken after the queues come apart.
UnmergeWakesOwnerOnly(owner, subsumed) ==
    /\ owner \in entries /\ subsumed \in entries
    /\ CanUnmerge(owner, subsumed)
    /\ subsumed_by' = [subsumed_by EXCEPT ![subsumed] = kUnmerged]
    /\ owner_of' = [owner_of EXCEPT ![owner] = @ \ {subsumed}]
    /\ UNCHANGED <<entryVars, countVars, source, fired>>
    /\ RearmIfPending({owner})

Unmerge(owner, subsumed) ==
    /\ owner \in entries /\ subsumed \in entries
    /\ CanUnmerge(owner, subsumed)
    /\ subsumed_by' = [subsumed_by EXCEPT ![subsumed] = kUnmerged]
    /\ owner_of' = [owner_of EXCEPT ![owner] = @ \ {subsumed}]
    /\ UNCHANGED <<entryVars, countVars, source, fired>>
    /\ RearmIfPending({owner, subsumed})

PauseSecondarySource(q) ==
    /\ q \in entries /\ source[q].pauses < MaxPauses
    /\ source' = [source EXCEPT ![q] = PauseSecondary(@)]
    /\ UNCHANGED <<entryVars, mergeVars, countVars, wakeVars>>

ResumeSecondarySource(q) ==
    /\ q \in entries /\ source[q].pauses > 0
    /\ MergedResume \/ ~IsSubsumed(q)
    /\ source' = [source EXCEPT ![q] = ResumeSecondary(@)]
    /\ UNCHANGED <<entryVars, mergeVars, countVars, fired>>
    /\ RearmIfPending({q})

-----------------------------------------------------------------------------
Init ==
    /\ created = {} /\ entries = {}
    /\ source = [q \in QueueId |-> NewTaskSource]
    /\ owner_of = [q \in QueueId |-> {}]
    /\ subsumed_by = [q \in QueueId |-> kUnmerged]
    /\ observers = [q \in QueueId |-> {}]
    /\ wakeable = [q \in QueueId |-> FALSE]
    /\ order = 0 /\ registered = 0
    /\ wake = [q \in QueueId |-> NoWake] /\ fired = {}

Next ==
    \/ \E q \in QueueId :
          \/ CreateTaskQueue(q) \/ SetWakeable(q) \/ Dispose(q) \/ DisposeTasks(q)
          \/ PauseSecondarySource(q) \/ ResumeSecondarySource(q) \/ WakeFires(q)
          \/ \E k \in ObserverKey : AddTaskObserver(q, k) \/ RemoveTaskObserver(q, k)
          \/ \E t \in Time :
                \/ TakeNextTask(q, t) \/ NoTaskToRun(q, t)
                \/ \E g \in TaskSourceGrade : RegisterTask(q, t, g)
    \/ \E p, q \in QueueId : Merge(p, q) \/ Unmerge(p, q)

Spec == Init /\ [][Next]_queueVars

=============================================================================
