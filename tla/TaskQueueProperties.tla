------------------------ MODULE TaskQueueProperties -------------------------
(***************************************************************************)
(* What the table of task queues must guarantee, and the refinement of     *)
(* TaskSchedule, which knows nothing of merging.                           *)
(***************************************************************************)
EXTENDS MessageLoopTaskQueues

TaskSourceType == [primary : SUBSET Task, secondary : SUBSET Task, pauses : Nat]

\* Every variable has its type (the fields of TaskQueueEntry and the counters).
TypeOK ==
    /\ created \subseteq QueueId
    /\ entries \subseteq created
    /\ source \in [QueueId -> TaskSourceType]
    /\ owner_of \in [QueueId -> SUBSET QueueId]
    /\ subsumed_by \in [QueueId -> QueueId \cup {kUnmerged}]
    /\ observers \in [QueueId -> SUBSET ObserverKey]
    /\ wakeable \in [QueueId -> BOOLEAN] /\ \A q \in QueueId : wakeable[q] => q \in entries
    /\ order \in Nat
    /\ registered \in Nat
    /\ wake \in [QueueId -> Time \cup {NoWake}]
    /\ fired \subseteq entries

\* The merge invariants of message_loop_task_queues.h: owner_of and subsumed_by
\* are two views of one relation, its members are live entries, and no queue is
\* both an owner and subsumed, whatever the order of Merge, Unmerge and Dispose.
MergeInvariant ==
    /\ \A p, q \in QueueId : q \in owner_of[p] <=> subsumed_by[q] = p
    /\ \A p, q \in QueueId : q \in owner_of[p] => p \in entries /\ q \in entries
    /\ \A q \in QueueId : owner_of[q] = {} \/ ~IsSubsumed(q)

\* Exactly one loop serves each live queue: its tasks are offered, and its
\* observers notified, by one loop and by no second one.
ServedByExactlyOne ==
    \A q \in entries :
        \E p \in entries :
            /\ ~IsSubsumed(p) /\ q \in Group(p)
            /\ \A r \in entries : ~IsSubsumed(r) /\ q \in Group(r) => r = p
            /\ \A k \in observers[q] : \A r \in entries :
                  <<q, k>> \in GetObserversToNotify(r) <=> r = p

\* No lost wake-up: the loop of a queue that has tasks to offer is armed for a
\* time no later than that of the next task, or is on its way to fetch it,
\* through every merge, unmerge, pop, pause and resume.
WakeCoversNextTask ==
    \A q \in entries \ fired :
        WakesAtNext(q) => wake[q] # NoWake /\ wake[q] <= GetNextWakeTimeUnlocked(q)

\* The task a loop would be handed next is the earliest of all the tasks of its
\* group that are not paused, and among those due at one time the one that was
\* registered first, whichever of the merged queues it was registered to.
HandsOutInOrder ==
    \A q \in entries : HasPendingTasksUnlocked(q) =>
        LET top == PeekNextTaskUnlocked(q).task IN
        \A r \in Group(q) : \A t \in Offered(source[r]) :
            top.time < t.time \/ (top.time = t.time /\ top.closure <= t.closure)

\* The refinement: the abstract queue of q holds both heaps of q's own source,
\* so a merge or an unmerge is a stuttering step.
Schedule == INSTANCE TaskSchedule WITH
    pending <- [q \in QueueId |-> source[q].primary \cup source[q].secondary],
    paused <- [q \in QueueId |-> source[q].pauses]

\* The table of queues keeps the promise of TaskSchedule: merging decides which
\* loop runs a task, never whether, how often or in which order.
KeepsSchedule == Schedule!Spec

=============================================================================
