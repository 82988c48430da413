--------------------------- MODULE SerialTaskQueue ---------------------------
(***************************************************************************)
(* DartMessenger.SerialTaskQueue: runnables that run one at a time and in  *)
(* order on the threads of an executor that knows nothing of that.  The    *)
(* executor is handed the method flush, as often as the queue sees fit;    *)
(* flush runs at most one runnable.                                        *)
(***************************************************************************)
EXTENDS Naturals, Sequences

CONSTANTS
    Executor,       \* the executor's threads
    Dispatcher,     \* threads that dispatch to the queue
    NoRunnable

VARIABLES
    queue,          \* queue
    isRunning,      \* isRunning
    flushes,        \* calls of flush the executor holds
    adding,         \* dispatchers between queue.add and executor.execute
    at,             \* where each thread of the executor is
    runnable        \* the runnable it runs

serialVars == <<queue, isRunning, flushes, adding, at, runnable>>

SerialInit ==
    /\ queue = <<>> /\ isRunning = FALSE /\ flushes = 0 /\ adding = {}
    /\ at = [t \in Executor |-> "idle"]
    /\ runnable = [t \in Executor |-> NoRunnable]

\* dispatch adds the runnable ...
Add(d, r) ==
    /\ d \notin adding
    /\ queue' = Append(queue, r)
    /\ adding' = adding \cup {d}
    /\ UNCHANGED <<isRunning, flushes, at, runnable>>

\* ... and has the executor flush.
Execute(d) ==
    /\ d \in adding
    /\ adding' = adding \ {d}
    /\ flushes' = flushes + 1
    /\ UNCHANGED <<queue, isRunning, at, runnable>>

\* Mutant: flush does not look whether another thread is running.
FlushAnyway(t) ==
    /\ at[t] = "idle" /\ flushes > 0
    /\ flushes' = flushes - 1
    /\ isRunning' = TRUE
    /\ at' = [at EXCEPT ![t] = "polling"]
    /\ UNCHANGED <<queue, adding, runnable>>

\* flush: only the thread that sets isRunning goes on.
Flush(t) ==
    /\ at[t] = "idle" /\ flushes > 0
    /\ flushes' = flushes - 1
    /\ isRunning' = TRUE
    /\ at' = [at EXCEPT ![t] = IF isRunning THEN "idle" ELSE "polling"]
    /\ UNCHANGED <<queue, adding, runnable>>

\* Mutant: isRunning is cleared as soon as the runnable is out of the queue.
PollReleases(t) ==
    /\ at[t] = "polling"
    /\ IF queue = <<>>
       THEN at' = [at EXCEPT ![t] = "leaving"] /\ UNCHANGED <<queue, runnable>>
       ELSE /\ queue' = Tail(queue)
            /\ runnable' = [runnable EXCEPT ![t] = Head(queue)]
            /\ at' = [at EXCEPT ![t] = "running"]
    /\ isRunning' = FALSE
    /\ UNCHANGED <<flushes, adding>>

Poll(t) ==
    /\ at[t] = "polling"
    /\ IF queue = <<>>
       THEN at' = [at EXCEPT ![t] = "leaving"] /\ UNCHANGED <<queue, runnable>>
       ELSE /\ queue' = Tail(queue)
            /\ runnable' = [runnable EXCEPT ![t] = Head(queue)]
            /\ at' = [at EXCEPT ![t] = "running"]
    /\ UNCHANGED <<isRunning, flushes, adding>>

\* runnable.run() returns, or throws.
Ran(t) ==
    /\ at[t] = "running"
    /\ at' = [at EXCEPT ![t] = "leaving"]
    /\ runnable' = [runnable EXCEPT ![t] = NoRunnable]
    /\ UNCHANGED <<queue, isRunning, flushes, adding>>

Leave(t) ==
    /\ at[t] = "leaving"
    /\ isRunning' = FALSE
    /\ at' = [at EXCEPT ![t] = "checking"]
    /\ UNCHANGED <<queue, flushes, adding, runnable>>

\* Mutant: what was added meanwhile is left to whoever added it.
RecheckNothing(t) ==
    /\ at[t] = "checking"
    /\ at' = [at EXCEPT ![t] = "idle"]
    /\ UNCHANGED <<queue, isRunning, flushes, adding, runnable>>

\* The end of flush looks at the queue once more: flushes that came while
\* isRunning was set did nothing.
Recheck(t) ==
    /\ at[t] = "checking"
    /\ flushes' = IF queue = <<>> THEN flushes ELSE flushes + 1
    /\ at' = [at EXCEPT ![t] = "idle"]
    /\ UNCHANGED <<queue, isRunning, adding, runnable>>

\* What an executor thread does by itself; Ran is the end of the runnable.
FlushStep(t) == Flush(t) \/ Poll(t) \/ Leave(t) \/ Recheck(t)

-----------------------------------------------------------------------------
(* Properties.                                                             *)

\* The thread that set isRunning has not yet cleared it.
InFlush(t) == at[t] \in {"polling", "running", "leaving"}

\* The runnable that is running, if there is one.
Current ==
    IF \E t \in Executor : at[t] = "running"
    THEN runnable[CHOOSE t \in Executor : at[t] = "running"]
    ELSE NoRunnable

\* "All tasks performed by the TaskQueue will be forced to happen serially": one
\* thread is inside flush, and isRunning says whether there is one, whichever
\* flushes and dispatches overlap.
OneFlusher ==
    /\ \A t, v \in Executor : InFlush(t) /\ InFlush(v) => t = v
    /\ isRunning <=> \E t \in Executor : InFlush(t)

\* No runnable is left in the queue with nobody to flush it: a flush that found
\* isRunning set has been made up for.
NoneStranded ==
    queue # <<>> => \/ flushes > 0 \/ adding # {}
                    \/ \E t \in Executor : InFlush(t) \/ at[t] = "checking"

=============================================================================
