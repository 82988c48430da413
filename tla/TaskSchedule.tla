---------------------------- MODULE TaskSchedule ----------------------------
(***************************************************************************)
(* What the task queues promise to somebody who posts tasks, whatever the  *)
(* merging of queues does behind the scenes: a posted task stays in the    *)
(* queue it was posted to, it is handed out at most once, never ahead of   *)
(* an earlier task of the same queue, never while its heap is paused, and  *)
(* it disappears otherwise only when its whole queue is dropped.           *)
(***************************************************************************)
EXTENDS Naturals

CONSTANT QueueId

VARIABLES pending,   \* the tasks waiting in each queue
          paused     \* outstanding pause requests of each queue

vars == <<pending, paused>>

\* Earlier target time first; at the same time, first posted first.
Before(t, u) == t.time < u.time \/ (t.time = u.time /\ t.closure < u.closure)

\* A pause holds back the tasks of the Dart event loop.
Eligible(q) == {t \in pending[q] : paused[q] > 0 => t.grade # "kDartEventLoop"}

Init ==
    /\ pending = [q \in QueueId |-> {}]
    /\ paused = [q \in QueueId |-> 0]

Post(q) ==
    /\ \E t \in pending'[q] :
          /\ \A r \in QueueId : t \notin pending[r]
          /\ pending' = [pending EXCEPT ![q] = @ \cup {t}]
    /\ UNCHANGED paused

Run(q) ==
    /\ \E t \in Eligible(q) :
          /\ \A u \in Eligible(q) \ {t} : Before(t, u)
          /\ pending' = [pending EXCEPT ![q] = @ \ {t}]
    /\ UNCHANGED paused

\* All the tasks of some queues are dropped.
Drop(qs) ==
    /\ pending' = [q \in QueueId |-> IF q \in qs THEN {} ELSE pending[q]]
    /\ UNCHANGED paused

\* Some queues cease to exist.
Forget(qs) ==
    /\ pending' = [q \in QueueId |-> IF q \in qs THEN {} ELSE pending[q]]
    /\ paused' = [q \in QueueId |-> IF q \in qs THEN 0 ELSE paused[q]]

Pause(q) == paused' = [paused EXCEPT ![q] = @ + 1] /\ UNCHANGED pending

Resume(q) ==
    /\ paused[q] > 0
    /\ paused' = [paused EXCEPT ![q] = @ - 1]
    /\ UNCHANGED pending

Next ==
    \/ \E q \in QueueId : Post(q) \/ Run(q) \/ Pause(q) \/ Resume(q)
    \/ \E qs \in SUBSET QueueId : Drop(qs) \/ Forget(qs)

Spec == Init /\ [][Next]_vars

=============================================================================
