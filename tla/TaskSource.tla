----------------------------- MODULE TaskSource -----------------------------
(***************************************************************************)
(* fml/task_source.cc and fml/delayed_task.cc: the two task heaps behind a *)
(* task queue.  A heap is the set of its tasks; std::priority_queue with   *)
(* std::greater keeps the earliest task on top, so the top is the minimum. *)
(*                                                                         *)
(* A task is a record: closure identifies the registration, order and time *)
(* are the two keys operator> compares, grade picks the heap.              *)
(***************************************************************************)
EXTENDS Integers, FiniteSets

TaskSourceGrade == {"kUserInteraction", "kDartEventLoop", "kUnspecified"}

\* Mutant: at the same target time, last registered first.
AfterOrderReversed(a, b) == IF a.time = b.time THEN a.order < b.order ELSE a.time > b.time

\* DelayedTask::operator>: later target time, ties broken by registration order.
After(a, b) == IF a.time = b.time THEN a.order > b.order ELSE a.time > b.time

\* priority_queue::top of a non-empty heap.
HeapTop(heap) == CHOOSE t \in heap : \A u \in heap : ~After(t, u)

NewTaskSource == [primary |-> {}, secondary |-> {}, pauses |-> 0]

\* TaskSource::ShutDown drops both heaps and keeps the pause count.
ShutDown(s) == [s EXCEPT !.primary = {}, !.secondary = {}]

SourceRegisterTask(s, task) ==
    IF task.grade = "kDartEventLoop"
    THEN [s EXCEPT !.secondary = @ \cup {task}]
    ELSE [s EXCEPT !.primary = @ \cup {task}]

PopTask(s, grade) ==
    IF grade = "kDartEventLoop"
    THEN [s EXCEPT !.secondary = @ \ {HeapTop(@)}]
    ELSE [s EXCEPT !.primary = @ \ {HeapTop(@)}]

\* The tasks a source currently offers: none of the secondary heap's while a
\* pause request is outstanding.
Offered(s) == s.primary \cup (IF s.pauses = 0 THEN s.secondary ELSE {})

IsEmpty(s) == Offered(s) = {}

\* Mutant: the pause of the secondary heap is forgotten.
TopIgnoringPause(s) ==
    IF s.secondary = {} THEN HeapTop(s.primary)
    ELSE IF s.primary = {} THEN HeapTop(s.secondary)
    ELSE IF After(HeapTop(s.primary), HeapTop(s.secondary)) THEN HeapTop(s.secondary)
    ELSE HeapTop(s.primary)

Top(s) ==
    IF s.pauses > 0 \/ s.secondary = {} THEN HeapTop(s.primary)
    ELSE IF s.primary = {} THEN HeapTop(s.secondary)
    ELSE IF After(HeapTop(s.primary), HeapTop(s.secondary)) THEN HeapTop(s.secondary)
    ELSE HeapTop(s.primary)

PauseSecondary(s) == [s EXCEPT !.pauses = @ + 1]

\* The assertion in ResumeSecondary makes an unbalanced resume a caller error.
ResumeSecondary(s) == [s EXCEPT !.pauses = @ - 1]

=============================================================================
