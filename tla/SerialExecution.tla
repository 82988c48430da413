--------------------------- MODULE SerialExecution ---------------------------
(***************************************************************************)
(* What a serial TaskQueue promises (BinaryMessenger.TaskQueueOptions):    *)
(* runnables run in the order they were dispatched, and one completes      *)
(* before the other begins.                                                *)
(***************************************************************************)
EXTENDS Sequences

CONSTANTS Runnable, NoRunnable

VARIABLES
    waiting,        \* the runnables that were dispatched and have not begun
    current         \* the one that runs

Init == waiting = <<>> /\ current = NoRunnable

Dispatch ==
    /\ \E r \in Runnable : waiting' = Append(waiting, r)
    /\ UNCHANGED current

Begin ==
    /\ current = NoRunnable /\ waiting # <<>>
    /\ current' = Head(waiting)
    /\ waiting' = Tail(waiting)

Complete ==
    /\ current # NoRunnable
    /\ current' = NoRunnable
    /\ UNCHANGED waiting

Spec == Init /\ [][Dispatch \/ Begin \/ Complete]_<<waiting, current>>

=============================================================================
