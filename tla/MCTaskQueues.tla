---------------------------- MODULE MCTaskQueues ----------------------------
(* Small instances of the table of task queues: queue ids are interchangeable. *)
EXTENDS TaskQueueProperties, TLC

Symmetry == Permutations(QueueId)

=============================================================================
