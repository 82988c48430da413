---------------------- MODULE MCConcurrentMessageLoop -----------------------
(* A pool of two workers and the threads that post to it. *)
EXTENDS ConcurrentMessageLoop

=============================================================================
