--------------------------- MODULE MCMessageLoop ----------------------------
(* Two threads with a loop each, and one or two clients. *)
EXTENDS MessageLoop, TLC

=============================================================================
