-------------------------- MODULE MCShellLifecycle --------------------------
(* Small instances of ShellLifecycle: which embedders there are. *)
EXTENDS ShellLifecycle

Impatient == [handler |-> "platform", fails |-> TRUE, patient |-> FALSE, runs |-> 1, sends |-> 2]
Patient == [handler |-> "background", fails |-> FALSE, patient |-> TRUE, runs |-> 2, sends |-> 0]

Embedders == {Impatient, Patient}
Hasty == {[Impatient EXCEPT !.fails = FALSE, !.sends = 0]}

=============================================================================
