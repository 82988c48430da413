---------------------------- MODULE MCRootIsolate ---------------------------
(* One engine, with separate and with merged threads, and with the pauses. *)
EXTENDS RootIsolate, TLC

Plain == [merged |-> FALSE, start_paused |-> FALSE, exit_paused |-> FALSE]
EachFlag == {Plain, [Plain EXCEPT !.merged = TRUE], [Plain EXCEPT !.start_paused = TRUE],
             [Plain EXCEPT !.exit_paused = TRUE]}
=============================================================================
