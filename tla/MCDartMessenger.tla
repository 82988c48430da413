--------------------------- MODULE MCDartMessenger ---------------------------
(* One thread that runs Dart, the platform thread and two executor threads. *)
EXTENDS DartMessenger

CONSTANT ui

MCDispatcher == {ui, Platform}

=============================================================================
