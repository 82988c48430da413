-------------------------- MODULE MCDartVMLifecycle --------------------------
(* Three shells share the Dart VM of the process.                           *)
EXTENDS DartVMLifecycle

CONSTANTS a, b, c

MCShell == {a, b, c}
=============================================================================
