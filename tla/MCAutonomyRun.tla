---------------------------- MODULE MCAutonomyRun ----------------------------
(* Small instances of AutonomyRun for TLC; the cfg files give the sizes. *)
EXTENDS AutonomyRun, TLC

\* Engines and copies are interchangeable (no temporal property uses this).
Interchange == Permutations(Engine) \cup Permutations(Copy)
=============================================================================
