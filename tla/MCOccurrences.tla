---------------------------- MODULE MCOccurrences ----------------------------
(* A small instance of Occurrences for TLC; the cfg file gives the sizes. *)
EXTENDS Occurrences
=============================================================================
