---------------------------- MODULE MCDelegation ----------------------------
(* Small instances of Delegation for TLC; the cfg files give the sizes. *)
EXTENDS Delegation
=============================================================================
