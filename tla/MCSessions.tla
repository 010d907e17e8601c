----------------------------- MODULE MCSessions -----------------------------
(* A small instance of Sessions for TLC. *)
EXTENDS Sessions, TLC

\* Login tokens, OAuth states and requests differ in nothing but their names.
Symmetry == Permutations(LoginToken) \cup Permutations(State) \cup Permutations(Request)
=============================================================================
