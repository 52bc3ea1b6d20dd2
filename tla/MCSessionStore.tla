---------------------------- MODULE MCSessionStore ----------------------------
(* Instances of SessionStore for TLC.                                      *)
EXTENDS SessionStore, TLC

Symmetry == Permutations(Handlers) \cup Permutations(Sessions) \cup Permutations(Tasks)

=============================================================================
