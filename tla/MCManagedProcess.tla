-------------------------- MODULE MCManagedProcess --------------------------
(* Small instances of ManagedProcess for TLC. *)
EXTENDS ManagedProcess, TLC

Symmetry == Permutations(Pid) \cup Permutations(Conn) \cup Permutations(Monitor)

=============================================================================
