---------------------------- MODULE MCSshSessions ----------------------------
(* The SSH terminals with the callers, users and keys interchangeable.      *)
EXTENDS SshSessions, TLC

Symmetry == Permutations(Callers) \cup Permutations(Users) \cup Permutations(Keys)

=============================================================================
