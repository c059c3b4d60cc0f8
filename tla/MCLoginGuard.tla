---------------------------- MODULE MCLoginGuard ----------------------------
(* LoginGuard for TLC. *)
EXTENDS LoginGuard, TLC

Symmetry == Permutations(Workers) \cup Permutations(Accounts)

=============================================================================
