---------------------------- MODULE MCNonceWindow ---------------------------
(* NonceWindow for TLC. *)
EXTENDS NonceWindow, TLC

Symmetry == Permutations(Submissions) \cup Permutations(Workers)

=============================================================================
